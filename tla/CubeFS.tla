------------------------------- MODULE CubeFS -------------------------------
(***************************************************************************)
(* The CubeFS mount engine (src/pkg/cubefs/mount.go): the Registry of live *)
(* shares, the cfs-client processes it starts and stops, and the kernel's  *)
(* table of mounts, which processes other than the engine change as well.  *)
(*                                                                         *)
(* Callers of Apply and UnmountAll are serialised by the registry's mutex; *)
(* lock, pc and target belong to the one that holds it.  What races with   *)
(* it are the clients: one mounts its share a while after it is started or *)
(* never, exits at any time, and may leave its mount behind.               *)
(***************************************************************************)
EXTENDS Naturals, Sequences

CONSTANTS
    Caller, NoCaller,  \* goroutines that call the registry
    Share,             \* ids of shares
    MountPoint,        \* guest paths
    Client, NoClient,  \* cfs-client processes: a bound on how many at a time
    MayFail            \* commands may fail for reasons of their own

ASSUME ConstantsAreSound ==
    /\ NoCaller \notin Caller /\ NoClient \notin Client
    /\ MayFail \in BOOLEAN

(* What a caller asks for: to apply a share mount, or UnmountAll.          *)
Apply == [share : Share, point : MountPoint, action : {"mount", "unmount"}]
UnmountAll == [action : {"unmountAll"}]
Idle == [action |-> "none"]

VARIABLES
    active,   \* Registry.active: the client of a share
    lock,     \* who holds Registry.mu
    request,  \* what each caller is calling the registry for
    pc,       \* where the holder of the lock is
    target,   \* the client it is starting or stopping
    failed,   \* the target's unmount, or its mount, has failed
    proc,     \* the state of each client process
    given,    \* the share and mount point in each client's config.json
    mounted   \* /proc/mounts: the clients mounted on each path, topmost first

engineVars == <<active, lock, request, pc, target, failed>>
clientVars == <<proc, given, mounted>>
vars == <<engineVars, clientVars>>

Init ==
    /\ active = [s \in Share |-> NoClient]
    /\ lock = NoCaller
    /\ request = [t \in Caller |-> Idle]
    /\ pc = "free"
    /\ target = NoClient
    /\ failed = FALSE
    /\ proc = [c \in Client |-> "exited"]
    /\ given = [c \in Client |-> Idle]
    /\ mounted = [p \in MountPoint |-> <<>>]

Running(c) == proc[c] \in {"starting", "serving", "dying"}
Registered(c) == \E s \in Share : active[s] = c

(* A process that is no longer referred to from anywhere.                  *)
Unused(c) ==
    /\ ~Running(c) /\ ~Registered(c)
    /\ \A p \in MountPoint : \A i \in DOMAIN mounted[p] : mounted[p][i] # c

-----------------------------------------------------------------------------
(* The clients and everybody else in the guest.                            *)

ClientMounts(c) ==
    /\ proc[c] = "starting"
    /\ proc' = [proc EXCEPT ![c] = "serving"]
    /\ mounted' = [mounted EXCEPT ![given[c].point] = <<c>> \o @]
    /\ UNCHANGED <<engineVars, given>>

(* A client exits by itself or because it was killed.  The goroutine that  *)
(* waits for it closes the exited channel.  A mount it had stays, dead.    *)
ClientExits(c) ==
    /\ Running(c)
    /\ proc' = [proc EXCEPT ![c] = "exited"]
    /\ UNCHANGED <<engineVars, given, mounted>>

(* Some process of the guest unmounts a path.                              *)
GuestUnmounts(p) ==
    /\ mounted[p] # <<>>
    /\ mounted' = [mounted EXCEPT ![p] = Tail(@)]
    /\ UNCHANGED <<engineVars, proc, given>>

-----------------------------------------------------------------------------
(* Registry.Apply, Registry.UnmountAll                                     *)

Call(t, r) ==
    /\ request[t] = Idle
    /\ request' = [request EXCEPT ![t] = r]
    /\ UNCHANGED <<active, lock, pc, target, failed, clientVars>>

(* Mutant: the mutex is not taken.                                         *)
LockNot(t) ==
    /\ request[t] # Idle
    /\ lock' = t /\ pc' = "lookup" /\ failed' = FALSE
    /\ UNCHANGED <<active, request, target, clientVars>>

Lock(t) ==
    /\ lock = NoCaller /\ request[t] # Idle
    /\ lock' = t
    /\ pc' = "lookup"
    /\ failed' = FALSE
    /\ UNCHANGED <<active, request, target, clientVars>>

(* The call under way.                                                     *)
Current == request[lock]

Return ==
    /\ lock' = NoCaller
    /\ request' = [request EXCEPT ![lock] = Idle]
    /\ pc' = "free"
    /\ target' = NoClient
    /\ failed' = failed

(* The live mounts this call is to take down.                              *)
ToStop ==
    LET shares == IF Current.action = "unmountAll" THEN Share ELSE {Current.share} IN
    {active[s] : s \in shares} \ {NoClient}

(* Takes an existing mount down first, in the random order of the map.     *)
StopExisting ==
    /\ pc = "lookup"
    /\ \E c \in ToStop : target' = c
    /\ pc' = "detach"
    /\ UNCHANGED <<active, lock, request, failed, clientVars>>

NothingToStop ==
    /\ pc = "lookup" /\ ToStop = {}
    /\ IF Current.action = "mount"
       THEN pc' = "start" /\ UNCHANGED <<lock, request, target, failed>>
       ELSE Return
    /\ UNCHANGED <<active, clientVars>>

(* unmountPath: the top mount of the path goes, unless it is in use.  All  *)
(* of the commands tried fail where nothing is mounted.                    *)
Detach ==
    LET p == given[target].point IN
    /\ pc = "detach"
    /\ \/ /\ mounted[p] # <<>>
          /\ mounted' = [mounted EXCEPT ![p] = Tail(@)]
          /\ failed' = failed
       \/ /\ mounted[p] = <<>> \/ MayFail
          /\ failed' = TRUE
          /\ mounted' = mounted
    /\ pc' = "kill"
    /\ UNCHANGED <<active, lock, request, target, proc, given>>

(* Mutant: no kill after a failed unmount.                                 *)
KillUnlessFailed ==
    /\ pc = "kill" /\ pc' = "await"
    /\ proc' = IF Running(target) /\ ~failed THEN [proc EXCEPT ![target] = "dying"] ELSE proc
    /\ UNCHANGED <<active, lock, request, target, failed, given, mounted>>

(* Kill, which is harmless to a process that has exited.                   *)
Kill ==
    /\ pc = "kill"
    /\ proc' = IF Running(target) THEN [proc EXCEPT ![target] = "dying"] ELSE proc
    /\ pc' = "await"
    /\ UNCHANGED <<active, lock, request, target, failed, given, mounted>>

(* Mutant: UnmountAll returns the first error at once.                     *)
StoppedFirstError ==
    /\ IF Registered(target) /\ ~failed
       THEN /\ active' = [s \in Share |-> IF active[s] = target THEN NoClient ELSE active[s]]
            /\ pc' = "lookup" /\ target' = NoClient
            /\ UNCHANGED <<lock, request, failed>>
       ELSE Return /\ active' = active
    /\ UNCHANGED clientVars

(* The end of the wait for the target's exit.  A client that was just      *)
(* being started: Mount, and with it Apply, returns an error.  A failed    *)
(* unmount is an error too and leaves the entry; UnmountAll goes on.       *)
Stopped ==
    /\ IF Registered(target) /\ (~failed \/ Current.action = "unmountAll")
       THEN /\ active' = [s \in Share |-> IF active[s] = target THEN NoClient ELSE active[s]]
            /\ pc' = "lookup"
            /\ target' = NoClient
            /\ UNCHANGED <<lock, request, failed>>
       ELSE Return /\ active' = active
    /\ UNCHANGED clientVars

(* Mutant: the exited channel is not waited for.                           *)
AwaitNothing == pc = "await" /\ Stopped

Await == pc = "await" /\ ~Running(target) /\ Stopped

Dead(p) == mounted[p] # <<>> /\ ~Running(Head(mounted[p]))

(* Mount fails before a process is started.  On a dead mount MkdirAll      *)
(* fails, unless the kernel still has the directory's attributes cached.   *)
MountFails ==
    /\ pc = "start"
    /\ MayFail \/ Dead(Current.point) \/ ~\E c \in Client : Unused(c)
    /\ Return
    /\ UNCHANGED <<active, clientVars>>

Start ==
    /\ pc = "start"
    /\ \E c \in Client :
        /\ Unused(c)
        /\ proc' = [proc EXCEPT ![c] = "starting"]
        /\ given' = [given EXCEPT ![c] = [share |-> Current.share, point |-> Current.point]]
        /\ target' = c
    /\ pc' = "poll"
    /\ UNCHANGED <<active, lock, request, failed, mounted>>

(* waitMounted: something is mounted on the path.                          *)
Mounted ==
    /\ pc = "poll" /\ mounted[Current.point] # <<>>
    /\ active' = [active EXCEPT ![Current.share] = target]
    /\ Return
    /\ UNCHANGED clientVars

(* Mutant: a client that does not mount in time is left alone.             *)
TimedOutLeaving ==
    /\ pc = "poll" /\ mounted[Current.point] = <<>>
    /\ Return
    /\ UNCHANGED <<active, clientVars>>

(* The deadline has passed and the last look at /proc/mounts was in vain.  *)
TimedOut ==
    /\ pc = "poll" /\ mounted[Current.point] = <<>>
    /\ failed' = TRUE
    /\ pc' = "kill"
    /\ UNCHANGED <<active, lock, request, target, clientVars>>

EngineStep ==
    \/ StopExisting \/ NothingToStop
    \/ Detach \/ Kill \/ Await
    \/ MountFails \/ Start \/ Mounted \/ TimedOut

Next ==
    \/ \E c \in Client : ClientMounts(c) \/ ClientExits(c)
    \/ \E p \in MountPoint : GuestUnmounts(p)
    \/ \E t \in Caller : Lock(t) \/ \E r \in Apply \cup UnmountAll : Call(t, r)
    \/ EngineStep

(* Commands return, a killed process exits, the mutex is handed to every   *)
(* waiter in the end (it is starvation free).  A client need not mount.    *)
Fairness ==
    /\ WF_vars(EngineStep)
    /\ \A t \in Caller : SF_vars(Lock(t))
    /\ \A c \in Client : WF_vars(ClientExits(c) /\ proc[c] = "dying")

Spec == Init /\ [][Next]_vars
FairSpec == Spec /\ Fairness

-----------------------------------------------------------------------------
Given == [share : Share, point : MountPoint]

TypeOK ==
    /\ active \in [Share -> Client \cup {NoClient}]
    /\ lock \in Caller \cup {NoCaller}
    /\ request \in [Caller -> Apply \cup UnmountAll \cup {Idle}]
    /\ pc \in {"free", "lookup", "detach", "kill", "await", "start", "poll"}
    /\ lock = NoCaller <=> pc = "free"
    /\ lock # NoCaller => request[lock] # Idle
    /\ target \in Client \cup {NoClient}
    /\ target # NoClient <=> pc \in {"detach", "kill", "await", "poll"}
    /\ failed \in BOOLEAN
    /\ proc \in [Client -> {"starting", "serving", "dying", "exited"}]
    /\ given \in [Client -> Given \cup {Idle}]
    /\ mounted \in [MountPoint -> Seq(Client)]

(* No cfs-client runs that nobody would ever stop: it is in the registry   *)
(* or the call under way is dealing with it.  A start that times out and   *)
(* an unmount that fails are the ways to lose one.                         *)
ClientsAccounted ==
    \A c \in Client : Running(c) => Registered(c) \/ c = target

(* Two clients of one share never run at a time: they would write the same *)
(* config.json and log.  A replacement waits for the exit of the old one.  *)
OneClientPerShare ==
    \A c, d \in Client :
        Running(c) /\ Running(d) /\ given[c].share = given[d].share => c = d

(* When a call returns, with or without an error, the only client of its   *)
(* share that may run is one it has just registered; after UnmountAll no   *)
(* client runs at all.  A caller may rely on it when the unmount failed.   *)
Returns(t) == request[t] # Idle /\ request'[t] = Idle

TornDown ==
    [][\A t \in Caller, c \in Client :
        Returns(t) /\ Running(c) =>
            /\ request[t].action # "unmountAll"
            /\ given[c].share = request[t].share =>
                    request[t].action = "mount" /\ active'[given[c].share] = c]_vars

(* Every call of the registry returns, whatever the clients do.            *)
CallsReturn == \A t \in Caller : request[t] # Idle ~> request[t] = Idle

-----------------------------------------------------------------------------
(* What the comments of the code say of it, and the code does not do.      *)

(* mount.go:170, "Idempotent - a repeated publish re-establishes the       *)
(* mount": a share that is published again and again, of which somebody    *)
(* has unmounted the path, is mounted again in the end.                    *)
Republished(s) ==
    \E t \in Caller, r \in Apply : r.share = s /\ r.action = "mount" /\ Call(t, r)

RepublishSpec ==
    /\ FairSpec
    /\ \A s \in Share : SF_vars(Republished(s))
    /\ \A c \in Client : WF_vars(ClientMounts(c))

RepublishReestablishes ==
    \A s \in Share :
        (active[s] # NoClient /\ proc[active[s]] = "exited")
            ~> (active[s] = NoClient \/ proc[active[s]] # "exited")
=============================================================================
