---------------------------- MODULE CubeFSProofs ----------------------------
(***************************************************************************)
(* Proofs about CubeFS for every set of callers, shares, mount points and  *)
(* clients: its type invariant, that no running client is forgotten, and   *)
(* that a share never has two running clients.                             *)
(***************************************************************************)
EXTENDS CubeFS, TLAPS

(* What the mutex protects.  A client in the registry was given the share  *)
(* it is registered for; a call that is about to start a client, or deals  *)
(* with one it has started and not registered, mounts a share that has no  *)
(* entry, and that client was given that share.  A client it takes down is *)
(* the entry of the share the call is about, or of any for UnmountAll.     *)
EntriesGiven ==
    \A s \in Share : active[s] # NoClient => given[active[s]].share = s

StartsVacant ==
    pc \in {"start", "poll"} =>
        Current \in Apply /\ Current.action = "mount" /\ active[Current.share] = NoClient

Fresh(c) ==
    /\ Current \in Apply /\ active[Current.share] = NoClient
    /\ given[c].share = Current.share

Entry(c) ==
    Registered(c) /\ (Current.action = "unmountAll" \/ active[Current.share] = c)

TargetKnown ==
    target # NoClient =>
        /\ pc = "poll" => ~Registered(target)
        /\ Entry(target) \/ Fresh(target)

Accounts == EntriesGiven /\ StartsVacant /\ TargetKnown /\ ClientsAccounted

IInv == TypeOK /\ Accounts

-----------------------------------------------------------------------------
(* The holder of the lock is in a call, which applies a share or unmounts  *)
(* everything.                                                             *)
LEMMA CurrentTyped ==
  ASSUME TypeOK, pc # "free"
  PROVE  lock \in Caller /\ Current \in Apply \cup UnmountAll
BY ConstantsAreSound DEF TypeOK, Current, Idle

(* The request of the holder does not change when another caller calls.    *)
LEMMA CallKeepsCurrent ==
  ASSUME TypeOK, NEW t \in Caller, NEW r \in Apply \cup UnmountAll, Call(t, r)
  PROVE  request' \in [Caller -> Apply \cup UnmountAll \cup {Idle}]
         /\ (pc # "free" => Current' = Current)
<1>1. pc # "free" => lock # t /\ lock \in Caller
  BY ConstantsAreSound DEF TypeOK, Call
<1> QED
  BY <1>1 DEF TypeOK, Call, Current

(* An action of UnmountAll or Apply that says "mount" is one of Apply.     *)
LEMMA MountIsApply ==
  ASSUME NEW r \in Apply \cup UnmountAll, r.action # "unmountAll"
  PROVE  r \in Apply /\ r.share \in Share /\ r.point \in MountPoint
BY DEF Apply, UnmountAll

(* A call that returns leaves a free lock and an idle caller.              *)
LEMMA ReturnTyped ==
  ASSUME TypeOK, pc # "free", Return
  PROVE  /\ lock' = NoCaller /\ pc' = "free" /\ target' = NoClient /\ failed' \in BOOLEAN
         /\ request' \in [Caller -> Apply \cup UnmountAll \cup {Idle}]
BY DEF TypeOK, Return

(* The mounts a call is to take down are clients in the registry.          *)
LEMMA ToStopTyped ==
  ASSUME TypeOK, pc # "free", NEW c \in ToStop
  PROVE  c \in Client /\ Registered(c) /\ c # NoClient
<1> DEFINE shares == IF Current.action = "unmountAll" THEN Share ELSE {Current.share}
<1>1. shares \subseteq Share
  BY CurrentTyped, MountIsApply
<1>2. PICK s \in shares : c = active[s] /\ c # NoClient
  BY DEF ToStop
<1> QED
  BY <1>1, <1>2 DEF TypeOK, Registered

-----------------------------------------------------------------------------
(* Every step of the engine keeps the types: the mutex is what makes the   *)
(* call under way stay the same from one step to the next.                 *)
LEMMA EngineTyped ==
  ASSUME IInv, EngineStep
  PROVE  TypeOK'
<1>0. pc # "free" /\ TypeOK
  BY DEF IInv, EngineStep, StopExisting, NothingToStop, Detach, Kill, Await, MountFails,
         Start, Mounted, TimedOut
<1>1. CASE StopExisting
  <2>1. PICK c \in ToStop : target' = c
    BY <1>1 DEF StopExisting
  <2> QED
    BY <1>0, <1>1, <2>1, ToStopTyped DEF StopExisting, TypeOK, clientVars
<1>2. CASE NothingToStop
  <2>1. CASE Current.action = "mount"
    BY <1>0, <1>2, <2>1 DEF NothingToStop, TypeOK, clientVars
  <2>2. CASE Current.action # "mount"
    BY <1>0, <1>2, <2>2, ReturnTyped DEF NothingToStop, TypeOK, clientVars
  <2> QED
    BY <2>1, <2>2
<1>3. CASE Detach
  <2>1. mounted' \in [MountPoint -> Seq(Client)]
    <3>1. mounted' = mounted
          \/ \E p : mounted[p] # <<>> /\ mounted' = [mounted EXCEPT ![p] = Tail(@)]
      BY <1>3 DEF Detach
    <3>2. CASE mounted' = mounted
      BY <1>0, <3>2 DEF TypeOK
    <3>3. ASSUME NEW p, mounted[p] # <<>>, mounted' = [mounted EXCEPT ![p] = Tail(@)]
          PROVE  mounted' \in [MountPoint -> Seq(Client)]
      <4>1. p \in MountPoint => Tail(mounted[p]) \in Seq(Client)
        BY <1>0, <3>3 DEF TypeOK
      <4>2. mounted \in [MountPoint -> Seq(Client)]
        BY <1>0 DEF TypeOK
      <4> QED
        BY <4>1, <4>2, <3>3
    <3> QED
      BY <3>1, <3>2, <3>3
  <2> QED
    BY <1>0, <1>3, <2>1 DEF Detach, TypeOK
<1>4. CASE Kill
  BY <1>0, <1>4 DEF Kill, TypeOK
<1>5. CASE Await
  <2>1. CASE Return /\ active' = active
    BY <1>0, <1>5, <2>1, ReturnTyped DEF Await, Stopped, TypeOK, clientVars
  <2>2. CASE ~Return
    <3>1. active' \in [Share -> Client \cup {NoClient}]
      BY <1>0, <1>5, <2>2 DEF Await, Stopped, TypeOK
    <3> QED
      BY <1>0, <1>5, <2>2, <3>1 DEF Await, Stopped, TypeOK, clientVars
  <2>3. CASE Return /\ active' # active
    BY <1>0, <1>5, <2>3 DEF Await, Stopped, Return
  <2> QED
    BY <2>1, <2>2, <2>3
<1>6. CASE MountFails
  BY <1>0, <1>6, ReturnTyped DEF MountFails, TypeOK, clientVars
<1>7. CASE Start
  <2>1. Current.share \in Share /\ Current.point \in MountPoint
    BY <1>7 DEF IInv, Accounts, StartsVacant, Start, Apply
  <2>2. PICK c \in Client :
            /\ proc' = [proc EXCEPT ![c] = "starting"]
            /\ given' = [given EXCEPT ![c] = [share |-> Current.share, point |-> Current.point]]
            /\ target' = c
    BY <1>7 DEF Start
  <2>3. given' \in [Client -> Given \cup {Idle}]
    BY <1>0, <2>1, <2>2 DEF TypeOK, Given
  <2> QED
    BY <1>0, <1>7, <2>2, <2>3, ConstantsAreSound DEF Start, TypeOK
<1>8. CASE Mounted
  <2>1. active' \in [Share -> Client \cup {NoClient}]
    BY <1>0, <1>8 DEF Mounted, TypeOK
  <2> QED
    BY <1>0, <1>8, <2>1, ReturnTyped DEF Mounted, TypeOK, clientVars
<1>9. CASE TimedOut
  BY <1>0, <1>9 DEF TimedOut, TypeOK, clientVars
<1> QED
  BY <1>1, <1>2, <1>3, <1>4, <1>5, <1>6, <1>7, <1>8, <1>9 DEF EngineStep

(* The clients, the guest and the callers disturb no type.                 *)
LEMMA OthersTyped ==
  ASSUME TypeOK, [Next]_vars, ~EngineStep
  PROVE  TypeOK'
<1>1. CASE \E c \in Client : ClientMounts(c)
  <2>1. PICK c \in Client : ClientMounts(c)
    BY <1>1
  <2>2. mounted' \in [MountPoint -> Seq(Client)]
    <3>1. \A q \in Seq(Client) : <<c>> \o q \in Seq(Client)
      OBVIOUS
    <3> QED
      BY <2>1, <3>1 DEF ClientMounts, TypeOK
  <2> QED
    BY <2>1, <2>2 DEF ClientMounts, TypeOK, engineVars
<1>2. CASE \E c \in Client : ClientExits(c)
  BY <1>2 DEF ClientExits, TypeOK, engineVars
<1>3. CASE \E p \in MountPoint : GuestUnmounts(p)
  <2>1. PICK p \in MountPoint : GuestUnmounts(p)
    BY <1>3
  <2>2. mounted' \in [MountPoint -> Seq(Client)]
    BY <2>1 DEF GuestUnmounts, TypeOK
  <2> QED
    BY <2>1, <2>2 DEF GuestUnmounts, TypeOK, engineVars
<1>4. CASE \E t \in Caller : Lock(t)
  BY <1>4, ConstantsAreSound DEF Lock, TypeOK, clientVars
<1>5. CASE \E t \in Caller, r \in Apply \cup UnmountAll : Call(t, r)
  <2>1. PICK t \in Caller, r \in Apply \cup UnmountAll : Call(t, r)
    BY <1>5
  <2>2. request' \in [Caller -> Apply \cup UnmountAll \cup {Idle}]
    BY <2>1, CallKeepsCurrent
  <2>3. lock # NoCaller => request'[lock] # Idle
    <3>1. lock # t => request'[lock] = request[lock]
      BY <2>1 DEF Call, TypeOK
    <3>2. lock = t => lock = NoCaller
      BY <2>1 DEF Call, TypeOK
    <3> QED
      BY <3>1, <3>2 DEF TypeOK
  <2> QED
    BY <2>1, <2>2, <2>3 DEF Call, TypeOK, clientVars
<1>6. CASE UNCHANGED vars
  BY <1>6 DEF vars, engineVars, clientVars, TypeOK
<1> QED
  BY <1>1, <1>2, <1>3, <1>4, <1>5, <1>6 DEF Next

-----------------------------------------------------------------------------
(* A step that leaves the registry, the call under way and the shares of   *)
(* the running clients alone, and starts no client, keeps the accounts.    *)
LEMMA AccountsFrame ==
  ASSUME Accounts, Current' = Current,
         UNCHANGED <<active, target, given>>,
         \A c \in Client : Running(c)' => Running(c),
         pc' \in {"start", "poll"} => pc' = pc
  PROVE  Accounts'
BY DEF Accounts, EntriesGiven, StartsVacant, TargetKnown, Fresh, Entry, ClientsAccounted, Registered

(* A call that returns once its target has exited or is in the registry.   *)
LEMMA ReturnAccounts ==
  ASSUME IInv, pc # "free", Return, UNCHANGED <<active, proc, given>>,
         target # NoClient => ~Running(target) \/ Registered(target)
  PROVE  Accounts'
<1>1. target' = NoClient /\ pc' = "free"
  BY DEF Return
<1>2. \A c \in Client : Running(c)' => Registered(c)
  <2>1. \A c \in Client : Running(c)' => Running(c)
    BY DEF Running
  <2>2. \A c \in Client : Running(c) => Registered(c) \/ (c = target /\ c # NoClient)
    BY ConstantsAreSound DEF IInv, Accounts, ClientsAccounted
  <2> QED
    BY <2>1, <2>2
<1> QED
  BY <1>1, <1>2 DEF IInv, Accounts, EntriesGiven, StartsVacant, TargetKnown, ClientsAccounted,
     Registered

(* Every step of the engine keeps the accounts: a client is registered     *)
(* before the mutex is given up, or has exited by then.                    *)
LEMMA EngineAccounts ==
  ASSUME IInv, EngineStep
  PROVE  Accounts'
<1>0. pc # "free" /\ TypeOK /\ Accounts
  BY DEF IInv, EngineStep, StopExisting, NothingToStop, Detach, Kill, Await, MountFails,
         Start, Mounted, TimedOut
<1>1. CASE StopExisting
  <2>1. PICK c \in ToStop : target' = c
    BY <1>1 DEF StopExisting
  <2>2. c \in Client /\ Registered(c) /\ pc' = "detach" /\ target = NoClient
    BY <1>0, <1>1, <2>1, ToStopTyped DEF StopExisting, TypeOK
  <2>3. UNCHANGED <<active, proc, given>> /\ Current' = Current
    BY <1>1 DEF StopExisting, clientVars, Current
  <2>4. Entry(c)'
    BY <2>2, <2>3 DEF ToStop, Entry, Registered
  <2> QED
    BY <1>0, <2>1, <2>2, <2>3, <2>4, ConstantsAreSound
    DEF Accounts, EntriesGiven, StartsVacant, TargetKnown, ClientsAccounted, Registered, Running
<1>2. CASE NothingToStop
  <2>0. target = NoClient
    BY <1>0, <1>2 DEF NothingToStop, TypeOK
  <2>1. CASE Current.action = "mount"
    <3>1. Current \in Apply
      BY <1>0, <2>1, CurrentTyped, MountIsApply
    <3>2. active[Current.share] = NoClient
      BY <1>2, <2>1 DEF NothingToStop, ToStop
    <3>3. UNCHANGED <<active, proc, given, lock, request, target>> /\ pc' = "start"
      BY <1>2, <2>1 DEF NothingToStop, clientVars
    <3>4. Current' = Current
      BY <3>3 DEF Current
    <3> QED
      BY <1>0, <2>0, <2>1, <3>1, <3>2, <3>3, <3>4
      DEF Accounts, EntriesGiven, StartsVacant, TargetKnown, ClientsAccounted, Registered, Running
  <2>2. CASE Current.action # "mount"
    BY <1>0, <1>2, <2>0, <2>2, ReturnAccounts DEF NothingToStop, clientVars
  <2> QED
    BY <2>1, <2>2
<1>3. CASE Detach
  <2>1. Current' = Current /\ \A c \in Client : Running(c)' => Running(c)
    BY <1>3 DEF Detach, Current, Running
  <2> QED
    BY <1>0, <1>3, <2>1, AccountsFrame DEF Detach
<1>4. CASE Kill
  <2>1. Current' = Current
    BY <1>4 DEF Kill, Current
  <2>2. \A c \in Client : Running(c)' => Running(c)
    BY <1>0, <1>4 DEF Kill, Running, TypeOK
  <2> QED
    BY <1>0, <1>4, <2>1, <2>2, AccountsFrame DEF Kill
<1>5. CASE Await
  <2>1. ~Running(target) /\ UNCHANGED <<proc, given>>
    BY <1>5 DEF Await, Stopped, clientVars
  <2>2. CASE Return /\ active' = active
    BY <1>0, <1>5, <2>1, <2>2, ReturnAccounts
  <2>3. CASE active' = [s \in Share |-> IF active[s] = target THEN NoClient ELSE active[s]]
             /\ pc' = "lookup" /\ target' = NoClient
    <3>1. \A s \in Share : active'[s] # NoClient => active'[s] = active[s]
      BY <2>3
    <3>2. EntriesGiven'
      BY <1>0, <2>1, <3>1 DEF Accounts, EntriesGiven
    <3>3. \A c \in Client : Running(c)' => Registered(c)'
      <4> SUFFICES ASSUME NEW c \in Client, Running(c)' PROVE Registered(c)'
        OBVIOUS
      <4>1. c # target /\ Registered(c)
        BY <1>0, <2>1 DEF Accounts, ClientsAccounted, Running
      <4>2. PICK s \in Share : active[s] = c
        BY <4>1 DEF Registered
      <4> QED
        BY <2>3, <4>1, <4>2 DEF Registered
    <3> QED
      BY <2>3, <3>2, <3>3 DEF Accounts, StartsVacant, TargetKnown, ClientsAccounted
  <2> QED
    BY <1>5, <2>2, <2>3 DEF Await, Stopped
<1>6. CASE MountFails
  BY <1>0, <1>6, ReturnAccounts DEF MountFails, clientVars, TypeOK
<1>7. CASE Start
  <2>1. Current \in Apply /\ Current.action = "mount" /\ active[Current.share] = NoClient
    BY <1>0, <1>7 DEF Start, Accounts, StartsVacant
  <2>2. PICK c \in Client :
            /\ Unused(c)
            /\ proc' = [proc EXCEPT ![c] = "starting"]
            /\ given' = [given EXCEPT ![c] = [share |-> Current.share, point |-> Current.point]]
            /\ target' = c
    BY <1>7 DEF Start
  <2>3. ~Registered(c) /\ target = NoClient
    BY <1>0, <1>7, <2>2 DEF Unused, Start, TypeOK
  <2>4. Current' = Current /\ active' = active /\ pc' = "poll"
    BY <1>7 DEF Start, Current
  <2>5. \A d \in Client : d # c => given'[d] = given[d] /\ (Running(d)' => Running(d))
    BY <1>0, <2>2 DEF TypeOK, Running
  <2>6. EntriesGiven'
    <3> SUFFICES ASSUME NEW s \in Share, active[s] # NoClient PROVE given'[active[s]].share = s
      BY <2>4 DEF EntriesGiven
    <3>1. active[s] \in Client /\ active[s] # c
      BY <1>0, <2>3 DEF TypeOK, Registered
    <3> QED
      BY <1>0, <2>5, <3>1 DEF Accounts, EntriesGiven
  <2>7. Fresh(c)' /\ ~Registered(c)'
    BY <1>0, <2>1, <2>2, <2>3, <2>4 DEF Fresh, Registered, TypeOK
  <2>8. ClientsAccounted'
    BY <1>0, <2>2, <2>3, <2>4, <2>5, ConstantsAreSound DEF Accounts, ClientsAccounted, Registered
  <2> QED
    BY <2>1, <2>2, <2>4, <2>6, <2>7, <2>8 DEF Accounts, StartsVacant, TargetKnown
<1>8. CASE Mounted
  <2>1. Current \in Apply /\ target \in Client /\ ~Registered(target) /\ Fresh(target)
    BY <1>0, <1>8 DEF Mounted, Accounts, StartsVacant, TargetKnown, Entry, TypeOK
  <2>2. /\ active' = [active EXCEPT ![Current.share] = target]
        /\ UNCHANGED <<proc, given>> /\ target' = NoClient /\ pc' = "free"
    BY <1>8 DEF Mounted, Return, clientVars
  <2>3. Current.share \in Share
    BY <2>1 DEF Apply
  <2>4. EntriesGiven'
    BY <1>0, <2>1, <2>2, <2>3 DEF Accounts, EntriesGiven, Fresh, TypeOK
  <2>5. \A c \in Client : Running(c)' => Registered(c)'
    <3> SUFFICES ASSUME NEW c \in Client, Running(c)' PROVE Registered(c)'
      OBVIOUS
    <3>1. CASE c = target
      BY <1>0, <2>2, <2>3, <3>1 DEF Registered, TypeOK
    <3>2. CASE c # target
      <4>1. Registered(c)
        BY <1>0, <2>2, <3>2 DEF Accounts, ClientsAccounted, Running
      <4>2. PICK s \in Share : active[s] = c
        BY <4>1 DEF Registered
      <4>3. s # Current.share
        BY <2>1, <4>2, ConstantsAreSound DEF Fresh
      <4> QED
        BY <1>0, <2>2, <4>2, <4>3 DEF Registered, TypeOK
    <3> QED
      BY <3>1, <3>2
  <2> QED
    BY <2>2, <2>4, <2>5 DEF Accounts, StartsVacant, TargetKnown, ClientsAccounted
<1>9. CASE TimedOut
  <2>1. Current' = Current /\ \A c \in Client : Running(c)' => Running(c)
    BY <1>9 DEF TimedOut, Current, clientVars, Running
  <2> QED
    BY <1>0, <1>9, <2>1, AccountsFrame DEF TimedOut, clientVars
<1> QED
  BY <1>1, <1>2, <1>3, <1>4, <1>5, <1>6, <1>7, <1>8, <1>9 DEF EngineStep

(* The clients, the guest and the callers disturb no account: none of them *)
(* starts a client or touches the registry.                                *)
LEMMA OthersAccounts ==
  ASSUME IInv, [Next]_vars, ~EngineStep
  PROVE  Accounts'
<1>0. TypeOK /\ Accounts
  BY DEF IInv
<1>1. CASE \E c \in Client : ClientMounts(c) \/ ClientExits(c)
  <2>1. PICK c \in Client : ClientMounts(c) \/ ClientExits(c)
    BY <1>1
  <2>2. \A d \in Client : Running(d)' => Running(d)
    BY <1>0, <2>1 DEF ClientMounts, ClientExits, Running, TypeOK
  <2> QED
    BY <1>0, <2>1, <2>2, AccountsFrame DEF ClientMounts, ClientExits, engineVars, Current
<1>2. CASE \E p \in MountPoint : GuestUnmounts(p)
  BY <1>0, <1>2, AccountsFrame DEF GuestUnmounts, engineVars, Current, Running
<1>3. CASE \E t \in Caller : Lock(t)
  <2>1. target = NoClient /\ UNCHANGED <<active, target, proc, given>> /\ pc' = "lookup"
    BY <1>0, <1>3, ConstantsAreSound DEF Lock, TypeOK, clientVars
  <2> QED
    BY <1>0, <2>1 DEF Accounts, EntriesGiven, StartsVacant, TargetKnown, ClientsAccounted,
       Registered, Running
<1>4. CASE \E t \in Caller, r \in Apply \cup UnmountAll : Call(t, r)
  <2>1. UNCHANGED <<active, target, proc, given, pc>>
    BY <1>4 DEF Call, clientVars
  <2>2. CASE pc = "free"
    <3>1. target = NoClient
      BY <1>0, <2>2 DEF TypeOK
    <3> QED
      BY <1>0, <2>1, <2>2, <3>1 DEF Accounts, EntriesGiven, StartsVacant, TargetKnown,
         ClientsAccounted, Registered, Running
  <2>3. CASE pc # "free"
    <3>1. Current' = Current
      BY <1>0, <1>4, <2>3, CallKeepsCurrent
    <3> QED
      BY <1>0, <2>1, <3>1, AccountsFrame DEF Running
  <2> QED
    BY <2>2, <2>3
<1>5. CASE UNCHANGED vars
  BY <1>0, <1>5, AccountsFrame DEF vars, engineVars, clientVars, Current, Running
<1> QED
  BY <1>1, <1>2, <1>3, <1>4, <1>5 DEF Next

-----------------------------------------------------------------------------
(* Mount engine: the inductive invariant holds in every reachable state.   *)
THEOREM CubeFSInvariant == Spec => []IInv
<1>1. Init => IInv
  <2> SUFFICES ASSUME Init PROVE IInv
    OBVIOUS
  <2>1. TypeOK
    <3>1. mounted \in [MountPoint -> Seq(Client)]
      <4>1. <<>> \in Seq(Client)
        OBVIOUS
      <4> QED
        BY <4>1 DEF Init
    <3>2. request \in [Caller -> Apply \cup UnmountAll \cup {Idle}]
      BY DEF Init
    <3> QED
      BY <3>1, <3>2, ConstantsAreSound DEF Init, TypeOK
  <2>2. Accounts
    BY DEF Init, Accounts, EntriesGiven, StartsVacant, TargetKnown, ClientsAccounted, Running
  <2> QED
    BY <2>1, <2>2 DEF IInv
<1>2. IInv /\ [Next]_vars => IInv'
  <2> SUFFICES ASSUME IInv, [Next]_vars PROVE IInv'
    OBVIOUS
  <2>1. CASE EngineStep
    BY <2>1, EngineTyped, EngineAccounts DEF IInv
  <2>2. CASE ~EngineStep
    BY <2>2, OthersTyped, OthersAccounts DEF IInv
  <2> QED
    BY <2>1, <2>2
<1> QED
  BY <1>1, <1>2, PTL DEF Spec

(* Mount engine: the registry, the call under way and the clients stay     *)
(* well typed; a call holds the mutex from its first step to its last.     *)
THEOREM CubeFSTypeCorrect == Spec => []TypeOK
<1>1. IInv => TypeOK
  BY DEF IInv
<1> QED
  BY <1>1, CubeFSInvariant, PTL

(* Mount and Unmount: whatever times out or fails, no running client is    *)
(* out of reach of the registry and of the call under way.                 *)
THEOREM CubeFSAccountsForClients == Spec => []ClientsAccounted
<1>1. IInv => ClientsAccounted
  BY DEF IInv, Accounts
<1> QED
  BY <1>1, CubeFSInvariant, PTL

(* Registry.Apply: a share never has two running clients.  Of two, both in *)
(* the registry are the same entry, and one that is not there yet is the   *)
(* target of a call that found the entry of its share empty.               *)
THEOREM CubeFSOneClientPerShare == Spec => []OneClientPerShare
<1>1. IInv => OneClientPerShare
  <2> SUFFICES ASSUME IInv, NEW c \in Client, NEW d \in Client,
                      Running(c), Running(d), given[c].share = given[d].share
               PROVE  c = d
    BY DEF OneClientPerShare
  <2>1. \A e \in Client : Running(e) =>
            active[given[e].share] = e \/ (e = target /\ ~Registered(e) /\ Fresh(e))
    <3> SUFFICES ASSUME NEW e \in Client, Running(e)
                 PROVE  active[given[e].share] = e \/ (e = target /\ ~Registered(e) /\ Fresh(e))
      OBVIOUS
    <3>1. CASE Registered(e)
      BY <3>1, ConstantsAreSound DEF IInv, Accounts, EntriesGiven, Registered
    <3>2. CASE ~Registered(e)
      BY <3>2, ConstantsAreSound DEF IInv, Accounts, ClientsAccounted, TargetKnown, Entry
    <3> QED
      BY <3>1, <3>2
  <2>2. \A e \in Client : Fresh(e) => active[given[e].share] = NoClient
    BY DEF Fresh
  <2> QED
    BY <2>1, <2>2, ConstantsAreSound
<1> QED
  BY <1>1, CubeFSInvariant, PTL

(* Registry.Apply and UnmountAll: when they return, also with an error, no *)
(* client runs that they were to take down.                                *)
THEOREM CubeFSTearsDown == Spec => TornDown
<1> DEFINE Down(t, c) ==
      Returns(t) /\ Running(c) =>
          /\ request[t].action # "unmountAll"
          /\ given[c].share = request[t].share =>
                  request[t].action = "mount" /\ active'[given[c].share] = c
<1>1. IInv /\ [Next]_vars => \A t \in Caller, c \in Client : Down(t, c)
  <2> SUFFICES ASSUME IInv, [Next]_vars, NEW t \in Caller, NEW c \in Client,
                      Returns(t), Running(c)
               PROVE  /\ request[t].action # "unmountAll"
                      /\ given[c].share = request[t].share =>
                              request[t].action = "mount" /\ active'[given[c].share] = c
    OBVIOUS
  <2>0. TypeOK /\ Accounts
    BY DEF IInv
  <2>1. EngineStep /\ Return
    BY <2>0 DEF Returns, Next, ClientMounts, ClientExits, GuestUnmounts, Lock, Call, EngineStep,
       StopExisting, NothingToStop, Detach, Kill, Await, Stopped, MountFails, Start, Mounted,
       TimedOut, vars, engineVars, Idle, TypeOK, Apply, UnmountAll
  <2>2. t = lock
    BY <2>0, <2>1 DEF Returns, Return, TypeOK
  <2>3. request[t] = Current
    BY <2>2 DEF Current
  <2>4. c # target => Registered(c) /\ active[given[c].share] = c
    BY <2>0, ConstantsAreSound DEF Accounts, ClientsAccounted, EntriesGiven, Registered
  <2>5. CASE NothingToStop
    <3>1. c # target /\ ToStop = {} /\ Current.action # "mount"
      BY <2>0, <2>1, <2>2, <2>5, ConstantsAreSound DEF NothingToStop, TypeOK, Returns, Return
    <3>2. Current.action = "unmountAll" => ~Registered(c)
      BY <3>1, ConstantsAreSound DEF ToStop, Registered
    <3>3. Current.action # "unmountAll" => active[Current.share] # c
      BY <3>1, ConstantsAreSound DEF ToStop
    <3> QED
      BY <2>3, <2>4, <3>1, <3>2, <3>3
  <2>6. CASE Await
    <3>1. c # target /\ target # NoClient
      BY <2>0, <2>6 DEF Await, TypeOK
    <3>2. ~Registered(target) \/ Current.action # "unmountAll"
      BY <2>0, <2>1, <2>6 DEF Await, Stopped, Return, TypeOK
    <3>3. Entry(target) \/ Fresh(target)
      BY <2>0, <3>1 DEF Accounts, TargetKnown
    <3>4. Current.action # "unmountAll"
      BY <3>2, <3>3 DEF Entry, Fresh, Apply
    <3>5. active[Current.share] \in {target, NoClient}
      BY <3>3, <3>4 DEF Entry, Fresh
    <3> QED
      BY <2>3, <2>4, <3>1, <3>4, <3>5, ConstantsAreSound
  <2>7. CASE MountFails
    BY <2>0, <2>3, <2>4, <2>7, ConstantsAreSound
    DEF MountFails, Accounts, StartsVacant, TypeOK
  <2>8. CASE Mounted
    BY <2>0, <2>3, <2>4, <2>8, ConstantsAreSound
    DEF Mounted, Accounts, StartsVacant, TypeOK, Apply
  <2> QED
    BY <2>1, <2>5, <2>6, <2>7, <2>8
    DEF EngineStep, StopExisting, Detach, Kill, Start, TimedOut, Return, TypeOK
<1> QED
  BY <1>1, CubeFSInvariant, PTL DEF Spec, TornDown
=============================================================================
