---------------------------- MODULE NetworkProofs ----------------------------
(***************************************************************************)
(* Proofs about Network for every set of callers, interfaces and requests: *)
(* its type invariant, that no key outlives its call, that a call that has *)
(* returned without an error has configured what it was given, however     *)
(* others overlapped with it or failed half way, and that neither a        *)
(* repeated nor a rejected request disturbs what is in force.              *)
(***************************************************************************)
EXTENDS Network, TLAPS

Busy(c) == pc[c] # "idle"

(* An overlay past its first step has been decoded.                        *)
Decoded ==
    \A c \in Caller : pc[c] \in OverlaySteps \ {"check"} => ValidOverlay(req[c].config)

Inv == TypeOK /\ KeysCleaned /\ Decoded

(* A request is waiting, or in a call, or answered, and in one call only.  *)
Once ==
    /\ \A c \in Caller : Busy(c) =>
          /\ req[c] \notin todo
          /\ \A a \in answers : a.req # req[c]
          /\ \A d \in Caller : Busy(d) /\ req[c] = req[d] => c = d
    /\ \A a \in answers : a.req \notin todo

(* What has been answered was a request, and what a call remembers is from *)
(* before it: the calls that were over then are over still.                *)
PastAnswered ==
    LET answered == {a.req : a \in answers}
        Past(p) == p.answered \subseteq answered /\ p.route \in [Family -> IP \cup {Unset}]
    IN  /\ \A c \in Caller : Busy(c) => Past(past[c])
        /\ \A a \in answers : WellFormed(a.req) /\ Past(a.past)

Order == Once /\ PastAnswered

-----------------------------------------------------------------------------
(* An overlay's interface has its address, and is up with it.              *)
Numbered(i, address) == \E b \in addrs[i] : b.ip = address.ip

Hosted(i, address) == link[i] = "up" /\ Numbered(i, address)

(* What a call of ApplyWireGuard has done so far ...                       *)
OverlaySoFar ==
    \A c \in Caller :
        /\ pc[c] \in {"assign", "raise", "closer", "reindex", "widen"} =>
              device \notin past[c].answered
        /\ pc[c] \in {"reindex", "widen"} => applier \notin past[c].answered
        /\ pc[c] = "raise" => Numbered(IfaceOf(req[c]), req[c].config.address)
        /\ pc[c] \in {"closer", "reindex", "widen"} =>
              Hosted(IfaceOf(req[c]), req[c].config.address)

(* ... and what one that succeeded has done for good.                      *)
OverlayDone ==
    \A a \in answers : a.req.kind = "overlay" /\ a.result = "ok" =>
        /\ device \notin a.past.answered /\ applier \notin a.past.answered
        /\ Hosted(IfaceOf(a.req), a.req.config.address)
        /\ a.req.config.address.ip.family = 4 =>
              a.req.config.address \in addrs[IfaceOf(a.req)]

OverlayInv == OverlaySoFar /\ OverlayDone

-----------------------------------------------------------------------------
(* What a network asks for, and when it is in force.                       *)
Addressed(i, w) == w.address # Broken /\ (w.address # Unset => Taken(i, w.address))

Routed(i, w, before) ==
    /\ w.gateway # Broken
    /\ w.gateway # Unset =>
          LET f == w.gateway.family IN
          /\ Reachable(i, w.gateway)
          /\ route[f] = IF before.route[f] # Unset THEN before.route[f] ELSE w.gateway

(* There is one call of Apply at a time, so that every other one is over   *)
(* when it begins.                                                         *)
InTurn ==
    \A c \in Caller : pc[c] \in NetworkSteps =>
        /\ \A d \in Caller : pc[d] \in NetworkSteps => c = d
        /\ \A a \in Over("network") : a.req \in past[c].answered

(* What a call of Apply that has come to the step named at has done: it    *)
(* configures i as w says, and before is what it found.                    *)
ApplySoFar(at, i, w, before) ==
    /\ at \in NetworkSteps \ {"index", "up"} => link[i] = "up"
    /\ at \in {"route", "dns", "write", "hostname"} => Addressed(i, w)
    /\ at \in {"index", "up", "address", "route"} => route = before.route
    /\ at \in {"dns", "write", "hostname"} => Routed(i, w, before)
    /\ at = "hostname" /\ w.dns # <<>> => resolv = w.dns

NetworkSoFar ==
    \A c \in Caller : ApplySoFar(pc[c], IfaceOf(req[c]), req[c].config, past[c])

(* What those that succeeded have set up is never taken down again.        *)
NetworkInForce ==
    \A a \in Over("network") : a.result = "ok" =>
        LET i == IfaceOf(a.req) IN
        link[i] = "up" /\ Addressed(i, a.req.config) /\ Routed(i, a.req.config, a.past)

(* The resolver is that of the last call, the name that of the last one    *)
(* that did not ask for the same.                                          *)
ResolverKept ==
    \A a \in Over("network") :
        (a.result = "ok" /\ IsLatest(a) /\ a.req.config.dns # <<>>) => resolv = a.req.config.dns

HostnameKept ==
    \A a \in Over("network") :
        (/\ a.result = "ok" /\ a.req.config.hostname # Unset
         /\ \A b \in Over("network") :
               a.req \in b.past.answered => b.req.config = a.req.config) =>
            hostname = a.req.config.hostname

NetworkInv == InTurn /\ NetworkSoFar /\ NetworkInForce /\ ResolverKept /\ HostnameKept
-----------------------------------------------------------------------------
(* Where a step leads to.                                                  *)
After(c) ==
    \/ /\ pc' = [pc EXCEPT ![c] = pc'[c]] /\ pc'[c] # "idle"
       /\ answers' = answers
    \/ \E result \in {"ok", "failed", "trouble"} : Answer(c, result)

(* A step is of a call that has begun, and leaves every other call alone.  *)
LEMMA StepFrame ==
  ASSUME TypeOK, NEW c \in Caller, Step(c)
  PROVE  Busy(c) /\ UNCHANGED <<req, past>> /\ After(c)
<1> USE DEF Busy, At, After, Goto, Return, Acknowledged
<1>1. CASE ResolveIface(c)
  BY <1>1 DEF ResolveIface, TypeOK
<1>2. CASE LinkUp(c)
  BY <1>2 DEF LinkUp, TypeOK
<1>3. CASE SetAddress(c)
  BY <1>3 DEF SetAddress, TypeOK
<1>4. CASE SetRoute(c)
  BY <1>4 DEF SetRoute, TypeOK
<1>5. CASE EmptyResolvConf(c)
  BY <1>5 DEF EmptyResolvConf, TypeOK
<1>6. CASE WriteResolvConf(c)
  BY <1>6 DEF WriteResolvConf, TypeOK
<1>7. CASE SetHostname(c)
  BY <1>7 DEF SetHostname, TypeOK
<1>8. CASE Check(c)
  BY <1>8 DEF Check, TypeOK
<1>9. CASE CreateKeyFile(c)
  BY <1>9 DEF CreateKeyFile, TypeOK
<1>10. CASE WriteKeyFile(c)
  BY <1>10 DEF WriteKeyFile, TypeOK
<1>11. CASE BringUpLink(c)
  BY <1>11 DEF BringUpLink, TypeOK
<1>12. CASE BringUpDevice(c)
  BY <1>12 DEF BringUpDevice, TypeOK
<1>13. CASE BringUpAddress(c)
  BY <1>13 DEF BringUpAddress, TypeOK
<1>14. CASE KeepCloser(c)
  BY <1>14 DEF KeepCloser, TypeOK
<1>15. CASE ResolveOverlay(c)
  BY <1>15 DEF ResolveOverlay, TypeOK
<1>16. CASE WidenAddress(c)
  BY <1>16 DEF WidenAddress, TypeOK
<1>17. CASE SyscallFails(c)
  BY <1>17 DEF SyscallFails, CallsKernel, TypeOK
<1>18. CASE BringUpRaise(c)
  BY <1>18 DEF BringUpRaise, TypeOK
<1> QED
  BY <1>1, <1>2, <1>3, <1>4, <1>5, <1>6, <1>7, <1>8, <1>9, <1>10, <1>11, <1>12,
     <1>13, <1>14, <1>15, <1>16, <1>17, <1>18 DEF Step, ApplyStep, ApplyWireGuardStep

(* Every address stays on its interface, every interface up and every      *)
(* default route as it is.                                                 *)
Grows ==
    /\ \A i \in Iface : link[i] = "up" => link'[i] = "up"
    /\ \A i \in Iface : addrs[i] \subseteq addrs'[i]
    /\ \A f \in Family : route[f] # Unset => route'[f] = route[f]

TheKernel == [link |-> link, addrs |-> addrs, route |-> route]

LEMMA KernelTyped ==
  KernelSound(TheKernel) <=>
    /\ link \in [Iface -> {"absent", "down", "up"}]
    /\ addrs \in [Iface -> SUBSET Address]
    /\ route \in [Family -> IP \cup {Unset}]
    /\ \A f \in Family : route[f] # Unset => route[f].family = f
BY DEF KernelSound, TheKernel

(* addrAdd has the address, or what the kernel takes for it, on the        *)
(* interface.                                                              *)
LEMMA AddrAddTakes ==
  ASSUME addrs \in [Iface -> SUBSET Address], NEW i \in Iface, NEW a \in Address, AddrAdd(i, a)
  PROVE  /\ addrs' \in [Iface -> SUBSET Address]
         /\ \A j \in Iface : addrs[j] \subseteq addrs'[j]
         /\ Taken(i, a)'
<1>1. addrs' = [addrs EXCEPT ![i] = IF Taken(i, a) THEN addrs[i] ELSE addrs[i] \cup {a}]
  BY DEF AddrAdd
<1>2. addrs'[i] = IF Taken(i, a) THEN addrs[i] ELSE addrs[i] \cup {a}
  BY <1>1
<1>3. Taken(i, a)'
  BY <1>2 DEF Taken
<1> QED
  BY <1>1, <1>2, <1>3

LEMMA TakenHasIP ==
  ASSUME NEW i, NEW a, Taken(i, a)
  PROVE  \E b \in addrs[i] : b.ip = a.ip
BY DEF Taken

LEMMA HostAddress ==
  ASSUME NEW a \in Address
  PROVE  /\ [a EXCEPT !.wide = FALSE] \in Address
         /\ [a EXCEPT !.wide = FALSE].ip = a.ip
BY DEF Address

LEMMA KernelGrows ==
  ASSUME Inv, NEW c \in Caller, Step(c)
  PROVE  KernelSound(TheKernel)' /\ Grows
<1> DEFINE i == IfaceOf(req[c])
<1>1. /\ link \in [Iface -> {"absent", "down", "up"}]
      /\ addrs \in [Iface -> SUBSET Address]
      /\ route \in [Family -> IP \cup {Unset}]
      /\ \A f \in Family : route[f] # Unset => route[f].family = f
  BY KernelTyped DEF Inv, TypeOK, TheKernel
<1>2. WellFormed(req[c]) /\ i \in Iface
  BY StepFrame DEF Inv, TypeOK, Busy, WellFormed
<1>3. CASE UNCHANGED <<link, addrs, route>>
  BY <1>1, <1>3, KernelTyped DEF Grows, KernelSound, TheKernel
<1>4. CASE LinkUp(c) \/ BringUpRaise(c)
  <2>1. link' = [link EXCEPT ![i] = "up"] /\ UNCHANGED <<addrs, route>>
    BY <1>4 DEF LinkUp, BringUpRaise
  <2> QED
    BY <1>1, <1>2, <2>1 DEF Grows, KernelSound, TheKernel
<1>5. CASE SetAddress(c)
  <2>1. UNCHANGED <<link, route>>
    BY <1>5 DEF SetAddress
  <2>2. CASE req[c].config.address \in {Unset, Broken}
    BY <1>3, <1>5, <2>1, <2>2 DEF SetAddress
  <2>3. CASE req[c].config.address \notin {Unset, Broken}
    <3>1. req[c].config.address \in Address /\ AddrAdd(i, req[c].config.address)
      BY <1>2, <1>5, <2>3 DEF SetAddress, WellFormed
    <3> QED
      BY <1>1, <1>2, <2>1, <3>1, AddrAddTakes DEF Grows, KernelSound, TheKernel
  <2> QED
    BY <2>2, <2>3
<1>6. CASE SetRoute(c)
  <2> DEFINE gw == req[c].config.gateway
  <2>1. UNCHANGED <<link, addrs>>
    BY <1>6 DEF SetRoute
  <2>2. CASE route' = route
    BY <1>3, <2>1, <2>2
  <2>3. CASE route' # route
    <3>1. /\ gw \notin {Unset, Broken}
          /\ route' = [route EXCEPT ![gw.family] = IF route[gw.family] = Unset THEN gw ELSE route[gw.family]]
      BY <1>6, <2>3 DEF SetRoute
    <3>2. gw \in IP
      BY <1>2, <1>6, <3>1 DEF WellFormed, SetRoute, At, Inv, TypeOK, NetworkSteps
    <3>3. gw.family \in Family
      BY <3>2 DEF IP
    <3> QED
      BY <1>1, <2>1, <3>1, <3>2, <3>3 DEF Grows, KernelSound, TheKernel
  <2> QED
    BY <2>2, <2>3
<1>7. CASE BringUpLink(c)
  <2>1. /\ link' = [link EXCEPT ![i] = IF link[i] = "absent" THEN "down" ELSE link[i]]
        /\ UNCHANGED <<addrs, route>>
    BY <1>7 DEF BringUpLink
  <2> QED
    BY <1>1, <1>2, <2>1 DEF Grows, KernelSound, TheKernel
<1>8. CASE BringUpAddress(c)
  <2>1. /\ AddrAdd(i, [req[c].config.address EXCEPT !.wide = FALSE])
        /\ UNCHANGED <<link, route>>
    BY <1>8 DEF BringUpAddress
  <2>2. req[c].config.address \in Address
    BY <1>2, <1>8 DEF BringUpAddress, At, Inv, Decoded, ValidOverlay, OverlaySteps, KeyHeld, WellFormed
  <2> QED
    BY <1>1, <1>2, <2>1, <2>2, HostAddress, AddrAddTakes DEF Grows, KernelSound, TheKernel
<1>9. CASE WidenAddress(c)
  <2>1. AddrAdd(i, req[c].config.address) /\ UNCHANGED <<link, route>>
    BY <1>9 DEF WidenAddress
  <2>2. req[c].config.address \in Address
    BY <1>2, <1>9 DEF WidenAddress, At, Inv, Decoded, ValidOverlay, OverlaySteps, KeyHeld, WellFormed
  <2> QED
    BY <1>1, <1>2, <2>1, <2>2, AddrAddTakes DEF Grows, KernelSound, TheKernel
<1>10. CASE \/ ResolveIface(c) \/ EmptyResolvConf(c) \/ WriteResolvConf(c) \/ Check(c)
            \/ CreateKeyFile(c) \/ WriteKeyFile(c) \/ KeepCloser(c) \/ ResolveOverlay(c)
            \/ SyscallFails(c)
  BY <1>3, <1>10 DEF ResolveIface, EmptyResolvConf, WriteResolvConf, Check, CreateKeyFile,
     WriteKeyFile, KeepCloser, ResolveOverlay, SyscallFails, kernel
<1>11. CASE SetHostname(c) \/ BringUpDevice(c)
  BY <1>3, <1>11 DEF SetHostname, BringUpDevice
<1> QED
  BY <1>4, <1>5, <1>6, <1>7, <1>8, <1>9, <1>10, <1>11 DEF Step, ApplyStep, ApplyWireGuardStep

-----------------------------------------------------------------------------
(* The type invariant, with the keys and what has been decoded.            *)

LEMMA ControlKept ==
  ASSUME Inv, NEW c \in Caller, Step(c)
  PROVE  /\ pc' \in [Caller -> {"idle"} \cup NetworkSteps \cup OverlaySteps]
         /\ pc[c] \in NetworkSteps => pc'[c] \in NetworkSteps \cup {"idle"}
         /\ pc[c] \in OverlaySteps => pc'[c] \in OverlaySteps \cup {"idle"}
         /\ pc'[c] \in OverlaySteps \ {"check"} => ValidOverlay(req[c].config)
         /\ keys' \subseteq Caller \cup {Stray}
         /\ keys' \ {Stray} = {d \in Caller : pc'[d] \in KeyHeld}
         /\ Stray \in keys' => MayFail
         /\ \A a \in answers' : a.result \in {"ok", "failed", "trouble"}
<1> USE DEF Inv, TypeOK, KeysCleaned, Decoded, At, Goto, Return, Answer, Acknowledged,
            NetworkSteps, OverlaySteps, KeyHeld
<1> USE CallersAreNoFile
<1>1. CASE ResolveIface(c)
  BY <1>1 DEF ResolveIface
<1>2. CASE LinkUp(c)
  BY <1>2 DEF LinkUp
<1>3. CASE SetAddress(c)
  BY <1>3 DEF SetAddress
<1>4. CASE SetRoute(c)
  BY <1>4 DEF SetRoute
<1>5. CASE EmptyResolvConf(c)
  BY <1>5 DEF EmptyResolvConf
<1>6. CASE WriteResolvConf(c)
  BY <1>6 DEF WriteResolvConf
<1>7. CASE SetHostname(c)
  BY <1>7 DEF SetHostname
<1>8. CASE Check(c)
  BY <1>8 DEF Check
<1>9. CASE CreateKeyFile(c)
  BY <1>9 DEF CreateKeyFile
<1>10. CASE WriteKeyFile(c)
  BY <1>10 DEF WriteKeyFile
<1>11. CASE BringUpLink(c)
  BY <1>11 DEF BringUpLink
<1>12. CASE BringUpDevice(c)
  BY <1>12 DEF BringUpDevice
<1>13. CASE BringUpAddress(c)
  BY <1>13 DEF BringUpAddress
<1>14. CASE KeepCloser(c)
  BY <1>14 DEF KeepCloser
<1>15. CASE ResolveOverlay(c)
  BY <1>15 DEF ResolveOverlay
<1>16. CASE WidenAddress(c)
  BY <1>16 DEF WidenAddress
<1>17. CASE SyscallFails(c)
  BY <1>17 DEF SyscallFails
<1>18. CASE BringUpRaise(c)
  BY <1>18 DEF BringUpRaise
<1> QED
  BY <1>1, <1>2, <1>3, <1>4, <1>5, <1>6, <1>7, <1>8, <1>9, <1>10, <1>11, <1>12,
     <1>13, <1>14, <1>15, <1>16, <1>17, <1>18 DEF Step, ApplyStep, ApplyWireGuardStep

(* The device and the closer are changed by one step each, and are what    *)
(* that step makes them when the call goes on.                             *)
LEMMA DeviceChanges ==
  ASSUME TypeOK, NEW c \in Caller, Step(c)
  PROVE  /\ device' = device \/ (pc[c] = "device" /\ device' = req[c])
         /\ applier' = applier \/ (pc[c] = "closer" /\ applier' = req[c])
         /\ pc'[c] = "assign" => device' = req[c]
         /\ pc'[c] = "reindex" => applier' = req[c]
<1> USE DEF TypeOK, At, Goto, Return, Answer, Acknowledged, kernel
<1>1. CASE BringUpDevice(c)
  BY <1>1 DEF BringUpDevice
<1>2. CASE KeepCloser(c)
  BY <1>2 DEF KeepCloser
<1>3. CASE ResolveIface(c) \/ LinkUp(c) \/ SetAddress(c)
  BY <1>3 DEF ResolveIface, LinkUp, SetAddress
<1>4. CASE SetRoute(c)
  BY <1>4 DEF SetRoute
<1>5. CASE EmptyResolvConf(c) \/ WriteResolvConf(c) \/ SetHostname(c)
  BY <1>5 DEF EmptyResolvConf, WriteResolvConf, SetHostname
<1>6. CASE Check(c) \/ CreateKeyFile(c) \/ WriteKeyFile(c)
  BY <1>6 DEF Check, CreateKeyFile, WriteKeyFile
<1>7. CASE BringUpLink(c)
  BY <1>7 DEF BringUpLink
<1>8. CASE BringUpAddress(c) \/ BringUpRaise(c)
  BY <1>8 DEF BringUpAddress, BringUpRaise
<1>9. CASE ResolveOverlay(c) \/ WidenAddress(c) \/ SyscallFails(c)
  BY <1>9 DEF ResolveOverlay, WidenAddress, SyscallFails
<1> QED
  BY <1>1, <1>2, <1>3, <1>4, <1>5, <1>6, <1>7, <1>8, <1>9 DEF Step, ApplyStep, ApplyWireGuardStep

(* What a call that begins changes.                                        *)
LEMMA CallFrame ==
  ASSUME TypeOK, NEW c \in Caller, Call(c)
  PROVE  /\ pc[c] = "idle" /\ UNCHANGED <<kernel, resolv, keys, applier, answers>>
         /\ \E r \in todo :
               /\ req' = [req EXCEPT ![c] = r] /\ req'[c] = r /\ todo' = todo \ {r}
               /\ pc' = [pc EXCEPT ![c] = IF r.kind = "network" THEN "index" ELSE "check"]
               /\ past' = [past EXCEPT ![c] =
                              [answered |-> {a.req : a \in answers}, route |-> route]]
               /\ r.kind = "network" =>
                     \A d \in Caller : pc[d] # "idle" => req[d].kind # "network"
<1>1. PICK r \in todo :
        /\ Begin(c, r) /\ todo' = todo \ {r}
        /\ r.kind = "network" => \A d \in Caller : pc[d] # "idle" => req[d].kind # "network"
  BY DEF Call
<1> QED
  BY <1>1 DEF Begin, TypeOK

LEMMA InitInv == Init => Inv
<1> SUFFICES ASSUME Init PROVE Inv
  OBVIOUS
<1>1. PICK k \in Kernels : link = k.link /\ addrs = k.addrs /\ route = k.route
  BY DEF Init
<1>2. KernelSound(TheKernel)
  BY <1>1, KernelsAreSound DEF KernelSound, TheKernel
<1>3. \A r \in todo : WellFormed(r)
  BY RequestsAreWellFormed DEF Init
<1>4. TypeOK
  BY <1>2, <1>3 DEF Init, TypeOK, TheKernel, NetworkSteps, OverlaySteps, KeyHeld
<1> QED
  BY <1>4 DEF Inv, Init, KeysCleaned, Decoded, KeyHeld, OverlaySteps

LEMMA NextInv == Inv /\ [Next]_vars => Inv'
<1> SUFFICES ASSUME Inv, [Next]_vars PROVE Inv'
  OBVIOUS
<1>1. TypeOK /\ KernelSound(TheKernel)
  BY DEF Inv, TypeOK, TheKernel
<1>2. ASSUME NEW c \in Caller, Step(c), UNCHANGED todo PROVE Inv'
  <2>1. KernelSound(TheKernel)'
    BY <1>2, KernelGrows
  <2>2. /\ UNCHANGED <<req, past>> /\ Busy(c)
        /\ \A d \in Caller \ {c} : pc'[d] = pc[d]
    BY <1>1, <1>2, StepFrame DEF After, Answer, TypeOK
  <2>3. /\ pc' \in [Caller -> {"idle"} \cup NetworkSteps \cup OverlaySteps]
        /\ pc[c] \in NetworkSteps => pc'[c] \in NetworkSteps \cup {"idle"}
        /\ pc[c] \in OverlaySteps => pc'[c] \in OverlaySteps \cup {"idle"}
        /\ pc'[c] \in OverlaySteps \ {"check"} => ValidOverlay(req[c].config)
        /\ keys' \subseteq Caller \cup {Stray}
        /\ keys' \ {Stray} = {d \in Caller : pc'[d] \in KeyHeld}
        /\ Stray \in keys' => MayFail
        /\ \A a \in answers' : a.result \in {"ok", "failed", "trouble"}
    BY <1>2, ControlKept
  <2>4. \A r \in {device', applier'} \ {Unset} : r.kind = "overlay" /\ ValidOverlay(r.config)
    <3>1. /\ device' = device \/ (pc[c] = "device" /\ device' = req[c])
          /\ applier' = applier \/ (pc[c] = "closer" /\ applier' = req[c])
      BY <1>1, <1>2, DeviceChanges
    <3>2. pc[c] \in {"device", "closer"} => req[c].kind = "overlay" /\ ValidOverlay(req[c].config)
      BY <1>1 DEF Inv, TypeOK, Decoded, OverlaySteps, KeyHeld
    <3> QED
      BY <1>1, <3>1, <3>2 DEF TypeOK
  <2>5. \A d \in Caller :
          /\ pc'[d] \in NetworkSteps => req'[d].kind = "network"
          /\ pc'[d] \in OverlaySteps => req'[d].kind = "overlay"
          /\ pc'[d] # "idle" => WellFormed(req'[d])
    <3> SUFFICES ASSUME NEW d \in Caller
                 PROVE  /\ pc'[d] \in NetworkSteps => req[d].kind = "network"
                        /\ pc'[d] \in OverlaySteps => req[d].kind = "overlay"
                        /\ pc'[d] # "idle" => WellFormed(req[d])
      BY <2>2
    <3>1. CASE d # c
      BY <1>1, <2>2, <3>1 DEF TypeOK
    <3>2. CASE d = c
      <4>1. pc[c] \in NetworkSteps \/ pc[c] \in OverlaySteps
        BY <1>1, <2>2 DEF Busy, TypeOK
      <4>2. "idle" \notin NetworkSteps \cup OverlaySteps /\ NetworkSteps \cap OverlaySteps = {}
        BY DEF NetworkSteps, OverlaySteps, KeyHeld
      <4> QED
        BY <1>1, <2>2, <2>3, <3>2, <4>1, <4>2 DEF TypeOK, Busy
    <3> QED
      BY <3>1, <3>2
  <2>6. TypeOK'
    BY <1>1, <1>2, <2>1, <2>2, <2>3, <2>4, <2>5 DEF TypeOK, TheKernel
  <2>7. KeysCleaned'
    BY <2>3 DEF KeysCleaned
  <2>8. Decoded'
    BY <2>2, <2>3 DEF Inv, Decoded
  <2> QED
    BY <2>6, <2>7, <2>8 DEF Inv
<1>3. ASSUME NEW c \in Caller, Call(c) PROVE Inv'
  <2>1. /\ pc[c] = "idle" /\ UNCHANGED <<kernel, resolv, keys, applier, answers>>
        /\ \E r \in todo :
              /\ req' = [req EXCEPT ![c] = r] /\ req'[c] = r /\ todo' = todo \ {r}
              /\ pc' = [pc EXCEPT ![c] = IF r.kind = "network" THEN "index" ELSE "check"]
              /\ past' = [past EXCEPT ![c] =
                             [answered |-> {a.req : a \in answers}, route |-> route]]
    BY <1>1, <1>3, CallFrame
  <2>2. PICK r \in todo :
          /\ req' = [req EXCEPT ![c] = r] /\ req'[c] = r /\ todo' = todo \ {r}
          /\ pc' = [pc EXCEPT ![c] = IF r.kind = "network" THEN "index" ELSE "check"]
          /\ past' = [past EXCEPT ![c] = [answered |-> {a.req : a \in answers}, route |-> route]]
    BY <2>1
  <2>3. /\ DOMAIN req' = Caller /\ DOMAIN past' = Caller
        /\ pc'[c] = IF r.kind = "network" THEN "index" ELSE "check"
        /\ \A d \in Caller \ {c} : pc'[d] = pc[d] /\ req'[d] = req[d]
    BY <1>1, <2>2 DEF TypeOK
  <2>4. WellFormed(r) /\ r.kind \in {"network", "overlay"}
    BY <1>1, <2>2 DEF TypeOK, WellFormed
  <2>5. KernelSound(TheKernel)'
    BY <1>1, <2>1 DEF KernelSound, TheKernel, kernel
  <2>6. \A d \in Caller :
          /\ pc'[d] \in NetworkSteps => req'[d].kind = "network"
          /\ pc'[d] \in OverlaySteps => req'[d].kind = "overlay"
          /\ pc'[d] # "idle" => WellFormed(req'[d])
    BY <1>1, <2>2, <2>3, <2>4 DEF TypeOK, NetworkSteps, OverlaySteps, KeyHeld
  <2>7. pc' \in [Caller -> {"idle"} \cup NetworkSteps \cup OverlaySteps]
    BY <1>1, <2>2 DEF TypeOK, NetworkSteps, OverlaySteps
  <2>8. TypeOK'
    BY <1>1, <2>1, <2>2, <2>3, <2>5, <2>6, <2>7 DEF TypeOK, TheKernel, kernel
  <2>9. KeysCleaned' /\ Decoded'
    BY <2>1, <2>3 DEF Inv, KeysCleaned, Decoded, KeyHeld, OverlaySteps
  <2> QED
    BY <2>8, <2>9 DEF Inv
<1>4. CASE IfaceAppears
  <2>1. link \in [Iface -> {"absent", "down", "up"}]
    BY <1>1, KernelTyped
  <2>2. link' \in [Iface -> {"absent", "down", "up"}]
    BY <1>4, <2>1 DEF IfaceAppears
  <2>3. KernelSound(TheKernel)'
    BY <1>1, <1>4, <2>2 DEF IfaceAppears, KernelSound, TheKernel
  <2> QED
    BY <1>4, <2>3 DEF IfaceAppears, Inv, TypeOK, TheKernel, KeysCleaned, Decoded, history
<1>5. CASE UNCHANGED vars
  BY <1>1, <1>5 DEF vars, kernel, history, Inv, TypeOK, KernelSound, KeysCleaned, Decoded
<1> QED
  BY <1>2, <1>3, <1>4, <1>5 DEF Next

(* Every variable keeps its type, and what is configured on the device has *)
(* been decoded as a whole.                                                *)
THEOREM NetworkTypeCorrect == Spec => []TypeOK
<1>1. Inv => TypeOK
  BY DEF Inv
<1> QED
  BY <1>1, InitInv, NextInv, PTL DEF Spec

(* stagePrivateKey and cleanupTmpKey: there is a key in a temporary file   *)
(* for as long as the call that staged it may need it, and no longer.      *)
THEOREM NetworkKeysCleaned == Spec => []KeysCleaned
<1>1. Inv => KeysCleaned
  BY DEF Inv
<1> QED
  BY <1>1, InitInv, NextInv, PTL DEF Spec

-----------------------------------------------------------------------------
(* Which calls were over before which others began.                        *)

LEMMA InitOrder == Init => Order
BY DEF Init, Order, Once, PastAnswered, Busy

LEMMA StepOrder ==
  ASSUME Inv, Order, NEW c \in Caller, Step(c), UNCHANGED todo
  PROVE  Order'
<1> DEFINE answered == {a.req : a \in answers}
<1>1. /\ UNCHANGED <<req, past>> /\ Busy(c) /\ After(c)
      /\ \A d \in Caller \ {c} : pc'[d] = pc[d]
  BY StepFrame DEF After, Answer, Inv, TypeOK
<1>2. CASE answers' = answers
  <2>1. \A d \in Caller : Busy(d)' => Busy(d)
    BY <1>1 DEF Busy
  <2> QED
    BY <1>1, <1>2, <2>1 DEF Order, Once, PastAnswered
<1>3. CASE answers' # answers
  <2>1. PICK a \in answers' : /\ a.req = req[c] /\ a.past = past[c]
                              /\ answers' = answers \cup {a}
    BY <1>1, <1>3 DEF After, Answer
  <2>2. \A d \in Caller : Busy(d)' => Busy(d) /\ d # c
    BY <1>1, <1>3 DEF Busy, After, Answer, Inv, TypeOK
  <2>3. Once'
    BY <1>1, <2>1, <2>2 DEF Order, Once
  <2>4. WellFormed(req[c])
    BY <1>1 DEF Inv, TypeOK, Busy
  <2>5. PastAnswered'
    BY <1>1, <2>1, <2>2, <2>4 DEF Order, PastAnswered
  <2> QED
    BY <2>3, <2>5 DEF Order
<1> QED
  BY <1>2, <1>3

LEMMA CallOrder ==
  ASSUME Inv, Order, NEW c \in Caller, Call(c)
  PROVE  Order'
<1>1. /\ pc[c] = "idle" /\ answers' = answers
      /\ \E r \in todo :
            /\ req' = [req EXCEPT ![c] = r] /\ req'[c] = r /\ todo' = todo \ {r}
            /\ pc' = [pc EXCEPT ![c] = IF r.kind = "network" THEN "index" ELSE "check"]
            /\ past' = [past EXCEPT ![c] = [answered |-> {a.req : a \in answers}, route |-> route]]
  BY CallFrame DEF Inv
<1>2. PICK r \in todo :
        /\ req' = [req EXCEPT ![c] = r] /\ req'[c] = r /\ todo' = todo \ {r}
        /\ pc' = [pc EXCEPT ![c] = IF r.kind = "network" THEN "index" ELSE "check"]
        /\ past' = [past EXCEPT ![c] = [answered |-> {a.req : a \in answers}, route |-> route]]
  BY <1>1
<1>3. /\ past'[c] = [answered |-> {a.req : a \in answers}, route |-> route]
      /\ route \in [Family -> IP \cup {Unset}]
      /\ \A d \in Caller \ {c} : /\ pc'[d] = pc[d] /\ req'[d] = req[d]
                                 /\ past'[d] = past[d]
  BY <1>2, KernelTyped DEF Inv, TypeOK, TheKernel
<1>4. Once'
  BY <1>1, <1>2, <1>3 DEF Order, Once, Busy
<1>5. PastAnswered'
  BY <1>1, <1>2, <1>3 DEF Order, PastAnswered, Busy
<1> QED
  BY <1>4, <1>5 DEF Order

LEMMA NextOrder == Inv /\ Order /\ [Next]_vars => Order'
<1> SUFFICES ASSUME Inv, Order, [Next]_vars PROVE Order'
  OBVIOUS
<1>1. CASE IfaceAppears
  BY <1>1 DEF IfaceAppears, history, Order, Once, PastAnswered, Busy
<1>2. CASE UNCHANGED vars
  BY <1>2 DEF vars, history, Order, Once, PastAnswered, Busy
<1> QED
  BY <1>1, <1>2, StepOrder, CallOrder DEF Next

-----------------------------------------------------------------------------
(* The overlay.                                                            *)

LEMMA InitOverlay == Init => OverlayInv
BY DEF Init, OverlayInv, OverlaySoFar, OverlayDone

LEMMA HostedKept ==
  ASSUME Grows, NEW i \in Iface, NEW address, Hosted(i, address)
  PROVE  Hosted(i, address)'
BY DEF Grows, Hosted, Numbered

LEMMA NumberedKept ==
  ASSUME Grows, NEW i \in Iface, NEW address, Numbered(i, address)
  PROVE  Numbered(i, address)'
BY DEF Grows, Numbered

(* A call succeeds by its last step alone.                                 *)
LEMMA Succeeds ==
  ASSUME TypeOK, NEW c \in Caller, Step(c), NEW a \in answers' \ answers
  PROVE  /\ a.req = req[c] /\ a.past = past[c] /\ pc'[c] = "idle"
         /\ answers' = answers \cup {a}
         /\ a.result = "ok" => SetHostname(c) \/ WidenAddress(c)
<1>1. /\ a.req = req[c] /\ a.past = past[c] /\ pc'[c] = "idle"
      /\ answers' = answers \cup {a}
  BY StepFrame DEF After, Answer, TypeOK
<1> USE DEF At, Goto, Return, Acknowledged, Answer
<1>2. CASE ResolveIface(c) \/ LinkUp(c) \/ SetAddress(c)
  BY <1>1, <1>2 DEF ResolveIface, LinkUp, SetAddress
<1>3. CASE SetRoute(c)
  BY <1>1, <1>3 DEF SetRoute
<1>4. CASE EmptyResolvConf(c) \/ WriteResolvConf(c)
  BY <1>1, <1>4 DEF EmptyResolvConf, WriteResolvConf
<1>5. CASE Check(c) \/ CreateKeyFile(c) \/ WriteKeyFile(c)
  BY <1>1, <1>5 DEF Check, CreateKeyFile, WriteKeyFile
<1>6. CASE BringUpLink(c) \/ BringUpDevice(c) \/ BringUpAddress(c) \/ BringUpRaise(c)
  BY <1>1, <1>6 DEF BringUpLink, BringUpDevice, BringUpAddress, BringUpRaise
<1>7. CASE KeepCloser(c) \/ ResolveOverlay(c) \/ SyscallFails(c)
  BY <1>1, <1>7 DEF KeepCloser, ResolveOverlay, SyscallFails
<1> QED
  BY <1>1, <1>2, <1>3, <1>4, <1>5, <1>6, <1>7 DEF Step, ApplyStep, ApplyWireGuardStep

(* The steps of ApplyWireGuard come in their order, and BringUp leaves the *)
(* interface up with the address.                                          *)
LEMMA OverlayProgress ==
  ASSUME Inv, NEW c \in Caller, Step(c)
  PROVE  /\ pc'[c] = "reindex" => pc[c] = "closer"
         /\ pc'[c] = "widen" => pc[c] = "reindex"
         /\ pc'[c] = "raise" =>
               pc[c] = "assign" /\ Numbered(IfaceOf(req[c]), req[c].config.address)'
         /\ pc'[c] = "closer" => pc[c] = "raise" /\ link'[IfaceOf(req[c])] = "up"
<1> USE DEF Inv, TypeOK, At, Goto, Return, Acknowledged, Answer
<1>1. CASE BringUpAddress(c)
  <2> DEFINE i == IfaceOf(req[c])
             a == [req[c].config.address EXCEPT !.wide = FALSE]
  <2>1. pc[c] = "assign" /\ pc'[c] = "raise" /\ UNCHANGED req /\ AddrAdd(i, a)
    BY <1>1 DEF BringUpAddress
  <2>2. i \in Iface /\ req[c].config.address \in Address
    BY <2>1 DEF Decoded, ValidOverlay, OverlaySteps, KeyHeld, WellFormed
  <2>3. a \in Address /\ a.ip = req[c].config.address.ip
    BY <2>2, HostAddress
  <2>4. link \in [Iface -> {"absent", "down", "up"}] /\ addrs \in [Iface -> SUBSET Address]
    BY KernelTyped DEF TheKernel
  <2> HIDE DEF a
  <2>5. PICK j, h : j = i /\ h = a
    OBVIOUS
  <2>6. Taken(j, h)'
    BY <2>1, <2>2, <2>3, <2>4, <2>5, AddrAddTakes
  <2>7. \E b \in addrs'[i] : b.ip = req[c].config.address.ip
    BY <2>3, <2>5, <2>6 DEF Taken
  <2> QED
    BY <2>1, <2>7 DEF Numbered, IfaceOf
<1>2. CASE ResolveIface(c) \/ LinkUp(c) \/ SetAddress(c)
  BY <1>2 DEF ResolveIface, LinkUp, SetAddress
<1>3. CASE SetRoute(c)
  BY <1>3 DEF SetRoute
<1>4. CASE EmptyResolvConf(c) \/ WriteResolvConf(c) \/ SetHostname(c)
  BY <1>4 DEF EmptyResolvConf, WriteResolvConf, SetHostname
<1>5. CASE Check(c) \/ CreateKeyFile(c) \/ WriteKeyFile(c)
  BY <1>5 DEF Check, CreateKeyFile, WriteKeyFile
<1>6. CASE BringUpLink(c) \/ BringUpDevice(c) \/ KeepCloser(c)
  BY <1>6 DEF BringUpLink, BringUpDevice, KeepCloser
<1>7. CASE ResolveOverlay(c) \/ WidenAddress(c) \/ SyscallFails(c)
  BY <1>7 DEF ResolveOverlay, WidenAddress, SyscallFails
<1>8. CASE BringUpRaise(c)
  <2>1. /\ pc[c] = "raise" /\ pc'[c] = "closer"
        /\ link' = [link EXCEPT ![IfaceOf(req[c])] = "up"]
    BY <1>8 DEF BringUpRaise
  <2>2. IfaceOf(req[c]) \in Iface /\ link \in [Iface -> {"absent", "down", "up"}]
    BY <2>1, KernelTyped DEF TheKernel, WellFormed
  <2> QED
    BY <2>1, <2>2
<1> QED
  BY <1>1, <1>2, <1>3, <1>4, <1>5, <1>6, <1>7, <1>8 DEF Step, ApplyStep, ApplyWireGuardStep

LEMMA StepOverlay ==
  ASSUME Inv, Order, OverlayInv, NEW c \in Caller, Step(c), UNCHANGED todo
  PROVE  OverlayInv'
<1>1. /\ UNCHANGED <<req, past>> /\ Busy(c)
      /\ \A d \in Caller \ {c} : pc'[d] = pc[d]
  BY StepFrame DEF After, Answer, Inv, TypeOK
<1>2. Grows
  BY KernelGrows
(* What is put in the place of the device or the closer is not answered.   *)
<1>3. \A x : (\E d \in Caller : Busy(d) /\ x = past[d].answered) \/ (\E a \in answers : x = a.past.answered) =>
             req[c] \notin x
  BY <1>1 DEF Order, Once, PastAnswered
<1>4. /\ device' = device \/ device' = req[c]
      /\ applier' = applier \/ applier' = req[c]
      /\ pc'[c] = "assign" => device' = req[c]
      /\ pc'[c] = "reindex" => applier' = req[c]
  BY DeviceChanges DEF Inv
<1>5. \A d \in Caller : pc'[d] # "idle" => Busy(d) /\ IfaceOf(req[d]) \in Iface
  BY <1>1 DEF Busy, Inv, TypeOK, WellFormed
<1>6. /\ pc'[c] = "reindex" => pc[c] = "closer"
      /\ pc'[c] = "widen" => pc[c] = "reindex"
      /\ pc'[c] = "raise" => pc[c] = "assign" /\ Numbered(IfaceOf(req[c]), req[c].config.address)'
      /\ pc'[c] = "closer" => pc[c] = "raise" /\ link'[IfaceOf(req[c])] = "up"
  BY OverlayProgress
<1>7. ASSUME NEW d \in Caller
      PROVE  /\ pc'[d] \in {"assign", "raise", "closer", "reindex", "widen"} =>
                   device' \notin past[d].answered
             /\ pc'[d] \in {"reindex", "widen"} => applier' \notin past[d].answered
  BY <1>1, <1>3, <1>4, <1>5, <1>6 DEF OverlayInv, OverlaySoFar
<1>8. ASSUME NEW d \in Caller, pc'[d] \in {"closer", "reindex", "widen"}
      PROVE  Hosted(IfaceOf(req[d]), req[d].config.address)'
  <2>1. CASE d = c /\ pc'[d] = "closer"
    <3>1. Numbered(IfaceOf(req[c]), req[c].config.address)
      BY <1>6, <2>1 DEF OverlayInv, OverlaySoFar
    <3>2. PICK i, h : i = IfaceOf(req[c]) /\ h = req[c].config.address
      OBVIOUS
    <3>3. Numbered(i, h)'
      BY <1>2, <1>5, <1>8, <2>1, <3>1, <3>2, NumberedKept
    <3> QED
      BY <1>1, <1>6, <2>1, <3>2, <3>3 DEF Hosted, Numbered, IfaceOf
  <2>2. CASE d # c \/ pc'[d] # "closer"
    <3>1. Hosted(IfaceOf(req[d]), req[d].config.address)
      BY <1>1, <1>6, <1>8, <2>2 DEF OverlayInv, OverlaySoFar
    <3>2. PICK i, h : i = IfaceOf(req[d]) /\ h = req[d].config.address
      OBVIOUS
    <3>3. Hosted(i, h)'
      BY <1>2, <1>5, <1>8, <3>1, <3>2, HostedKept
    <3> QED
      BY <1>1, <3>2, <3>3 DEF Hosted, Numbered, IfaceOf
  <2> QED
    BY <2>1, <2>2
<1>9. ASSUME NEW d \in Caller, pc'[d] = "raise"
       PROVE  Numbered(IfaceOf(req[d]), req[d].config.address)'
  <2>1. CASE d = c
    BY <1>6, <1>9, <2>1
  <2>2. CASE d # c
    <3>1. Numbered(IfaceOf(req[d]), req[d].config.address)
      BY <1>1, <1>9, <2>2 DEF OverlayInv, OverlaySoFar
    <3>2. PICK i, h : i = IfaceOf(req[d]) /\ h = req[d].config.address
      OBVIOUS
    <3>3. Numbered(i, h)'
      BY <1>2, <1>5, <1>9, <3>1, <3>2, NumberedKept
    <3> QED
      BY <1>1, <3>2, <3>3 DEF Numbered, IfaceOf
  <2> QED
    BY <2>1, <2>2
<1>10. ASSUME NEW a \in answers', a.req.kind = "overlay", a.result = "ok"
      PROVE  /\ device' \notin a.past.answered /\ applier' \notin a.past.answered
             /\ Hosted(IfaceOf(a.req), a.req.config.address)'
             /\ a.req.config.address.ip.family = 4 =>
                   a.req.config.address \in addrs'[IfaceOf(a.req)]
  <2>1. IfaceOf(a.req) \in Iface
    BY <1>1, <1>10, Succeeds DEF Order, PastAnswered, Inv, TypeOK, WellFormed, Busy
  <2>2. CASE a \in answers
    BY <1>2, <1>3, <1>4, <1>10, <2>1, <2>2, HostedKept DEF OverlayInv, OverlayDone, Grows
  <2>3. CASE a \notin answers
    <3>1. /\ a.req = req[c] /\ a.past = past[c]
          /\ SetHostname(c) \/ WidenAddress(c)
      BY <1>10, <2>3, Succeeds DEF Inv
    <3>2. WidenAddress(c)
      BY <1>10, <3>1 DEF SetHostname, At, Inv, TypeOK, NetworkSteps
    <3>3. /\ pc[c] = "widen" /\ UNCHANGED <<device, applier>>
          /\ AddrAdd(IfaceOf(req[c]), req[c].config.address)
      BY <3>2 DEF WidenAddress, At
    <3>4. /\ device \notin past[c].answered /\ applier \notin past[c].answered
          /\ Hosted(IfaceOf(req[c]), req[c].config.address)
      BY <3>3 DEF OverlayInv, OverlaySoFar
    <3>5. PICK i, h : i = IfaceOf(a.req) /\ h = a.req.config.address
      OBVIOUS
    <3>6. h \in Address /\ addrs \in [Iface -> SUBSET Address]
      BY <1>1, <3>1, <3>3, <3>5, KernelTyped
         DEF Inv, TypeOK, TheKernel, Decoded, ValidOverlay, WellFormed, OverlaySteps, KeyHeld, Busy
    <3>7. Taken(i, h)'
      BY <2>1, <3>1, <3>3, <3>5, <3>6, AddrAddTakes
    <3>8. h.ip.family = 4 => h \in addrs'[i]
      BY <3>7 DEF Taken
    <3>9. Hosted(i, h)'
      BY <1>2, <2>1, <3>1, <3>4, <3>5, HostedKept
    <3> QED
      BY <3>1, <3>3, <3>4, <3>5, <3>8, <3>9
  <2> QED
    BY <2>2, <2>3
<1> QED
  BY <1>1, <1>7, <1>8, <1>9, <1>10
     DEF OverlayInv, OverlaySoFar, OverlayDone, Hosted, Numbered, IfaceOf

LEMMA CallOverlay ==
  ASSUME Inv, Order, OverlayInv, NEW c \in Caller, Call(c)
  PROVE  OverlayInv'
<1>1. /\ UNCHANGED <<link, addrs, device, applier, answers>>
      /\ pc'[c] \in {"index", "check"}
      /\ \A d \in Caller \ {c} : /\ pc'[d] = pc[d] /\ req'[d] = req[d] /\ past'[d] = past[d]
  BY CallFrame DEF Inv, TypeOK, kernel
<1> QED
  BY <1>1 DEF OverlayInv, OverlaySoFar, OverlayDone, Hosted, Numbered, IfaceOf

LEMMA NextOverlay == Inv /\ Order /\ OverlayInv /\ [Next]_vars => OverlayInv'
<1> SUFFICES ASSUME Inv, Order, OverlayInv, [Next]_vars PROVE OverlayInv'
  OBVIOUS
<1>1. CASE IfaceAppears
  <2>1. /\ UNCHANGED <<addrs, device, applier, pc, req, past, answers>>
        /\ \A i \in Iface : link[i] = "up" => link'[i] = "up"
    BY <1>1, KernelTyped DEF IfaceAppears, history, Inv, TypeOK, TheKernel
  <2>2. \A c \in Caller : pc[c] # "idle" => IfaceOf(req[c]) \in Iface
    BY DEF Inv, TypeOK, WellFormed
  <2>3. \A a \in answers : IfaceOf(a.req) \in Iface
    BY DEF Order, PastAnswered, WellFormed
  <2>4. OverlaySoFar'
    BY <2>1, <2>2 DEF OverlayInv, OverlaySoFar, Hosted, Numbered, IfaceOf
  <2>5. OverlayDone'
    BY <2>1, <2>3 DEF OverlayInv, OverlayDone, Hosted, Numbered, IfaceOf
  <2> QED
    BY <2>4, <2>5 DEF OverlayInv
<1>2. CASE UNCHANGED vars
  BY <1>2 DEF vars, kernel, history, OverlayInv, OverlaySoFar, OverlayDone, Hosted, Numbered, IfaceOf
<1> QED
  BY <1>1, <1>2, StepOverlay, CallOverlay DEF Next

(* Once ApplyWireGuard has returned without an error neither the device    *)
(* nor the closer goes back to an overlay whose call was over before it    *)
(* began, however many other calls overlap with it or fail.                *)
THEOREM NetworkNewestOverlay == Spec => []NewestOverlay
<1>1. OverlayInv => NewestOverlay
  BY DEF OverlayInv, OverlayDone, NewestOverlay, Over
<1> QED
  BY <1>1, InitInv, NextInv, InitOrder, NextOrder, InitOverlay, NextOverlay, PTL DEF Spec

(* ... and the interface stays up with the address it was given and, for   *)
(* IPv4, with the prefix of the overlay beside that of the host alone.     *)
THEOREM NetworkOverlayReachable == Spec => []OverlayReachable
<1>1. OverlayInv => OverlayReachable
  BY DEF OverlayInv, OverlayDone, OverlayReachable, Over, Hosted, Numbered
<1> QED
  BY <1>1, InitInv, NextInv, InitOrder, NextOrder, InitOverlay, NextOverlay, PTL DEF Spec

-----------------------------------------------------------------------------
(* The network.                                                            *)

LEMMA InitNetwork == Init => NetworkInv
BY DEF Init, NetworkInv, InTurn, NetworkSoFar, ApplySoFar, NetworkInForce, ResolverKept,
       HostnameKept, Over, NetworkSteps

LEMMA AddressedKept ==
  ASSUME Grows, NEW i \in Iface, NEW w, Addressed(i, w)
  PROVE  Addressed(i, w)'
BY DEF Grows, Addressed, Taken

LEMMA RoutedKept ==
  ASSUME Grows, NEW i \in Iface, NEW w, w.gateway \in IP \cup {Unset, Broken},
         NEW before, Routed(i, w, before)
  PROVE  Routed(i, w, before)'
<1>1. CASE w.gateway = Unset
  BY <1>1 DEF Routed
<1>2. CASE w.gateway # Unset
  <2>1. w.gateway.family \in Family
    BY <1>2 DEF Routed, IP
  <2>2. route'[w.gateway.family] = route[w.gateway.family]
    BY <1>2, <2>1 DEF Routed, Grows
  <2>3. Reachable(i, w.gateway)'
    BY <1>2 DEF Routed, Reachable, Grows
  <2> QED
    BY <1>2, <2>2, <2>3 DEF Routed
<1> QED
  BY <1>1, <1>2

(* A route, the resolver and the name are changed by one step each.        *)
LEMMA NetworkFrame ==
  ASSUME NEW c \in Caller, Step(c)
  PROVE  /\ route' # route => pc[c] = "route"
         /\ resolv' # resolv => pc[c] \in {"dns", "write"}
         /\ hostname' # hostname => SetHostname(c)
<1>1. CASE ResolveIface(c) \/ LinkUp(c) \/ SetAddress(c)
  BY <1>1 DEF ResolveIface, LinkUp, SetAddress, kernel
<1>2. CASE SetRoute(c)
  BY <1>2 DEF SetRoute, At
<1>3. CASE EmptyResolvConf(c) \/ WriteResolvConf(c) \/ SetHostname(c)
  BY <1>3 DEF EmptyResolvConf, WriteResolvConf, SetHostname, At, kernel
<1>4. CASE Check(c) \/ CreateKeyFile(c) \/ WriteKeyFile(c)
  BY <1>4 DEF Check, CreateKeyFile, WriteKeyFile, kernel
<1>5. CASE BringUpLink(c) \/ BringUpDevice(c) \/ BringUpAddress(c) \/ BringUpRaise(c)
  BY <1>5 DEF BringUpLink, BringUpDevice, BringUpAddress, BringUpRaise
<1>6. CASE KeepCloser(c) \/ ResolveOverlay(c) \/ WidenAddress(c) \/ SyscallFails(c)
  BY <1>6 DEF KeepCloser, ResolveOverlay, WidenAddress, SyscallFails, kernel
<1> QED
  BY <1>1, <1>2, <1>3, <1>4, <1>5, <1>6 DEF Step, ApplyStep, ApplyWireGuardStep

(* The steps of Apply come in their order, and each achieves what is asked *)
(* for or the call returns.                                                *)
LEMMA NetworkProgress ==
  ASSUME Inv, NEW c \in Caller, Step(c),
         NEW i, i = IfaceOf(req[c]), NEW w, w = req[c].config, NEW before, before = past[c]
  PROVE  /\ pc'[c] = "up" => pc[c] = "index"
         /\ pc'[c] = "address" => pc[c] = "up" /\ link'[i] = "up"
         /\ pc'[c] = "route" => pc[c] = "address" /\ Addressed(i, w)'
         /\ pc'[c] = "dns" => pc[c] = "route" /\ (route = before.route => Routed(i, w, before)')
         /\ pc'[c] = "write" => pc[c] = "dns"
         /\ pc'[c] = "hostname" => /\ pc[c] \in {"dns", "write"}
                                   /\ w.dns # <<>> => resolv' = w.dns
         /\ pc'[c] # "index"
<1>0. /\ pc \in [Caller -> {"idle"} \cup NetworkSteps \cup OverlaySteps]
      /\ link \in [Iface -> {"absent", "down", "up"}]
      /\ addrs \in [Iface -> SUBSET Address]
      /\ route \in [Family -> IP \cup {Unset}]
      /\ i \in Iface /\ WellFormed(req[c])
      /\ pc[c] \in NetworkSteps => req[c].kind = "network"
  BY StepFrame, KernelTyped DEF Inv, TypeOK, TheKernel, WellFormed, Busy
<1> USE DEF At, Goto, Return, Acknowledged, Answer
<1>1. CASE ResolveIface(c)
  BY <1>0, <1>1 DEF ResolveIface
<1>2. CASE LinkUp(c)
  BY <1>0, <1>2 DEF LinkUp
<1>3. CASE SetAddress(c)
  <2>1. pc[c] = "address" /\ pc'[c] \in {"route", "idle"}
    BY <1>0, <1>3 DEF SetAddress
  <2>2. ASSUME pc'[c] = "route" PROVE Addressed(i, w)'
    <3>1. CASE w.address = Unset
      BY <3>1, UnsetParses DEF Addressed
    <3>2. CASE w.address # Unset
      <4>1. w.address # Broken /\ AddrAdd(i, w.address)
        BY <1>0, <1>3, <2>2, <3>2 DEF SetAddress
      <4>2. w.address \in Address
        BY <1>0, <3>2, <4>1 DEF WellFormed
      <4>3. PICK a : a = w.address
        OBVIOUS
      <4>4. Taken(i, a)'
        BY <1>0, <4>1, <4>2, <4>3, AddrAddTakes
      <4> QED
        BY <4>1, <4>3, <4>4 DEF Addressed
    <3> QED
      BY <3>1, <3>2
  <2> QED
    BY <2>1, <2>2
<1>4. CASE SetRoute(c)
  <2>1. pc[c] = "route" /\ pc'[c] \in {"dns", "idle"} /\ UNCHANGED <<link, addrs>>
    BY <1>0, <1>4 DEF SetRoute
  <2>2. ASSUME pc'[c] = "dns", route = before.route PROVE Routed(i, w, before)'
    <3>1. CASE w.gateway = Unset
      BY <3>1, UnsetParses DEF Routed
    <3>2. CASE w.gateway # Unset
      <4>1. /\ w.gateway # Broken /\ Reachable(i, w.gateway)
            /\ route' = [route EXCEPT ![w.gateway.family] =
                            IF route[w.gateway.family] = Unset THEN w.gateway ELSE route[w.gateway.family]]
        BY <1>0, <1>4, <2>2, <3>2 DEF SetRoute
      <4>2. w.gateway.family \in Family
        BY <1>0, <1>4, <3>2, <4>1 DEF WellFormed, SetRoute, NetworkSteps, IP
      <4>3. Reachable(i, w.gateway)'
        BY <2>1, <4>1 DEF Reachable
      <4> QED
        BY <1>0, <2>2, <4>1, <4>2, <4>3 DEF Routed
    <3> QED
      BY <3>1, <3>2
  <2> QED
    BY <2>1, <2>2
<1>5. CASE EmptyResolvConf(c)
  BY <1>0, <1>5 DEF EmptyResolvConf
<1>6. CASE WriteResolvConf(c)
  BY <1>0, <1>6 DEF WriteResolvConf
<1>7. CASE SetHostname(c) \/ SyscallFails(c) \/ WidenAddress(c)
  BY <1>0, <1>7 DEF SetHostname, SyscallFails, WidenAddress
<1>8. CASE Check(c) \/ CreateKeyFile(c) \/ WriteKeyFile(c)
  BY <1>0, <1>8 DEF Check, CreateKeyFile, WriteKeyFile
<1>9. CASE BringUpLink(c) \/ BringUpDevice(c) \/ BringUpAddress(c) \/ BringUpRaise(c)
  BY <1>0, <1>9 DEF BringUpLink, BringUpDevice, BringUpAddress, BringUpRaise
<1>10. CASE KeepCloser(c) \/ ResolveOverlay(c)
  BY <1>0, <1>10 DEF KeepCloser, ResolveOverlay
<1> QED
  BY <1>1, <1>2, <1>3, <1>4, <1>5, <1>6, <1>7, <1>8, <1>9, <1>10
     DEF Step, ApplyStep, ApplyWireGuardStep

LEMMA StepNetwork ==
  ASSUME Inv, Order, NetworkInv, NEW c \in Caller, Step(c), UNCHANGED todo
  PROVE  NetworkInv'
<1>1. /\ UNCHANGED <<req, past>> /\ Busy(c) /\ answers \subseteq answers'
      /\ \A d \in Caller \ {c} : pc'[d] = pc[d]
      /\ pc'[c] = "idle" => \E b \in answers' : b.req = req[c] /\ b.past = past[c]
  <2>1. UNCHANGED <<req, past>> /\ Busy(c) /\ After(c)
    BY StepFrame DEF Inv
  <2>2. CASE answers' = answers /\ pc'[c] # "idle" /\ pc' = [pc EXCEPT ![c] = pc'[c]]
    BY <2>1, <2>2 DEF Inv, TypeOK
  <2>3. ASSUME NEW result, Answer(c, result)
        PROVE  /\ answers \subseteq answers'
               /\ \A d \in Caller \ {c} : pc'[d] = pc[d]
               /\ \E b \in answers' : b.req = req[c] /\ b.past = past[c]
    <3>1. [req |-> req[c], result |-> result, past |-> past[c]] \in answers'
      BY <2>3 DEF Answer
    <3> QED
      BY <2>3, <3>1 DEF Answer, Inv, TypeOK
  <2> QED
    BY <2>1, <2>2, <2>3 DEF After
<1>2. Grows
  BY KernelGrows
<1>3. \A d \in Caller : pc'[d] \in NetworkSteps => pc[d] \in NetworkSteps
  <2>1. /\ pc[c] \in OverlaySteps => pc'[c] \in OverlaySteps \cup {"idle"}
        /\ pc[c] \in {"idle"} \cup NetworkSteps \cup OverlaySteps /\ pc[c] # "idle"
    BY <1>1, ControlKept DEF Inv, TypeOK, Busy
  <2>2. NetworkSteps \cap (OverlaySteps \cup {"idle"}) = {}
    BY DEF NetworkSteps, OverlaySteps, KeyHeld
  <2> QED
    BY <1>1, <2>1, <2>2
<1>4. \A d \in Caller : pc[d] \in NetworkSteps =>
         /\ req[d].kind = "network" /\ IfaceOf(req[d]) \in Iface
         /\ req[d].config.gateway \in IP \cup {Unset, Broken}
         /\ \A e \in Caller : pc[e] \in NetworkSteps => d = e
         /\ \A a \in Over("network") : a.req \in past[d].answered
  BY DEF Inv, TypeOK, WellFormed, NetworkSteps, NetworkInv, InTurn
<1>5. \A a \in Over("network") : /\ IfaceOf(a.req) \in Iface
                                 /\ a.req.config.gateway \in IP \cup {Unset, Broken}
  BY DEF Order, PastAnswered, WellFormed, Over
<1>6. /\ route' # route => pc[c] = "route"
      /\ resolv' # resolv => pc[c] \in {"dns", "write"}
      /\ hostname' # hostname => SetHostname(c)
  BY NetworkFrame
<1>7. ASSUME NEW a \in Over("network")' \ Over("network")
      PROVE  /\ a.req = req[c] /\ a.past = past[c] /\ pc'[c] = "idle"
             /\ answers' = answers \cup {a}
             /\ pc[c] \in NetworkSteps
             /\ a.result = "ok" => SetHostname(c)
  <2>1. /\ a.req = req[c] /\ a.past = past[c] /\ pc'[c] = "idle" /\ a.req.kind = "network"
        /\ answers' = answers \cup {a}
        /\ a.result = "ok" => SetHostname(c) \/ WidenAddress(c)
    BY Succeeds DEF Over, Inv
  <2>2. pc[c] \notin OverlaySteps
    BY <2>1 DEF Inv, TypeOK
  <2>3. pc[c] \in NetworkSteps /\ ~WidenAddress(c)
    BY <1>1, <2>2 DEF WidenAddress, At, OverlaySteps, KeyHeld, Inv, TypeOK, Busy
  <2> QED
    BY <2>1, <2>3
<1>8. InTurn'
  <2> SUFFICES ASSUME NEW d \in Caller, pc'[d] \in NetworkSteps
               PROVE  /\ \A e \in Caller : pc'[e] \in NetworkSteps => d = e
                      /\ \A a \in Over("network")' : a.req \in past'[d].answered
    BY DEF InTurn
  <2>1. ASSUME NEW a \in Over("network")' PROVE a \in Over("network")
    <3> SUFFICES ASSUME a \notin Over("network") PROVE FALSE
      OBVIOUS
    <3>1. pc'[c] = "idle" /\ pc[c] \in NetworkSteps
      BY <1>7
    <3> QED
      BY <1>3, <1>4, <3>1 DEF NetworkSteps
  <2> QED
    BY <1>1, <1>3, <1>4, <2>1
<1>9. NetworkSoFar'
  <2> SUFFICES ASSUME NEW d \in Caller, NEW at, at = pc'[d], at \in NetworkSteps,
                      NEW w, w = req[d].config, NEW i, i = IfaceOf(req[d]),
                      NEW before, before = past[d]
               PROVE  ApplySoFar(at, i, w, before)'
    <3>1. ASSUME NEW at, at \notin NetworkSteps, NEW i, NEW w, NEW before
          PROVE  ApplySoFar(at, i, w, before)'
      BY <3>1 DEF ApplySoFar, NetworkSteps
    <3>2. \A d \in Caller : IfaceOf(req[d])' = IfaceOf(req[d])
      BY <1>1 DEF IfaceOf
    <3> QED
      BY <1>1, <3>1, <3>2 DEF NetworkSoFar
  <2>1. pc[d] \in NetworkSteps /\ i \in Iface /\ w.gateway \in IP \cup {Unset, Broken}
    BY <1>3, <1>4
  <2>2. /\ pc[d] \in NetworkSteps \ {"index", "up"} => link[i] = "up"
        /\ pc[d] \in {"route", "dns", "write", "hostname"} => Addressed(i, w)
        /\ pc[d] \in {"index", "up", "address", "route"} => route = before.route
        /\ pc[d] \in {"dns", "write", "hostname"} => Routed(i, w, before)
        /\ pc[d] = "hostname" /\ w.dns # <<>> => resolv = w.dns
    BY DEF NetworkInv, NetworkSoFar, ApplySoFar
  <2>3. /\ link[i] = "up" => link'[i] = "up"
        /\ Addressed(i, w) => Addressed(i, w)'
        /\ Routed(i, w, before) => Routed(i, w, before)'
    BY <1>2, <2>1, AddressedKept, RoutedKept DEF Grows
  <2>4. CASE d # c
    <3>1. pc[c] \notin NetworkSteps
      BY <1>4, <2>1, <2>4
    <3>2. UNCHANGED <<route, resolv>> /\ at = pc[d]
      BY <1>1, <1>6, <2>4, <3>1 DEF NetworkSteps
    <3> QED
      BY <2>2, <2>3, <3>2 DEF ApplySoFar
  <2>5. CASE d = c
    <3>1. /\ pc'[c] = "up" => pc[c] = "index"
          /\ pc'[c] = "address" => pc[c] = "up" /\ link'[i] = "up"
          /\ pc'[c] = "route" => pc[c] = "address" /\ Addressed(i, w)'
          /\ pc'[c] = "dns" => pc[c] = "route" /\ (route = before.route => Routed(i, w, before)')
          /\ pc'[c] = "write" => pc[c] = "dns"
          /\ pc'[c] = "hostname" => /\ pc[c] \in {"dns", "write"}
                                    /\ w.dns # <<>> => resolv' = w.dns
          /\ pc'[c] # "index"
      BY <2>5, NetworkProgress
    <3> QED
      BY <1>6, <2>2, <2>3, <2>5, <3>1 DEF NetworkSteps, ApplySoFar
  <2> QED
    BY <2>4, <2>5
<1>10. ASSUME SetHostname(c)
       PROVE  /\ pc[c] = "hostname" /\ UNCHANGED resolv
              /\ hostname' = IF req[c].config.hostname = Unset THEN hostname
                             ELSE req[c].config.hostname
  BY <1>10 DEF SetHostname, At
<1>11. NetworkInForce'
  <2> SUFFICES ASSUME NEW a \in Over("network")', a.result = "ok",
                      NEW i, i = IfaceOf(a.req)
               PROVE  link'[i] = "up" /\ Addressed(i, a.req.config)'
                        /\ Routed(i, a.req.config, a.past)'
    BY DEF NetworkInForce
  <2>1. /\ i \in Iface /\ a.req.config.gateway \in IP \cup {Unset, Broken}
        /\ link[i] = "up" /\ Addressed(i, a.req.config) /\ Routed(i, a.req.config, a.past)
    <3>1. CASE a \in Over("network")
      BY <1>5, <3>1 DEF NetworkInv, NetworkInForce
    <3>2. CASE a \notin Over("network")
      BY <1>4, <1>7, <1>10, <3>2 DEF NetworkInv, NetworkSoFar, ApplySoFar, NetworkSteps
    <3> QED
      BY <3>1, <3>2
  <2> QED
    BY <1>2, <2>1, AddressedKept, RoutedKept DEF Grows
<1>12. ResolverKept'
  <2> SUFFICES ASSUME NEW a \in Over("network")', a.result = "ok", IsLatest(a)',
                      a.req.config.dns # <<>>
               PROVE  resolv' = a.req.config.dns
    BY DEF ResolverKept
  <2>1. CASE a \notin Over("network")
    BY <1>7, <1>10, <2>1 DEF NetworkInv, NetworkSoFar, ApplySoFar
  <2>2. CASE a \in Over("network") /\ pc[c] \in NetworkSteps
    <3>1. a.req \in past[c].answered
      BY <1>4, <2>2
    <3>2. pc'[c] \notin NetworkSteps
      BY <1>1, <3>1 DEF IsLatest
    <3>3. pc'[c] = "idle"
      BY <2>2, <3>2, ControlKept
    <3>4. PICK b \in answers' : b.req = req[c] /\ b.past = past[c]
      BY <1>1, <3>3
    <3>5. b \in Over("network")'
      BY <1>4, <2>2, <3>4 DEF Over
    <3> QED
      BY <3>1, <3>4, <3>5 DEF IsLatest
  <2>3. CASE a \in Over("network") /\ pc[c] \notin NetworkSteps
    <3>1. resolv' = resolv
      BY <1>6, <2>3 DEF NetworkSteps
    <3>2. IsLatest(a)
      BY <1>1, <2>3 DEF IsLatest, Over
    <3> QED
      BY <2>3, <3>1, <3>2 DEF NetworkInv, ResolverKept
  <2> QED
    BY <2>1, <2>2, <2>3
<1>13. HostnameKept'
  <2> SUFFICES ASSUME NEW a \in Over("network")', a.result = "ok", a.req.config.hostname # Unset,
                      \A b \in Over("network")' :
                          a.req \in b.past.answered => b.req.config = a.req.config
               PROVE  hostname' = a.req.config.hostname
    BY DEF HostnameKept
  <2>1. CASE a \notin Over("network")
    BY <1>7, <1>10, <2>1
  <2>2. CASE a \in Over("network") /\ hostname' = hostname
    BY <1>1, <2>2 DEF NetworkInv, HostnameKept, Over
  <2>3. CASE a \in Over("network") /\ hostname' # hostname
    <3>1. SetHostname(c) /\ pc[c] \in NetworkSteps
      BY <1>6, <1>10, <2>3 DEF NetworkSteps
    <3>2. pc'[c] = "idle"
      BY <3>1 DEF SetHostname, Return, Answer, Inv, TypeOK
    <3>3. PICK b \in answers' : b.req = req[c] /\ b.past = past[c]
      BY <1>1, <3>2
    <3>4. b \in Over("network")' /\ a.req \in b.past.answered
      BY <1>4, <2>3, <3>1, <3>3 DEF Over
    <3> QED
      BY <1>10, <2>3, <3>1, <3>3, <3>4
  <2> QED
    BY <2>1, <2>2, <2>3
<1> QED
  BY <1>8, <1>9, <1>11, <1>12, <1>13 DEF NetworkInv

(* A step keeps NetworkSoFar if it only brings interfaces up, the calls of *)
(* Apply that go on stay where they were and no other is past its start.   *)
LEMMA NetworkSoFarFrame ==
  ASSUME NetworkSoFar, UNCHANGED <<addrs, route, resolv>>,
         \A i \in Iface : link[i] = "up" => link'[i] = "up",
         \A d \in Caller : pc'[d] \in NetworkSteps =>
            \/ /\ pc'[d] = pc[d] /\ req'[d] = req[d] /\ past'[d] = past[d]
               /\ IfaceOf(req[d]) \in Iface
            \/ pc'[d] = "index" /\ past'[d].route = route'
  PROVE  NetworkSoFar'
<1>1. ASSUME NEW at, NEW i \in Iface, NEW w, NEW before, ApplySoFar(at, i, w, before)
      PROVE  ApplySoFar(at, i, w, before)'
  <2>1. Addressed(i, w) => Addressed(i, w)'
    BY DEF Addressed, Taken
  <2>2. Routed(i, w, before) => Routed(i, w, before)'
    BY DEF Routed, Reachable
  <2> QED
    BY <1>1, <2>1, <2>2 DEF ApplySoFar
<1>2. SUFFICES ASSUME NEW d \in Caller, NEW at, at = pc'[d], NEW i, i = IfaceOf(req[d])',
                      NEW w, w = req'[d].config, NEW before, before = past'[d]
               PROVE  ApplySoFar(at, i, w, before)'
  BY DEF NetworkSoFar
<1>3. CASE at \notin NetworkSteps
  BY <1>3 DEF ApplySoFar, NetworkSteps
<1>4. CASE at = "index" /\ before.route = route'
  BY <1>4 DEF ApplySoFar
<1>5. CASE /\ pc'[d] = pc[d] /\ req'[d] = req[d] /\ past'[d] = past[d]
           /\ IfaceOf(req[d]) \in Iface
  <2>1. i = IfaceOf(req[d]) /\ i \in Iface /\ at = pc[d] /\ w = req[d].config /\ before = past[d]
    BY <1>2, <1>5 DEF IfaceOf
  <2>2. ApplySoFar(at, i, w, before)
    BY <2>1 DEF NetworkSoFar
  <2> QED
    BY <1>1, <2>1, <2>2
<1> QED
  BY <1>2, <1>3, <1>4, <1>5

LEMMA CallNetwork ==
  ASSUME Inv, Order, NetworkInv, NEW c \in Caller, Call(c)
  PROVE  NetworkInv'
<1>1. /\ pc[c] = "idle" /\ UNCHANGED <<kernel, resolv, answers>>
      /\ \E r \in todo :
            /\ req' = [req EXCEPT ![c] = r] /\ req'[c] = r
            /\ pc' = [pc EXCEPT ![c] = IF r.kind = "network" THEN "index" ELSE "check"]
            /\ past' = [past EXCEPT ![c] = [answered |-> {a.req : a \in answers}, route |-> route]]
            /\ r.kind = "network" => \A d \in Caller : pc[d] # "idle" => req[d].kind # "network"
  BY CallFrame DEF Inv
<1>2. PICK r \in todo :
        /\ req' = [req EXCEPT ![c] = r] /\ req'[c] = r
        /\ pc' = [pc EXCEPT ![c] = IF r.kind = "network" THEN "index" ELSE "check"]
        /\ past' = [past EXCEPT ![c] = [answered |-> {a.req : a \in answers}, route |-> route]]
        /\ r.kind = "network" => \A d \in Caller : pc[d] # "idle" => req[d].kind # "network"
  BY <1>1
<1>3. /\ pc'[c] = IF r.kind = "network" THEN "index" ELSE "check"
      /\ past'[c] = [answered |-> {a.req : a \in answers}, route |-> route]
      /\ \A d \in Caller \ {c} : pc'[d] = pc[d] /\ req'[d] = req[d] /\ past'[d] = past[d]
  BY <1>2 DEF Inv, TypeOK
<1>4. /\ UNCHANGED <<link, addrs, route, hostname, resolv, answers>>
      /\ Over("network")' = Over("network")
  BY <1>1 DEF kernel, Over
<1>5. \A d \in Caller \ {c} : pc'[d] \in NetworkSteps => pc[d] # "idle" /\ req[d].kind = "network"
  BY <1>3 DEF Inv, TypeOK, NetworkSteps
<1>6. InTurn'
  <2> SUFFICES ASSUME NEW d \in Caller, pc'[d] \in NetworkSteps
               PROVE  /\ \A e \in Caller : pc'[e] \in NetworkSteps => d = e
                      /\ \A a \in Over("network") : a.req \in past'[d].answered
    BY <1>4 DEF InTurn
  <2>1. CASE pc'[c] \in NetworkSteps
    <3>1. r.kind = "network"
      BY <1>3, <2>1 DEF NetworkSteps
    <3> QED
      BY <1>2, <1>3, <1>5, <3>1 DEF Over
  <2>2. CASE pc'[c] \notin NetworkSteps
    BY <1>3, <2>2 DEF NetworkInv, InTurn
  <2> QED
    BY <2>1, <2>2
<1>7. NetworkSoFar'
  <2>1. UNCHANGED <<addrs, route, resolv>> /\ \A i \in Iface : link[i] = "up" => link'[i] = "up"
    BY <1>1, <1>4
  <2>2. pc'[c] \in NetworkSteps => pc'[c] = "index" /\ past'[c].route = route'
    BY <1>3, <1>4 DEF NetworkSteps
  <2>3. \A d \in Caller \ {c} : pc[d] \in NetworkSteps => IfaceOf(req[d]) \in Iface
    BY DEF Inv, TypeOK, WellFormed, NetworkSteps
  <2> QED
    BY <1>3, <2>1, <2>2, <2>3, NetworkSoFarFrame DEF NetworkInv
<1>8. NetworkInForce'
  BY <1>4 DEF NetworkInv, NetworkInForce, Addressed, Routed, Taken, Reachable, IfaceOf
<1>9. ResolverKept'
  <2> SUFFICES ASSUME NEW a \in Over("network"), IsLatest(a)' PROVE IsLatest(a)
    BY <1>4 DEF NetworkInv, ResolverKept
  <2> QED
    BY <1>1, <1>3, <1>4 DEF IsLatest, NetworkSteps
<1>10. HostnameKept'
  BY <1>4 DEF NetworkInv, HostnameKept
<1> QED
  BY <1>6, <1>7, <1>8, <1>9, <1>10 DEF NetworkInv

LEMMA NextNetwork == Inv /\ Order /\ NetworkInv /\ [Next]_vars => NetworkInv'
<1> SUFFICES ASSUME Inv, Order, NetworkInv, [Next]_vars PROVE NetworkInv'
  OBVIOUS
<1>1. CASE IfaceAppears
  <2>1. /\ UNCHANGED <<addrs, route, hostname, resolv, pc, req, past, answers>>
        /\ \A i \in Iface : link[i] = "up" => link'[i] = "up"
    BY <1>1, KernelTyped DEF IfaceAppears, history, Inv, TypeOK, TheKernel
  <2>2. /\ \A c \in Caller : pc[c] \in NetworkSteps => IfaceOf(req[c]) \in Iface
        /\ \A a \in Over("network") : IfaceOf(a.req) \in Iface
    BY DEF Inv, TypeOK, WellFormed, Order, PastAnswered, Over, NetworkSteps
  <2>3. InTurn' /\ ResolverKept' /\ HostnameKept'
    BY <2>1 DEF NetworkInv, InTurn, ResolverKept, HostnameKept, IsLatest, Over
  <2>4. NetworkSoFar'
    BY <2>1, <2>2, NetworkSoFarFrame DEF NetworkInv
  <2>5. NetworkInForce'
    BY <2>1, <2>2 DEF NetworkInv, NetworkInForce, Addressed, Routed, Taken, Reachable, IfaceOf, Over
  <2> QED
    BY <2>3, <2>4, <2>5 DEF NetworkInv
<1>2. CASE UNCHANGED vars
  <2>1. UNCHANGED <<link, addrs, route, hostname, resolv, pc, req, past, answers>>
    BY <1>2 DEF vars, kernel, history
  <2>2. NetworkSoFar'
    <3>1. \A c \in Caller : pc[c] \in NetworkSteps => IfaceOf(req[c]) \in Iface
      BY DEF Inv, TypeOK, WellFormed, NetworkSteps
    <3> QED
      BY <2>1, <3>1, NetworkSoFarFrame DEF NetworkInv
  <2>3. NetworkInForce'
    BY <2>1 DEF NetworkInv, NetworkInForce, Addressed, Routed, Taken, Reachable, IfaceOf, Over
  <2>4. InTurn' /\ ResolverKept' /\ HostnameKept'
    BY <2>1 DEF NetworkInv, InTurn, ResolverKept, HostnameKept, IsLatest, Over
  <2> QED
    BY <2>2, <2>3, <2>4 DEF NetworkInv
<1> QED
  BY <1>1, <1>2, StepNetwork, CallNetwork DEF Next

(* Apply that returns without an error has brought the interface up with   *)
(* the address and the default route, whatever earlier calls left behind   *)
(* and at whatever step they failed; the last one has its resolver and its *)
(* name as well.                                                           *)
THEOREM NetworkApplyConfigures == Spec => []ApplyConfigures
<1>1. NetworkInv => ApplyConfigures
  <2> SUFFICES ASSUME NetworkInv, NEW a \in Over("network"), a.result = "ok",
                      NEW w, w = a.req.config, NEW i, i = IfaceOf(a.req)
               PROVE  /\ link[i] = "up"
                      /\ w.address # Unset => \E b \in addrs[i] : b.ip = w.address.ip
                      /\ w.gateway # Unset =>
                            route[w.gateway.family] =
                                IF a.past.route[w.gateway.family] # Unset
                                THEN a.past.route[w.gateway.family] ELSE w.gateway
                      /\ IsLatest(a) =>
                            /\ w.dns # <<>> => resolv = w.dns
                            /\ w.hostname # Unset => hostname = w.hostname
    BY DEF ApplyConfigures
  <2>1. link[i] = "up" /\ Addressed(i, w) /\ Routed(i, w, a.past)
    BY DEF NetworkInv, NetworkInForce
  <2>2. w.address # Unset => \E b \in addrs[i] : b.ip = w.address.ip
    BY <2>1, TakenHasIP DEF Addressed
  <2>3. IsLatest(a) =>
           /\ w.dns # <<>> => resolv = w.dns
           /\ w.hostname # Unset => hostname = w.hostname
    BY DEF NetworkInv, ResolverKept, HostnameKept, IsLatest
  <2> QED
    BY <2>1, <2>2, <2>3 DEF Routed
<1> QED
  BY <1>1, InitInv, NextInv, InitOrder, NextOrder, InitNetwork, NextNetwork, PTL DEF Spec

(* What a call of Apply does to the interface up to the step it comes to.  *)
LEMMA ApplyEffects ==
  ASSUME Inv, NEW c \in Caller, Step(c), pc[c] \in NetworkSteps,
         NEW i, i = IfaceOf(req[c]), NEW w, w = req[c].config
  PROVE  /\ pc'[c] = "up" => link[i] # "absent" /\ UNCHANGED <<link, addrs>>
         /\ pc'[c] = "address" => addrs' = addrs
         /\ pc'[c] = "route" =>
               /\ w.address # Broken
               /\ addrs'[i] = IF w.address = Unset \/ Taken(i, w.address) THEN addrs[i]
                              ELSE addrs[i] \cup {w.address}
         /\ pc'[c] = "dns" =>
               /\ w.gateway # Broken
               /\ w.gateway # Unset => \E a \in addrs[i] : Covers(a, w.gateway)
<1>0. /\ pc \in [Caller -> {"idle"} \cup NetworkSteps \cup OverlaySteps]
      /\ addrs \in [Iface -> SUBSET Address] /\ i \in Iface
  BY StepFrame, KernelTyped DEF Inv, TypeOK, TheKernel, WellFormed, Busy
<1> USE DEF At, Goto, Return, Acknowledged, Answer
<1>1. CASE ResolveIface(c)
  BY <1>0, <1>1 DEF ResolveIface, kernel
<1>2. CASE LinkUp(c)
  BY <1>0, <1>2 DEF LinkUp
<1>3. CASE SetAddress(c)
  <2>1. pc'[c] \in {"route", "idle"}
    BY <1>0, <1>3 DEF SetAddress
  <2>2. CASE w.address = Unset
    BY <1>0, <1>3, <2>1, <2>2, UnsetParses DEF SetAddress
  <2>3. CASE w.address # Unset
    BY <1>0, <1>3, <2>1, <2>3 DEF SetAddress, AddrAdd
  <2> QED
    BY <2>2, <2>3
<1>4. CASE SetRoute(c)
  <2>1. pc'[c] \in {"dns", "idle"}
    BY <1>0, <1>4 DEF SetRoute
  <2>2. CASE w.gateway = Unset
    BY <1>0, <1>4, <2>1, <2>2, UnsetParses DEF SetRoute
  <2>3. CASE w.gateway # Unset
    BY <1>0, <1>4, <2>1, <2>3 DEF SetRoute, Reachable
  <2> QED
    BY <2>2, <2>3
<1>5. CASE EmptyResolvConf(c) \/ WriteResolvConf(c) \/ SetHostname(c)
  BY <1>0, <1>5 DEF EmptyResolvConf, WriteResolvConf, SetHostname
<1>6. CASE ApplyWireGuardStep(c) \/ SyscallFails(c)
  BY <1>0, <1>6 DEF ApplyWireGuardStep, SyscallFails, NetworkSteps, Check, CreateKeyFile,
     WriteKeyFile, BringUpLink, BringUpDevice, BringUpAddress, BringUpRaise, KeepCloser,
     ResolveOverlay, WidenAddress
<1> QED
  BY <1>1, <1>2, <1>3, <1>4, <1>5, <1>6 DEF Step, ApplyStep

(* A call that fails for no trouble with the kernel has been given what it *)
(* cannot do.                                                              *)
LEMMA FailsFor ==
  ASSUME Inv, NEW c \in Caller, Step(c), NEW a \in answers' \ answers, a.result = "failed",
         NEW i, i = IfaceOf(req[c]), NEW w, w = req[c].config
  PROVE  \/ pc[c] = "index" /\ link[i] = "absent"
         \/ pc[c] = "address" /\ w.address = Broken
         \/ /\ pc[c] = "route"
            /\ w.gateway = Broken \/ (w.gateway # Unset /\ ~Reachable(i, w.gateway))
         \/ pc[c] = "check" /\ ~ValidOverlay(w)
         \/ pc[c] = "reindex" /\ link[i] = "absent"
<1> USE DEF At, Goto, Return, Acknowledged, Answer
<1>1. CASE ResolveIface(c)
  BY <1>1 DEF ResolveIface
<1>2. CASE LinkUp(c)
  BY <1>2 DEF LinkUp
<1>3. CASE SetAddress(c)
  BY <1>3, UnsetParses DEF SetAddress
<1>4. CASE SetRoute(c)
  BY <1>4 DEF SetRoute
<1>5. CASE EmptyResolvConf(c) \/ WriteResolvConf(c) \/ SetHostname(c)
  BY <1>5 DEF EmptyResolvConf, WriteResolvConf, SetHostname
<1>6. CASE Check(c) \/ CreateKeyFile(c) \/ WriteKeyFile(c)
  BY <1>6 DEF Check, CreateKeyFile, WriteKeyFile
<1>7. CASE BringUpLink(c) \/ BringUpDevice(c) \/ BringUpAddress(c) \/ BringUpRaise(c)
  BY <1>7 DEF BringUpLink, BringUpDevice, BringUpAddress, BringUpRaise
<1>8. CASE KeepCloser(c) \/ ResolveOverlay(c)
  BY <1>8 DEF KeepCloser, ResolveOverlay
<1>9. CASE WidenAddress(c) \/ SyscallFails(c)
  BY <1>9 DEF WidenAddress, SyscallFails
<1> QED
  BY <1>1, <1>2, <1>3, <1>4, <1>5, <1>6, <1>7, <1>8, <1>9
     DEF Step, ApplyStep, ApplyWireGuardStep

-----------------------------------------------------------------------------
(* What a step may never do.                                               *)

(* Only a step of its own moves a call on.                                 *)
LEMMA OwnStep ==
  ASSUME Inv, [Next]_vars, NEW c \in Caller, pc[c] # "idle", pc'[c] # pc[c]
  PROVE  Step(c)
<1>1. ASSUME NEW d \in Caller, Call(d) PROVE pc'[c] = pc[c]
  BY <1>1, CallFrame DEF Inv, TypeOK
<1>2. ASSUME NEW d \in Caller \ {c}, Step(d) PROVE pc'[c] = pc[c]
  BY <1>2, StepFrame DEF After, Answer, Inv, TypeOK
<1> QED
  BY <1>1, <1>2 DEF Next, IfaceAppears, vars

(* A repeated Apply makes no change to the kernel's state and is refused   *)
(* nothing by it.                                                          *)
LEMMA RepeatStep ==
  ASSUME Inv, Order, NetworkInv, NEW c \in Caller, Step(c), Repeats(c)
  PROVE  /\ UNCHANGED kernel
         /\ \A a \in answers' \ answers : a.result # "failed"
<1> DEFINE i == IfaceOf(req[c])
           w == req[c].config
           f == w.gateway.family
<1>1. PICK a \in Over("network") :
        /\ a.result = "ok" /\ a.req.config = w
        /\ \A b \in Over("network") : a.req \in b.past.answered => b.req.config = a.req.config
  BY DEF Repeats
<1>2. pc[c] \in NetworkSteps /\ pc[c] \notin OverlaySteps
  BY DEF Repeats, NetworkSteps, OverlaySteps, KeyHeld
<1>3. IfaceOf(a.req) = i /\ i \in Iface /\ WellFormed(req[c]) /\ req[c].kind = "network"
  BY <1>1, <1>2 DEF Over, IfaceOf, Inv, TypeOK, WellFormed, NetworkSteps
<1>4. /\ link[i] = "up" /\ Addressed(i, w) /\ Routed(i, w, a.past)
      /\ w.hostname # Unset => hostname = w.hostname
  BY <1>1, <1>3 DEF NetworkInv, NetworkInForce, HostnameKept
<1>5. /\ link \in [Iface -> {"absent", "down", "up"}]
      /\ addrs \in [Iface -> SUBSET Address]
      /\ route \in [Family -> IP \cup {Unset}]
  BY KernelTyped DEF Inv, TypeOK, TheKernel
<1> USE DEF Goto, Return, Acknowledged, Answer, kernel
<1>6. CASE ResolveIface(c)
  BY <1>4, <1>6 DEF ResolveIface
<1>7. CASE LinkUp(c)
  <2>1. link' = [link EXCEPT ![i] = "up"]
    BY <1>7 DEF LinkUp
  <2>2. link' = link
    BY <1>3, <1>4, <1>5, <2>1
  <2> QED
    BY <1>7, <2>2 DEF LinkUp
<1>8. CASE SetAddress(c)
  <2>1. w.address # Broken /\ (w.address # Unset => Taken(i, w.address))
    BY <1>4 DEF Addressed
  <2>2. CASE w.address = Unset
    BY <1>8, <2>1, <2>2 DEF SetAddress
  <2>3. CASE w.address # Unset
    <3>1. addrs' = [addrs EXCEPT ![i] = addrs[i]]
      BY <1>8, <2>1, <2>3 DEF SetAddress, AddrAdd
    <3>2. addrs' = addrs
      BY <1>3, <1>5, <3>1
    <3>3. Goto(c, "route") \/ Return(c, "trouble")
      BY <1>8, <2>1, <2>3 DEF SetAddress
    <3> QED
      BY <1>8, <3>2, <3>3 DEF SetAddress
  <2> QED
    BY <2>2, <2>3
<1>9. CASE SetRoute(c)
  <2>1. CASE w.gateway = Unset
    BY <1>9, <2>1, UnsetParses DEF SetRoute
  <2>2. CASE w.gateway # Unset
    <3>1. w.gateway # Broken /\ Reachable(i, w.gateway) /\ route[f] # Unset
      BY <1>4, <2>2 DEF Routed
    <3>2. f \in Family
      BY <1>3, <2>2, <3>1 DEF WellFormed, IP
    <3>3. route' = [route EXCEPT ![f] = route[f]]
      BY <1>9, <2>2, <3>1 DEF SetRoute
    <3>4. route' = route
      BY <1>5, <3>2, <3>3
    <3>5. Goto(c, "dns") \/ Return(c, "trouble")
      BY <1>9, <2>2, <3>1 DEF SetRoute
    <3> QED
      BY <1>9, <3>4, <3>5 DEF SetRoute
  <2> QED
    BY <2>1, <2>2
<1>10. CASE EmptyResolvConf(c) \/ WriteResolvConf(c)
  BY <1>10 DEF EmptyResolvConf, WriteResolvConf
<1>11. CASE SetHostname(c)
  BY <1>4, <1>11 DEF SetHostname
<1>12. CASE SyscallFails(c)
  BY <1>12 DEF SyscallFails
<1>13. ~ApplyWireGuardStep(c)
  BY <1>2 DEF ApplyWireGuardStep, Check, CreateKeyFile, WriteKeyFile, BringUpLink, BringUpDevice,
     BringUpAddress, BringUpRaise, KeepCloser, ResolveOverlay, WidenAddress, At,
     OverlaySteps, KeyHeld
<1> QED
  BY <1>6, <1>7, <1>8, <1>9, <1>10, <1>11, <1>12, <1>13 DEF Step, ApplyStep

(* netlink.go, "Idempotent": to apply the network in force once more never *)
(* takes it down, not for a moment, and is never refused.                  *)
THEOREM NetworkRepeatIsHarmless == Spec => RepeatIsHarmless
<1>1. Inv /\ Order /\ NetworkInv /\ [Next]_vars =>
        [\A c \in Caller : (Repeats(c) /\ pc'[c] # pc[c]) =>
            /\ UNCHANGED kernel
            /\ \A a \in answers' \ answers : a.result # "failed"]_vars
  BY OwnStep, RepeatStep DEF Repeats, NetworkSteps
<1> QED
  BY <1>1, InitInv, NextInv, InitOrder, NextOrder, InitNetwork, NextNetwork, PTL
     DEF Spec, RepeatIsHarmless

(* wireguard_linux.go, "so a malformed CIDR fails fast, before we touch    *)
(* the kernel": an overlay of which any part does not decode changes       *)
(* neither the overlay in force nor the keys.                              *)
THEOREM NetworkRejectedUntouched == Spec => RejectedUntouched
<1>1. ASSUME Inv, NEW c \in Caller, Step(c), pc[c] \in OverlaySteps, ~ValidOverlay(req[c].config)
      PROVE  UNCHANGED <<kernel, keys, applier>>
  <2>1. pc[c] = "check" /\ c \notin keys
    BY <1>1, CallersAreNoFile DEF Inv, Decoded, KeysCleaned, KeyHeld
  <2>2. ~ApplyStep(c)
    BY <2>1 DEF ApplyStep, ResolveIface, LinkUp, SetAddress, SetRoute, EmptyResolvConf,
       WriteResolvConf, SetHostname, At
  <2>3. ~SyscallFails(c)
    BY <2>1 DEF SyscallFails, CallsKernel
  <2>4. Check(c)
    BY <1>1, <2>1, <2>2, <2>3 DEF Step, ApplyWireGuardStep, Check, CreateKeyFile, WriteKeyFile,
       BringUpLink, BringUpDevice, BringUpAddress, BringUpRaise, KeepCloser, ResolveOverlay,
       WidenAddress, At
  <2>5. keys' = keys \ {c} /\ UNCHANGED <<kernel, applier>>
    BY <1>1, <2>1, <2>4 DEF Check, Return
  <2> QED
    BY <2>1, <2>5
<1>2. Inv /\ [Next]_vars =>
        [\A c \in Caller :
            (pc[c] \in OverlaySteps /\ ~ValidOverlay(req[c].config) /\ pc'[c] # pc[c]) =>
                UNCHANGED <<kernel, keys, applier>>]_vars
  BY <1>1, OwnStep DEF OverlaySteps, KeyHeld
<1> QED
  BY <1>2, InitInv, NextInv, PTL DEF Spec, RejectedUntouched
=============================================================================
