------------------------------ MODULE Network ------------------------------
(***************************************************************************)
(* The pod's network and its WireGuard overlay                             *)
(* (src/pkg/network/netlink.go, wireguard_linux.go, wgpeers.go), with the  *)
(* interfaces, addresses and routes of the kernel they work on.            *)
(*                                                                         *)
(* Apply and ApplyWireGuard are sequences of system calls.  Each may fail, *)
(* and what has been done by then stays.  PID 1 calls both once at boot.   *)
(* The comments of the package have both called again, and ApplyWireGuard  *)
(* whenever the host publishes the mesh; only the assignment of the closer *)
(* is under a mutex, so that calls may overlap everywhere else.            *)
(***************************************************************************)
EXTENDS Naturals, Sequences, FiniteSets

CONSTANTS
    Caller,  \* goroutines that call the package
    Iface,   \* interfaces of the guest, "eth0" and "wg0" among them
    Kernels, \* what may be set up before the first call
    Batches, \* the requests made in one behaviour, a set of them for each
    Unset,   \* an empty string, a nil pointer, a file that does not exist
    Broken,  \* a string that does not parse
    MayFail  \* whether a system call may fail for no fault of the request

ASSUME InterfacesAreNamed == {"eth0", "wg0"} \subseteq Iface

(* A file with a private key that no call will remove any more.            *)
Stray == "stray"

ASSUME CallersAreNoFile == Stray \notin Caller

Family == {4, 6}

(* An address is an IP and whether its prefix is wide enough for the whole *)
(* network of that IP, or is for the host alone.                           *)
IP == [family : Family, net : Nat, host : Nat]
Address == [ip : IP, wide : BOOLEAN]

IfaceOf(r) ==
    IF r.config.iface # Unset THEN r.config.iface
    ELSE IF r.kind = "network" THEN "eth0" ELSE "wg0"

(* A request.  An address that net.ParseCIDR or net.ParseIP refuses is     *)
(* Broken.                                                                 *)
WellFormed(r) ==
    /\ r.kind \in {"network", "overlay"}
    /\ IfaceOf(r) \in Iface
    /\ r.config.address \in Address \cup {Unset, Broken}
    /\ r.kind = "network" => r.config.gateway \in IP \cup {Unset, Broken}

ASSUME RequestsAreWellFormed == \A batch \in Batches : \A r \in batch : WellFormed(r)

(* The kernel has a default route of its own family for each family.       *)
KernelSound(k) ==
    /\ k.link \in [Iface -> {"absent", "down", "up"}]
    /\ k.addrs \in [Iface -> SUBSET Address]
    /\ k.route \in [Family -> IP \cup {Unset}]
    /\ \A f \in Family : k.route[f] # Unset => k.route[f].family = f

ASSUME KernelsAreSound == \A k \in Kernels : KernelSound(k)

ASSUME UnsetParses == Unset # Broken

VARIABLES
    link,     \* the state of each interface: absent, down or up
    addrs,    \* the addresses on it
    route,    \* the gateway of the default route of each family
    hostname,
    resolv,   \* the servers in /etc/resolv.conf
    device,   \* the request from which the WireGuard device is configured
    keys,     \* callers whose private key is in a temporary file, Stray if one was left
    applier,  \* the request whose closer is kept
    pc, req,  \* where each caller is, and with which request
    past,     \* history: the calls over and the routes when it called
    answers,  \* history: the calls that have returned
    todo      \* requests that will be made

kernel == <<link, addrs, route, hostname, device>>
history == <<past, answers>>
vars == <<kernel, resolv, keys, applier, pc, req, history, todo>>

-----------------------------------------------------------------------------
(* The kernel.                                                             *)

Covers(a, ip) ==
    IF a.wide THEN a.ip.family = ip.family /\ a.ip.net = ip.net ELSE a.ip = ip

(* EEXIST: IPv4 tells addresses apart by their prefix too, IPv6 does not.  *)
Taken(i, a) ==
    IF a.ip.family = 4 THEN a \in addrs[i] ELSE \E b \in addrs[i] : b.ip = a.ip

(* A gateway must be on a network of the interface.                        *)
Reachable(i, gateway) == link[i] = "up" /\ \E a \in addrs[i] : Covers(a, gateway)

-----------------------------------------------------------------------------
Init ==
    /\ \E k \in Kernels :
          /\ link = k.link /\ addrs = k.addrs /\ route = k.route
          /\ hostname = Unset /\ resolv = k.resolv
    /\ device = Unset /\ applier = Unset /\ keys = {}
    /\ pc = [c \in Caller |-> "idle"]
    /\ req = [c \in Caller |-> Unset]
    /\ past = [c \in Caller |-> Unset]
    /\ answers = {}
    /\ todo \in Batches

(* The interface's device is found by the kernel, perhaps after the call.  *)
IfaceAppears ==
    /\ link["eth0"] = "absent"
    /\ link' = [link EXCEPT !["eth0"] = "down"]
    /\ UNCHANGED <<addrs, route, hostname, device, resolv, keys, applier, pc, req, history, todo>>

Begin(c, r) ==
    /\ pc[c] = "idle"
    /\ pc' = [pc EXCEPT ![c] = IF r.kind = "network" THEN "index" ELSE "check"]
    /\ req' = [req EXCEPT ![c] = r]
    /\ past' = [past EXCEPT ![c] = [answered |-> {a.req : a \in answers}, route |-> route]]
    /\ UNCHANGED <<kernel, resolv, keys, applier, answers>>

(* Apply has one caller at a time.                                         *)
Call(c) ==
    \E r \in todo :
        /\ r.kind = "network" =>
              \A d \in Caller : pc[d] # "idle" => req[d].kind # "network"
        /\ Begin(c, r)
        /\ todo' = todo \ {r}

Goto(c, step) == pc' = [pc EXCEPT ![c] = step] /\ UNCHANGED <<keys, answers>>

Answer(c, result) ==
    /\ pc' = [pc EXCEPT ![c] = "idle"]
    /\ answers' = answers \cup {[req |-> req[c], result |-> result, past |-> past[c]]}

(* Mutant: the key is removed only after a success.                        *)
ReturnKeeping(c, result) ==
    Answer(c, result) /\ keys' = IF result = "ok" THEN keys \ {c} ELSE keys

(* A call returns; the deferred cleanupTmpKey removes a staged key, or     *)
(* cannot, which it ignores.                                               *)
Return(c, result) ==
    /\ Answer(c, result)
    /\ \/ keys' = keys \ {c}
       \/ MayFail /\ c \in keys /\ keys' = (keys \ {c}) \cup {Stray}

(* talk: the kernel has acted; its answer is read, or cannot be.           *)
Acknowledged(c, step) == Goto(c, step) \/ (MayFail /\ Return(c, "trouble"))

At(c, step) == pc[c] = step /\ UNCHANGED <<req, past>>

-----------------------------------------------------------------------------
(* Apply                                                                   *)

ResolveIface(c) ==
    /\ At(c, "index")
    /\ IF link[IfaceOf(req[c])] = "absent" THEN Return(c, "failed") ELSE Goto(c, "up")
    /\ UNCHANGED <<kernel, resolv, applier>>

LinkUp(c) ==
    /\ At(c, "up")
    /\ link' = [link EXCEPT ![IfaceOf(req[c])] = "up"]
    /\ Acknowledged(c, "address")
    /\ UNCHANGED <<addrs, route, hostname, device, resolv, applier>>

(* addrAdd, whose EEXIST is no error to its callers.                       *)
AddrAdd(i, a) == addrs' = [addrs EXCEPT ![i] = IF Taken(i, a) THEN @ ELSE @ \cup {a}]

SetAddress(c) ==
    LET a == req[c].config.address IN
    /\ At(c, "address")
    /\ CASE a = Unset  -> Goto(c, "route") /\ addrs' = addrs
         [] a = Broken -> Return(c, "failed") /\ addrs' = addrs
         [] OTHER      -> AddrAdd(IfaceOf(req[c]), a) /\ Acknowledged(c, "route")
    /\ UNCHANGED <<link, route, hostname, device, resolv, applier>>

(* Mutant: a default route that is there already is an error.              *)
SetRouteOnce(c) ==
    LET gw == req[c].config.gateway IN
    /\ At(c, "route")
    /\ CASE gw = Unset -> Goto(c, "dns") /\ route' = route
         [] gw = Broken -> Return(c, "failed") /\ route' = route
         [] OTHER ->
              IF ~Reachable(IfaceOf(req[c]), gw) \/ route[gw.family] # Unset
              THEN Return(c, "failed") /\ route' = route
              ELSE route' = [route EXCEPT ![gw.family] = gw] /\ Acknowledged(c, "dns")
    /\ UNCHANGED <<link, addrs, hostname, device, resolv, applier>>

(* Mutant: the route is installed with NLM_F_REPLACE.                      *)
SetRouteReplacing(c) ==
    LET gw == req[c].config.gateway IN
    /\ At(c, "route")
    /\ IF gw = Unset THEN Goto(c, "dns") /\ route' = route
       ELSE IF gw = Broken \/ ~Reachable(IfaceOf(req[c]), gw)
       THEN Return(c, "failed") /\ route' = route
       ELSE route' = [route EXCEPT ![gw.family] = gw] /\ Acknowledged(c, "dns")
    /\ UNCHANGED <<link, addrs, hostname, device, resolv, applier>>

(* defaultRoute.  The kernel refuses a gateway it has no network for, and  *)
(* keeps a default route it has; the second is no error to Apply.          *)
SetRoute(c) ==
    LET gw == req[c].config.gateway IN
    /\ At(c, "route")
    /\ CASE gw = Unset -> Goto(c, "dns") /\ route' = route
         [] gw = Broken -> Return(c, "failed") /\ route' = route
         [] OTHER ->
              IF Reachable(IfaceOf(req[c]), gw)
              THEN /\ route' = [route EXCEPT ![gw.family] = IF @ = Unset THEN gw ELSE @]
                   /\ Acknowledged(c, "dns")
              ELSE Return(c, "failed") /\ route' = route
    /\ UNCHANGED <<link, addrs, hostname, device, resolv, applier>>

(* writeResolvConf: the file is emptied, then written.                     *)
EmptyResolvConf(c) ==
    /\ At(c, "dns")
    /\ IF req[c].config.dns = <<>> THEN Goto(c, "hostname") /\ resolv' = resolv
       ELSE Goto(c, "write") /\ resolv' = <<>>
    /\ UNCHANGED <<kernel, applier>>

WriteResolvConf(c) ==
    /\ At(c, "write")
    /\ resolv' = req[c].config.dns
    /\ Goto(c, "hostname")
    /\ UNCHANGED <<kernel, applier>>

SetHostname(c) ==
    /\ At(c, "hostname")
    /\ hostname' = IF req[c].config.hostname = Unset THEN hostname ELSE req[c].config.hostname
    /\ Return(c, "ok")
    /\ UNCHANGED <<link, addrs, route, device, resolv, applier>>

-----------------------------------------------------------------------------
(* ApplyWireGuard                                                          *)

(* buildPeers: every key and every allowed prefix parses.                  *)
BuildPeers(peers) == \A p \in peers : p.key \notin {Unset, Broken} /\ Broken \notin p.allowed

(* Everything is decoded first; overlayLocalIP demands an address.         *)
ValidOverlay(wg) ==
    wg.key \notin {Unset, Broken} /\ wg.address \notin {Unset, Broken} /\ BuildPeers(wg.peers)

(* Mutant: the peers are left to the library.                              *)
CheckAllButPeers(c) ==
    LET wg == req[c].config IN
    /\ At(c, "check")
    /\ IF wg.key \in {Unset, Broken} \/ wg.address \in {Unset, Broken}
       THEN Return(c, "failed") ELSE Goto(c, "stage")
    /\ UNCHANGED <<kernel, resolv, applier>>

Check(c) ==
    /\ At(c, "check")
    /\ IF ValidOverlay(req[c].config) THEN Goto(c, "stage") ELSE Return(c, "failed")
    /\ UNCHANGED <<kernel, resolv, applier>>

(* stagePrivateKey: the temporary file is made, then filled.               *)
CreateKeyFile(c) ==
    /\ At(c, "stage")
    /\ keys' = keys \cup {c}
    /\ pc' = [pc EXCEPT ![c] = "key"]
    /\ UNCHANGED <<kernel, resolv, applier, answers>>

WriteKeyFile(c) ==
    /\ At(c, "key")
    /\ Goto(c, "link")
    /\ UNCHANGED <<kernel, resolv, applier>>

(* BringUp: the link is made or the one of that name is used, the device's *)
(* configuration is replaced, the host's address alone is put on the link, *)
(* and the link is brought up.                                             *)
BringUpLink(c) ==
    /\ At(c, "link")
    /\ link' = [link EXCEPT ![IfaceOf(req[c])] = IF @ = "absent" THEN "down" ELSE @]
    /\ Goto(c, "device")
    /\ UNCHANGED <<addrs, route, hostname, device, resolv, applier>>

BringUpDevice(c) ==
    /\ At(c, "device")
    /\ device' = req[c]
    /\ Goto(c, "assign")
    /\ UNCHANGED <<link, addrs, route, hostname, resolv, applier>>

BringUpAddress(c) ==
    /\ At(c, "assign")
    /\ AddrAdd(IfaceOf(req[c]), [req[c].config.address EXCEPT !.wide = FALSE])
    /\ Goto(c, "raise")
    /\ UNCHANGED <<link, route, hostname, device, resolv, applier>>

BringUpRaise(c) ==
    /\ At(c, "raise")
    /\ link' = [link EXCEPT ![IfaceOf(req[c])] = "up"]
    /\ Goto(c, "closer")
    /\ UNCHANGED <<addrs, route, hostname, device, resolv, applier>>

(* Mutant: the closer is kept the first time only.                         *)
KeepCloserOnce(c) ==
    /\ At(c, "closer")
    /\ applier' = IF applier = Unset THEN req[c] ELSE applier
    /\ Goto(c, "reindex")
    /\ UNCHANGED <<kernel, resolv>>

(* Under applierMu, which is held for this alone.                          *)
KeepCloser(c) ==
    /\ At(c, "closer")
    /\ applier' = req[c]
    /\ Goto(c, "reindex")
    /\ UNCHANGED <<kernel, resolv>>

ResolveOverlay(c) ==
    /\ At(c, "reindex")
    /\ IF link[IfaceOf(req[c])] = "absent" THEN Return(c, "failed") ELSE Goto(c, "widen")
    /\ UNCHANGED <<kernel, resolv, applier>>

(* Mutant: an address that is on the interface is left as it is.           *)
WidenAddressUnlessOn(c) ==
    LET i == IfaceOf(req[c])
        a == req[c].config.address
    IN
    /\ At(c, "widen")
    /\ addrs' = [addrs EXCEPT ![i] = IF \E b \in @ : b.ip = a.ip THEN @ ELSE @ \cup {a}]
    /\ Return(c, "ok")
    /\ UNCHANGED <<link, route, hostname, device, resolv, applier>>

(* The address again, with the prefix of the overlay.                      *)
WidenAddress(c) ==
    /\ At(c, "widen")
    /\ AddrAdd(IfaceOf(req[c]), req[c].config.address)
    /\ Return(c, "ok") \/ (MayFail /\ Return(c, "trouble"))
    /\ UNCHANGED <<link, route, hostname, device, resolv, applier>>

-----------------------------------------------------------------------------
(* The step that is next makes a system call.                              *)
CallsKernel(c) ==
    CASE pc[c] = "address"  -> req[c].config.address \notin {Unset, Broken}
      [] pc[c] = "route"    -> req[c].config.gateway \notin {Unset, Broken}
      [] pc[c] = "dns"      -> req[c].config.dns # <<>>
      [] pc[c] = "hostname" -> req[c].config.hostname # Unset
      [] OTHER -> pc[c] \notin {"idle", "check", "closer"}

(* A system call fails and the call returns its error; stagePrivateKey     *)
(* removes the file it could not fill.                                     *)
SyscallFails(c) ==
    /\ MayFail
    /\ CallsKernel(c)
    /\ Return(c, "trouble")
    /\ UNCHANGED <<kernel, resolv, applier, req, past>>

ApplyStep(c) ==
    \/ ResolveIface(c) \/ LinkUp(c) \/ SetAddress(c) \/ SetRoute(c)
    \/ EmptyResolvConf(c) \/ WriteResolvConf(c) \/ SetHostname(c)

ApplyWireGuardStep(c) ==
    \/ Check(c) \/ CreateKeyFile(c) \/ WriteKeyFile(c)
    \/ BringUpLink(c) \/ BringUpDevice(c) \/ BringUpAddress(c) \/ BringUpRaise(c)
    \/ KeepCloser(c) \/ ResolveOverlay(c) \/ WidenAddress(c)

Step(c) == ApplyStep(c) \/ ApplyWireGuardStep(c) \/ SyscallFails(c)

Next ==
    \/ IfaceAppears
    \/ \E c \in Caller : Call(c) \/ (Step(c) /\ UNCHANGED todo)

Spec == Init /\ [][Next]_vars

-----------------------------------------------------------------------------
NetworkSteps == {"index", "up", "address", "route", "dns", "write", "hostname"}
KeyHeld == {"key", "link", "device", "assign", "raise", "closer", "reindex", "widen"}
OverlaySteps == {"check", "stage"} \cup KeyHeld

TypeOK ==
    /\ KernelSound([link |-> link, addrs |-> addrs, route |-> route])
    /\ \A r \in {device, applier} \ {Unset} : r.kind = "overlay" /\ ValidOverlay(r.config)
    /\ keys \subseteq Caller \cup {Stray}
    /\ DOMAIN req = Caller /\ DOMAIN past = Caller
    /\ pc \in [Caller -> {"idle"} \cup NetworkSteps \cup OverlaySteps]
    /\ \A c \in Caller :
          /\ pc[c] \in NetworkSteps => req[c].kind = "network"
          /\ pc[c] \in OverlaySteps => req[c].kind = "overlay"
          /\ pc[c] # "idle" => WellFormed(req[c])
    /\ \A r \in todo : WellFormed(r)
    /\ \A a \in answers : a.result \in {"ok", "failed", "trouble"}

Over(kind) == {a \in answers : a.req.kind = kind}

(* No later call of Apply than this one has begun.                         *)
IsLatest(a) ==
    /\ \A b \in Over("network") : a.req \notin b.past.answered
    /\ \A c \in Caller : pc[c] \in NetworkSteps => a.req \notin past[c].answered

(* When Apply has returned without an error the guest has the network it   *)
(* was given, whatever earlier calls did, and at whatever step they        *)
(* failed: the interface up with the address, the resolver complete, the   *)
(* name set, and a default route, which is the one asked for unless there  *)
(* was one before.                                                         *)
ApplyConfigures ==
    \A a \in Over("network") : a.result = "ok" =>
        LET n == a.req.config
            i == IfaceOf(a.req)
        IN  /\ link[i] = "up"
            /\ n.address # Unset => \E b \in addrs[i] : b.ip = n.address.ip
            /\ n.gateway # Unset =>
                  LET f == n.gateway.family IN
                  route[f] = IF a.past.route[f] # Unset THEN a.past.route[f] ELSE n.gateway
            /\ IsLatest(a) =>
                  /\ n.dns # <<>> => resolv = n.dns
                  /\ n.hostname # Unset => hostname = n.hostname

(* The caller applies the network that is in force.                        *)
Repeats(c) ==
    /\ pc[c] \in NetworkSteps
    /\ \E a \in Over("network") :
          /\ a.result = "ok" /\ a.req.config = req[c].config
          /\ \A b \in Over("network") :
                a.req \in b.past.answered => b.req.config = a.req.config

(* netlink.go:24, "Idempotent": to apply the network in force once more    *)
(* never takes it down, not even for a moment or by a step that fails, and *)
(* finds nothing to complain of.  Only resolv.conf is written anew.        *)
RepeatIsHarmless ==
    [][\A c \in Caller : (Repeats(c) /\ pc'[c] # pc[c]) =>
          /\ UNCHANGED kernel
          /\ \A a \in answers' \ answers : a.result # "failed"]_vars

(* wireguard_linux.go:63, "so a malformed CIDR fails fast, before we touch *)
(* the kernel": an overlay that does not decode, be it one peer of many,   *)
(* leaves the overlay in force alone and no key behind.                    *)
RejectedUntouched ==
    [][\A c \in Caller :
          (pc[c] \in OverlaySteps /\ ~ValidOverlay(req[c].config) /\ pc'[c] # pc[c]) =>
              UNCHANGED <<kernel, keys, applier>>]_vars

(* A private key is in a file only while a call needs it: on every way out *)
(* the file is gone, unless it cannot be removed, and the library finds it *)
(* for as long as it reads it.                                             *)
KeysCleaned ==
    /\ keys \ {Stray} = {c \in Caller : pc[c] \in KeyHeld}
    /\ Stray \in keys => MayFail

(* When ApplyWireGuard has returned without an error the device does not   *)
(* go by an overlay whose call was over before, nor is the closer kept     *)
(* that of such a one, however other calls overlapped with it.             *)
NewestOverlay ==
    \A a \in Over("overlay") : a.result = "ok" =>
        device \notin a.past.answered /\ applier \notin a.past.answered

(* wireguard_linux.go:117: and the interface is up with the prefix of the  *)
(* overlay, and not the host's address alone.  IPv6 refuses a second       *)
(* prefix for an address, so that this is true of IPv4 only.               *)
OverlayReachable ==
    \A a \in Over("overlay") : a.result = "ok" =>
        LET i == IfaceOf(a.req) IN
        /\ link[i] = "up"
        /\ \E b \in addrs[i] : b.ip = a.req.config.address.ip
        /\ a.req.config.address.ip.family = 4 => a.req.config.address \in addrs[i]

-----------------------------------------------------------------------------
(* What the comments of the package say and the code does not do.          *)

(* wireguard_linux.go:111, "Replace any previous closer [...] so the new   *)
(* closer is the live one": when no call is under way the closer that is   *)
(* kept is of the overlay the device is configured from.                   *)
CloserIsLive == (\A c \in Caller : pc[c] \notin OverlaySteps) => applier = device

(* wireguard_linux.go:117, "Re-add the broader on-link prefix (e.g. /24)   *)
(* so peers inside the overlay subnet that aren't enumerated in AllowedIPs *)
(* still reach the interface": the address has its prefix when the call    *)
(* has returned without an error, whatever its family.                     *)
OverlayPrefix ==
    \A a \in Over("overlay") :
        a.result = "ok" => a.req.config.address \in addrs[IfaceOf(a.req)]
=============================================================================
