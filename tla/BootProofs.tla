----------------------------- MODULE BootProofs -----------------------------
(***************************************************************************)
(* Proofs about Boot for every host: that the network calls of a boot are  *)
(* a behaviour of Network, what a pod finds when its supervisor starts,    *)
(* that it starts only for the hosts that kept their side, and that each   *)
(* container runs what was asked for.                                      *)
(***************************************************************************)
EXTENDS Boot, BundleProofs

NetProofs == INSTANCE NetworkProofs WITH Caller <- {PID1}, Kernels <- {h.kernel : h \in Host},
                                         Batches <- {Requests(h) : h \in Host}, todo <- ToCome

-----------------------------------------------------------------------------
(* What init reads of the files the host has for it: not those of the      *)
(* initramfs that are beneath the tmpfs on /run.                           *)
Seen(file) == IF host.cmdline.config # Unset \/ InitramfsShown THEN file ELSE Absent

ReadFile == Seen(host.podJson)

Read ==
    CASE ReadFile = Absent -> Synth(host.cmdline)
      [] ReadFile = Broken -> NoSpec
      [] OTHER -> ReadFile

ReadOverlay == IF Read.wireguard # Unset THEN Read.wireguard ELSE Seen(host.wireguardJson)

(* The phases before there is a pod, with one, and of a boot that fails.   *)
BeforeLoad == {"start", "pseudofs", "config", "load"}
AfterLoad == {"shares", "cubefs", "enrich", "network", "applying", "overlay", "peering",
              "bundles", "notify", "supervise"}
Stopped == {"failed", "panicked", "hung", "off"}

(* PID 1 is in a call of the network package while its phase says so, and  *)
(* makes each call once.                                                   *)
Turn ==
    /\ phase \in BeforeLoad \cup AfterLoad \cup Stopped
    /\ phase \in {"applying", "peering"} => pc[PID1] # "idle"
    /\ phase \notin {"applying", "peering", "panicked"} => pc[PID1] = "idle"
    /\ phase = "applying" => req[PID1] = NetworkCall(Read.network)
    /\ phase = "peering" =>
          \E wg : req[PID1] = OverlayCall(wg) /\ (NothingHidden => wg = ReadOverlay)
    /\ phase \in BeforeLoad \cup {"shares", "cubefs", "enrich", "network", "applying"} =>
          answers = {}
    /\ phase \in {"overlay", "peering"} => \A a \in answers : a.req.kind = "network"

(* The share with the configuration, as the host's command line has it.    *)
ConfigShare ==
    IF host.cmdline.config = Unset THEN <<>>
    ELSE <<[tag |-> host.cmdline.config, path |-> CfgDir]>>

(* Before there is a pod.  One of /proc and /run is mounted, which is how  *)
(* the files of the initramfs are seen only if the command line can be     *)
(* read.                                                                   *)
Unloaded ==
    /\ host \in Host
    /\ phase \in (BeforeLoad \cup AfterLoad) \ {"start", "pseudofs"} => pseudo \cap {"proc", "run"} # {}
    /\ phase \in {"start", "pseudofs", "config"} => mounted = <<>>
    /\ phase = "load" =>
          /\ Cmdline.config \in host.offered \cup {Unset}
          /\ mounted = IF Cmdline.config = Unset THEN <<>>
                       ELSE <<[tag |-> Cmdline.config, path |-> CfgDir]>>

(* A container with what its image adds is the one that was asked for.     *)
Completes(c, asked) ==
    \A field \in ContainerFields \ {"command", "env", "workdir", "user"} : c[field] = asked[field]

(* With a pod, it is the one that was read.                                *)
Loaded ==
    phase \in AfterLoad =>
        /\ "proc" \in pseudo
        /\ IF ReadFile = Absent THEN host.cmdline.rootfs # Unset
           ELSE ReadFile # Broken /\ ValidSpec(ReadFile)
        /\ IsPod(spec) /\ IsPod(Read)
        /\ \A field \in DOMAIN NoSpec \ {"containers"} : spec[field] = Read[field]
        /\ Len(spec.containers) = Len(Read.containers)
        /\ \A i \in DOMAIN spec.containers : Completes(spec.containers[i], Read.containers[i])

(* The shares that are mounted are those before n, and then all.           *)
SharesMounted ==
    phase \in AfterLoad =>
        LET last == IF phase = "shares" THEN n - 1 ELSE Len(Read.shares) IN
        /\ last \in 0..Len(Read.shares)
        /\ host.cmdline.config \in host.offered \cup {Unset}
        /\ \A i \in 1..last : Read.shares[i].path # Unset /\ Read.shares[i].tag \in host.offered
        /\ mounted = ConfigShare \o SubSeq(Read.shares, 1, last)

(* And so are the CubeFS shares.                                           *)
ClientsMounted ==
    phase \in AfterLoad \ {"shares"} =>
        LET last == IF phase = "cubefs" THEN n - 1 ELSE Len(Read.shareMounts) IN
        /\ last \in 0..Len(Read.shareMounts)
        /\ \A i \in 1..last :
              LET m == Read.shareMounts[i] IN
              m.action = "mount" => m.path \in fuse \/ Shows(m.path) # Unset

(* A bundle is made of what is then known, which does not change any more. *)
Bundled ==
    IF phase \in {"bundles", "notify", "supervise"} THEN
        LET last == IF phase = "bundles" THEN n - 1 ELSE Len(spec.containers) IN
        /\ last \in 0..Len(spec.containers)
        /\ bundles = [i \in 1..last |->
                        LET c == spec.containers[i] IN
                        BuildSpec(spec.id, c, ResolveRootfs(c), override, resolv # Unset)]
        /\ \A i \in 1..last :
              LET c == spec.containers[i] IN ResolveRootfs(c) # Unset /\ c.command # <<>>
    ELSE phase \in BeforeLoad \cup AfterLoad => bundles = <<>>

(* The calls of the network package: each has succeeded when run() goes    *)
(* on, and the closer is that of the overlay.                              *)
Late == {"bundles", "notify", "supervise"}

Concluded ==
    /\ phase \in (BeforeLoad \cup AfterLoad) \ ({"peering"} \cup Late) => applier = Unset
    /\ phase = "applying" => past[PID1].answered = {} /\ past[PID1].route = host.kernel.route
    /\ phase \in BeforeLoad \cup AfterLoad =>
          \A a \in answers : a.req.kind = "network" =>
              a.past.answered = {} /\ a.past.route = host.kernel.route
    /\ phase \in {"overlay", "peering"} \cup Late /\ Read.network # Unset =>
          \E a \in answers : a.req = NetworkCall(Read.network) /\ a.result = "ok"
    /\ phase = "peering" =>
          /\ req[PID1].config # Absent
          /\ pc[PID1] \in {"reindex", "widen"} => applier = req[PID1]
    /\ phase \in Late /\ NothingHidden =>
          IF ReadOverlay = Absent THEN applier = Unset ELSE applier.config = ReadOverlay

(* WEFT_BUNDLE_NAMESPACES is read before /proc is mounted.                 *)
Overridden ==
    /\ phase = "start" => pseudo = IF host.proc THEN {"proc"} ELSE {}
    /\ phase \in (BeforeLoad \cup AfterLoad) \ {"start"} =>
          override = IF host.proc THEN host.cmdline.namespaces ELSE Unset

(* The kernel is as it was found until the pod's network is applied.       *)
FoundStill ==
    phase \in BeforeLoad \cup {"shares", "cubefs", "enrich", "network"} =>
        link = host.kernel.link /\ addrs = host.kernel.addrs /\ route = host.kernel.route

NetworkAtBoot ==
    NetProofs!Order /\ NetProofs!NetworkInv /\ FoundStill /\ Concluded /\ Overridden

Ranges ==
    /\ n \in Nat \ {0}
    /\ phase \in {"config", "load", "notify", "supervise"} => n = 1
    /\ pseudo \subseteq {"proc", "run"} /\ fault \subseteq {"call", "signal", "reboot"}

BootInv ==
    /\ NetProofs!Inv
    /\ Turn /\ Unloaded /\ Loaded /\ SharesMounted /\ ClientsMounted /\ Bundled
    /\ Ranges

-----------------------------------------------------------------------------
(* Which action changes what.                                              *)
LEMMA Frame ==
  ASSUME [Next]_vars
  PROVE  /\ host' = host
         /\ pseudo' = pseudo \/ MountPseudoFS
         /\ spec' = spec \/ LoadSpec \/ EnrichContainers
         /\ mounted' = mounted \/ MountConfigShare \/ MountShares
         /\ fuse' = fuse \/ MountCubeFSShares
         /\ override' = override \/ ReadOverride
         /\ UNCHANGED network \/ NetworkApply \/ ApplyWireGuard \/ NetworkStep
         /\ bundles' = bundles \/ PrepareBundles
         /\ fault' = fault \/ Trouble \/ RebootFails \/ EarlySignal \/ MountPseudoFS \/ NetworkStep
<1> USE DEF vars, loaded, mounts
<1>1. CASE ReadOverride
  BY <1>1 DEF ReadOverride
<1>2. CASE MountPseudoFS
  BY <1>2 DEF MountPseudoFS
<1>3. CASE MountConfigShare
  BY <1>3 DEF MountConfigShare
<1>4. CASE LoadSpec
  BY <1>4 DEF LoadSpec
<1>5. CASE MountShares
  BY <1>5 DEF MountShares
<1>6. CASE MountCubeFSShares
  BY <1>6 DEF MountCubeFSShares
<1>7. CASE EnrichContainers
  BY <1>7 DEF EnrichContainers
<1>8. CASE NetworkApply
  BY <1>8 DEF NetworkApply
<1>9. CASE ApplyWireGuard
  BY <1>9 DEF ApplyWireGuard
<1>10. CASE NetworkStep
  BY <1>10 DEF NetworkStep
<1>11. CASE PrepareBundles
  BY <1>11 DEF PrepareBundles
<1>12. CASE StartSupervisor
  BY <1>12 DEF StartSupervisor
<1>13. CASE Poweroff
  BY <1>13 DEF Poweroff
<1>14. CASE Trouble
  BY <1>14 DEF Trouble
<1>15. CASE RebootFails
  BY <1>15 DEF RebootFails
<1>16. CASE EarlySignal
  BY <1>16 DEF EarlySignal
<1>17. CASE UNCHANGED vars
  BY <1>17 DEF network
<1> QED
  BY <1>1, <1>2, <1>3, <1>4, <1>5, <1>6, <1>7, <1>8, <1>9, <1>10, <1>11, <1>12, <1>13, <1>14,
     <1>15, <1>16, <1>17 DEF Next, RunStep

(* Where each phase leads to.                                              *)
Follows(p, q) ==
    CASE p = "start"    -> q = "pseudofs"
      [] p = "pseudofs" -> q = "config"
      [] p = "config"   -> q = "load"
      [] p = "load"     -> q = "shares"
      [] p = "shares"   -> q = "cubefs"
      [] p = "cubefs"   -> q = "enrich"
      [] p = "enrich"   -> q = "network"
      [] p = "network"  -> q \in {"applying", "overlay"}
      [] p = "applying" -> q = "overlay"
      [] p = "overlay"  -> q \in {"peering", "bundles"}
      [] p = "peering"  -> q = "bundles"
      [] p = "bundles"  -> q = "notify"
      [] p = "notify"   -> q = "supervise"
      [] OTHER -> FALSE

LEMMA Phases ==
  ASSUME [Next]_vars
  PROVE  \/ UNCHANGED <<phase, n>>
         \/ phase' = phase /\ n' = n + 1 /\ phase \in {"shares", "cubefs", "enrich", "bundles"}
         \/ n' = 1 /\ Follows(phase, phase')
         \/ phase' \in Stopped /\ n' = n
<1> USE DEF Goto, Fail, Stopped
<1>1. CASE ReadOverride
  BY <1>1 DEF ReadOverride, Follows
<1>2. CASE MountPseudoFS
  BY <1>2 DEF MountPseudoFS, Follows
<1>3. CASE MountConfigShare
  BY <1>3 DEF MountConfigShare, Follows
<1>4. CASE LoadSpec
  <2>1. phase = "load" /\ (Fail \/ Goto("shares"))
    BY <1>4 DEF LoadSpec
  <2> QED
    BY <2>1 DEF Follows
<1>5. CASE MountShares
  BY <1>5 DEF MountShares, Follows
<1>6. CASE MountCubeFSShares
  BY <1>6 DEF MountCubeFSShares, Follows
<1>7. CASE EnrichContainers
  BY <1>7 DEF EnrichContainers, Follows
<1>8. CASE NetworkApply
  BY <1>8 DEF NetworkApply, Follows
<1>9. CASE ApplyWireGuard
  BY <1>9 DEF ApplyWireGuard, Follows
<1>10. CASE NetworkStep
  BY <1>10 DEF NetworkStep, Follows
<1>11. CASE PrepareBundles
  BY <1>11 DEF PrepareBundles, Follows
<1>12. CASE StartSupervisor
  BY <1>12 DEF StartSupervisor, Follows
<1>13. CASE Poweroff
  BY <1>13 DEF Poweroff
<1>14. CASE Trouble
  BY <1>14 DEF Trouble
<1>15. CASE RebootFails
  BY <1>15 DEF RebootFails
<1>16. CASE EarlySignal
  BY <1>16 DEF EarlySignal
<1>17. CASE UNCHANGED vars
  BY <1>17 DEF vars
<1> QED
  BY <1>1, <1>2, <1>3, <1>4, <1>5, <1>6, <1>7, <1>8, <1>9, <1>10, <1>11, <1>12, <1>13, <1>14,
     <1>15, <1>16, <1>17 DEF Next, RunStep
-----------------------------------------------------------------------------
(* The network package proved about is the one that run() calls: the two   *)
(* instances of Network are the same.                                      *)
LEMMA SameStep == Net!Step(PID1) <=> NetProofs!Step(PID1)
BY DEF Net!Step, Net!ApplyStep, Net!ApplyWireGuardStep, Net!SyscallFails, Net!ResolveIface,
   Net!LinkUp, Net!SetAddress, Net!SetRoute, Net!EmptyResolvConf, Net!WriteResolvConf,
   Net!SetHostname, Net!Check, Net!CreateKeyFile, Net!WriteKeyFile, Net!BringUpLink,
   Net!BringUpDevice, Net!BringUpAddress, Net!BringUpRaise, Net!KeepCloser, Net!ResolveOverlay,
   Net!WidenAddress, Net!Stray, Net!CallsKernel, Net!At, Net!Goto, Net!Return, Net!Answer,
   Net!Acknowledged, Net!AddrAdd, Net!Taken, Net!Reachable, Net!Covers, Net!IfaceOf,
   Net!ValidOverlay, Net!BuildPeers, Net!kernel,
   NetProofs!Step, NetProofs!ApplyStep, NetProofs!ApplyWireGuardStep, NetProofs!SyscallFails,
   NetProofs!ResolveIface, NetProofs!LinkUp, NetProofs!SetAddress, NetProofs!SetRoute,
   NetProofs!EmptyResolvConf, NetProofs!WriteResolvConf, NetProofs!SetHostname, NetProofs!Check,
   NetProofs!CreateKeyFile, NetProofs!WriteKeyFile, NetProofs!BringUpLink,
   NetProofs!BringUpDevice, NetProofs!BringUpAddress, NetProofs!BringUpRaise,
   NetProofs!KeepCloser, NetProofs!Stray, NetProofs!ResolveOverlay, NetProofs!WidenAddress,
   NetProofs!CallsKernel, NetProofs!At, NetProofs!Goto, NetProofs!Return, NetProofs!Answer, NetProofs!Acknowledged, NetProofs!AddrAdd,
   NetProofs!Taken, NetProofs!Reachable, NetProofs!Covers, NetProofs!IfaceOf,
   NetProofs!ValidOverlay, NetProofs!BuildPeers, NetProofs!kernel

(* What the proofs about Network assume of its constants is so here.       *)
LEMMA NetworkAssumptions ==
  /\ {"eth0", "wg0"} \subseteq Iface
  /\ \A batch \in {Requests(h) : h \in Host} : \A r \in batch : NetProofs!WellFormed(r)
  /\ \A k \in {h.kernel : h \in Host} : NetProofs!KernelSound(k)
  /\ Unset # Broken /\ NetProofs!Stray \notin {PID1}
<1>1. \A r : Net!WellFormed(r) => NetProofs!WellFormed(r)
  BY DEF Net!WellFormed, NetProofs!WellFormed, Net!IfaceOf, NetProofs!IfaceOf, Net!Address,
     NetProofs!Address, Net!IP, NetProofs!IP, Net!Family, NetProofs!Family
<1>2. \A k : Net!KernelSound(k) => NetProofs!KernelSound(k)
  BY DEF Net!KernelSound, NetProofs!KernelSound, Net!Address, NetProofs!Address, Net!IP,
     NetProofs!IP, Net!Family, NetProofs!Family
<1> QED
  BY <1>1, <1>2, HostsAreSound, FilesAreDistinct DEF IsHost, Iface, NetProofs!Stray, PID1

LEMMA SameBegin == \A r : Net!Begin(PID1, r) <=> NetProofs!Begin(PID1, r)
BY DEF Net!Begin, NetProofs!Begin, Net!kernel, NetProofs!kernel

LEMMA SameNext == [NetProofs!Next]_(NetProofs!vars) => [Net!Next]_(Net!vars)
<1>1. NetProofs!Call(PID1) => Net!Call(PID1)
  BY SameBegin DEF Net!Call, NetProofs!Call
<1>2. NetProofs!IfaceAppears => Net!IfaceAppears
  BY DEF Net!IfaceAppears, NetProofs!IfaceAppears, Net!history, NetProofs!history
<1>3. UNCHANGED NetProofs!vars => UNCHANGED Net!vars
  BY DEF NetProofs!vars, NetProofs!kernel, NetProofs!history, Net!vars, Net!kernel, Net!history
<1> QED
  BY <1>1, <1>2, <1>3, SameStep DEF Net!Next, NetProofs!Next

(* What is read is settled once /proc and /run are mounted.                *)
LEMMA AskedStays ==
  ASSUME host' = host, pseudo' = pseudo
  PROVE  UNCHANGED <<ReadFile, Read, ReadOverlay, InitramfsShown, Cmdline, ConfigShare>>
<1>1. InitramfsShown' = InitramfsShown
  BY DEF InitramfsShown
<1>2. ReadFile' = ReadFile
  BY <1>1 DEF ReadFile, Seen
<1>3. Read' = Read
  BY <1>2 DEF Read
<1>4. ReadOverlay' = ReadOverlay
  BY <1>1, <1>3 DEF ReadOverlay, Seen
<1>5. UNCHANGED <<Cmdline, ConfigShare>>
  BY DEF Cmdline, ConfigShare
<1> QED
  BY <1>1, <1>2, <1>3, <1>4, <1>5

(* Where nothing is beneath the tmpfs it is what the host asks for.        *)
LEMMA ReadsAsked ==
  ASSUME NothingBeneath
  PROVE  ReadFile = host.podJson /\ Read = Asked /\ ReadOverlay = AskedOverlay
<1>1. ReadFile = host.podJson /\ Seen(host.wireguardJson) = host.wireguardJson
  BY DEF NothingBeneath, ReadFile, Seen
<1>2. Read = Asked
  BY <1>1 DEF Read, Asked
<1> QED
  BY <1>1, <1>2 DEF ReadOverlay, AskedOverlay

(* A call for what the pod says is one that run() may make.                *)
LEMMA CallsAsked ==
  ASSUME host \in Host, Loaded, phase \in AfterLoad
  PROVE  /\ Read.network # Unset => NetworkCall(Read.network) \in Requests(host)
         /\ Read.wireguard # Unset => OverlayCall(Read.wireguard) \in Requests(host)
<1>1. CASE ReadFile = Absent
  <2>1. Read = Synth(host.cmdline)
    BY <1>1, FilesAreDistinct DEF Read
  <2> QED
    BY <2>1 DEF Synth
<1>2. CASE ReadFile # Absent
  <2>1. ReadFile = host.podJson /\ ReadFile \notin NoFile
    BY <1>2 DEF ReadFile, Seen, Loaded, NoFile
  <2>2. Read = host.podJson
    BY <2>1 DEF Read, NoFile
  <2> QED
    BY <2>1, <2>2 DEF Requests
<1> QED
  BY <1>1, <1>2

(* A step of the package leaves its call where it is or ends it; run()     *)
(* goes on when it has ended.                                              *)
LEMMA StepOutcome ==
  ASSUME NetProofs!TypeOK, Turn, NetworkStep
  PROVE  /\ NetProofs!Step(PID1) /\ UNCHANGED <<host, pseudo, req, past>>
         /\ \/ /\ pc'[PID1] # "idle" /\ answers' = answers
               /\ UNCHANGED <<phase, n, fault>>
            \/ \E result \in {"ok", "failed", "trouble"} :
                  /\ pc'[PID1] = "idle"
                  /\ answers' = answers \cup {[req |-> req[PID1], result |-> result, past |-> past[PID1]]}
                  /\ [req |-> req[PID1], result |-> result, past |-> past[PID1]] \notin answers
                  /\ IF result # "ok" THEN Fail
                     ELSE Goto(IF phase = "applying" THEN "overlay" ELSE "bundles")
                  /\ fault' = IF result = "trouble" THEN fault \cup {"call"} ELSE fault
<1>1. NetProofs!Step(PID1) /\ phase \in {"applying", "peering"}
  BY SameStep DEF NetworkStep
<1>2. NetProofs!Busy(PID1) /\ UNCHANGED <<req, past>> /\ NetProofs!After(PID1)
  BY <1>1, NetworkAssumptions, NetProofs!StepFrame
<1>3. UNCHANGED <<host, pseudo>>
  BY DEF NetworkStep, loaded, mounts
<1>4. CASE pc'[PID1] # "idle" /\ answers' = answers
  BY <1>1, <1>2, <1>3, <1>4 DEF NetworkStep
<1>5. CASE \E result \in {"ok", "failed", "trouble"} : NetProofs!Answer(PID1, result)
  <2>1. PICK result \in {"ok", "failed", "trouble"} : NetProofs!Answer(PID1, result)
    BY <1>5
  <2> DEFINE a == [req |-> req[PID1], result |-> result, past |-> past[PID1]]
  <2>2. answers' = answers \cup {a} /\ pc'[PID1] = "idle"
    BY <2>1 DEF NetProofs!Answer, NetProofs!TypeOK
  <2>3. a \notin answers
    <3>1. CASE phase = "applying"
      BY <3>1 DEF Turn
    <3>2. CASE phase = "peering"
      <4>1. PICK wg : req[PID1] = OverlayCall(wg)
        BY <3>2 DEF Turn
      <4>2. a.req.kind = "overlay"
        BY <4>1 DEF OverlayCall
      <4> HIDE DEF a
      <4> QED
        BY <3>2, <4>2 DEF Turn
    <3> QED
      BY <1>1, <3>1, <3>2
  <2>4. answers' # answers /\ answers' \ answers = {a}
    BY <2>2, <2>3
  <2>5. /\ IF a.result # "ok" THEN Fail ELSE Goto(IF phase = "applying" THEN "overlay" ELSE "bundles")
        /\ fault' = IF a.result = "trouble" THEN fault \cup {"call"} ELSE fault
    BY <2>4 DEF NetworkStep
  <2> QED
    BY <1>1, <1>2, <1>3, <2>2, <2>3, <2>5
<1> QED
  BY <1>2, <1>4, <1>5 DEF NetProofs!After

(* A call begins with a request that has not been made.                    *)
LEMMA BeginIsCall ==
  ASSUME host \in Host, host' = host, NetProofs!TypeOK, pc[PID1] = "idle",
         NEW r \in Requests(host), \A a \in answers : a.req # r, Net!Begin(PID1, r)
  PROVE  NetProofs!Call(PID1)
<1>1. NetProofs!Begin(PID1, r)
  BY SameBegin
<1>2. /\ pc'[PID1] # "idle" /\ req'[PID1] = r /\ answers' = answers
  BY <1>1 DEF NetProofs!Begin, NetProofs!TypeOK
<1>3. r \in ToCome /\ ToCome' = ToCome \ {r}
  BY <1>2 DEF ToCome
<1> QED
  BY <1>1, <1>3 DEF NetProofs!Call

(* A step of a call makes no request.                                      *)
LEMMA StepIsStep ==
  ASSUME NetProofs!TypeOK, Turn, NetworkStep
  PROVE  NetProofs!Step(PID1) /\ UNCHANGED ToCome
<1>1. pc[PID1] # "idle"
  BY DEF NetworkStep, Turn
<1>2. NetProofs!Step(PID1) /\ host' = host /\ req' = req
  BY StepOutcome
<1>3. CASE pc'[PID1] # "idle" /\ answers' = answers
  BY <1>1, <1>2, <1>3 DEF ToCome
<1>4. CASE /\ pc'[PID1] = "idle"
           /\ \E result : answers' =
                answers \cup {[req |-> req[PID1], result |-> result, past |-> past[PID1]]}
  <2>1. PICK result : answers' =
                answers \cup {[req |-> req[PID1], result |-> result, past |-> past[PID1]]}
    BY <1>4
  <2> DEFINE new == [req |-> req[PID1], result |-> result, past |-> past[PID1]]
  <2>2. new.req = req[PID1] /\ answers' = answers \cup {new}
    BY <2>1
  <2>3. \A r : (\A a \in answers' : a.req # r) <=> (req[PID1] # r /\ \A a \in answers : a.req # r)
    <3> HIDE DEF new
    <3> QED
      BY <2>2
  <2> QED
    BY <1>1, <1>2, <1>4, <2>3 DEF ToCome
<1> QED
  BY <1>2, <1>3, <1>4, StepOutcome

(* The network calls of a boot are a behaviour of Network.                 *)
LEMMA NetworkNext ==
  ASSUME BootInv, [Next]_vars
  PROVE  [NetProofs!Next]_(NetProofs!vars)
<1>1. NetProofs!TypeOK /\ Turn /\ Loaded /\ host \in Host /\ host' = host
  BY Frame DEF BootInv, Unloaded, NetProofs!Inv
<1>2. CASE UNCHANGED network
  <2>1. ToCome' = ToCome
    BY <1>1, <1>2 DEF ToCome, network
  <2> QED
    BY <1>2, <2>1 DEF NetProofs!vars, NetProofs!kernel, NetProofs!history, network
<1>3. CASE NetworkApply /\ ~UNCHANGED network
  <2>1. spec.network # Unset /\ phase = "network" /\ Net!Begin(PID1, NetworkCall(spec.network))
    BY <1>3 DEF NetworkApply
  <2>2. spec.network = Read.network /\ pc[PID1] = "idle" /\ answers = {}
    BY <1>1, <2>1 DEF Loaded, Turn, AfterLoad, NoSpec
  <2>3. NetworkCall(spec.network) \in Requests(host)
    BY <1>1, <2>1, <2>2, CallsAsked DEF AfterLoad
  <2> QED
    BY <1>1, <2>1, <2>2, <2>3, BeginIsCall DEF NetProofs!Next
<1>4. CASE ApplyWireGuard /\ ~UNCHANGED network
  <2> DEFINE own == spec.wireguard # Unset
             wg == IF own THEN spec.wireguard ELSE ConfigFile(host.wireguardJson)
  <2>1. /\ phase = "overlay" /\ wg # Absent /\ (~own => wg # Broken)
        /\ Net!Begin(PID1, OverlayCall(wg))
    BY <1>4 DEF ApplyWireGuard
  <2>2. spec.wireguard = Read.wireguard /\ pc[PID1] = "idle" /\ \A a \in answers : a.req.kind = "network"
    BY <1>1, <2>1 DEF Loaded, Turn, AfterLoad, NoSpec
  <2>3. OverlayCall(wg) \in Requests(host)
    <3>1. CASE own
      BY <1>1, <2>1, <2>2, <3>1, CallsAsked DEF AfterLoad
    <3>2. CASE ~own
      <4>1. wg = host.wireguardJson /\ wg \notin NoFile
        BY <2>1, <3>2 DEF ConfigFile, NoFile
      <4> QED
        BY <4>1 DEF Requests
    <3> QED
      BY <3>1, <3>2
  <2>4. \A a \in answers : a.req # OverlayCall(wg)
    BY <2>2 DEF OverlayCall
  <2> HIDE DEF wg
  <2> QED
    BY <1>1, <2>1, <2>2, <2>3, <2>4, BeginIsCall DEF NetProofs!Next
<1>5. CASE NetworkStep
  BY <1>1, <1>5, StepIsStep DEF NetProofs!Next
<1> QED
  BY <1>2, <1>3, <1>4, <1>5, Frame

-----------------------------------------------------------------------------
(* What a path shows.                                                      *)
LEMMA ShowsNothing ==
  ASSUME NEW path, \A i \in DOMAIN mounted : mounted[i].path # path
  PROVE  Shows(path) = Unset
BY DEF Shows

LEMMA ShowsOnly ==
  ASSUME NEW path, NEW k \in DOMAIN mounted, k \in Nat, mounted[k].path = path,
         \A i \in DOMAIN mounted : mounted[i].path = path => i = k
  PROVE  Shows(path) = mounted[k].tag
<1>1. {i \in DOMAIN mounted : mounted[i].path = path} = {k}
  OBVIOUS
<1>2. Max({k}) = k
  BY DEF Max
<1> QED
  BY <1>1, <1>2 DEF Shows

(* When the shares are mounted their list is the share with the            *)
(* configuration, if there is one, and then those of the pod.              *)
LEMMA MountedList ==
  ASSUME Loaded, SharesMounted, phase \in AfterLoad \ {"shares"}
  PROVE  LET k == IF host.cmdline.config = Unset THEN 0 ELSE 1 IN
         /\ Len(Read.shares) \in Nat /\ DOMAIN Read.shares = 1..Len(Read.shares)
         /\ DOMAIN mounted = 1..(k + Len(Read.shares))
         /\ k = 1 => mounted[1] = [tag |-> host.cmdline.config, path |-> CfgDir]
         /\ \A i \in DOMAIN Read.shares : mounted[k + i] = Read.shares[i]
<1> DEFINE S == Read.shares
<1>1. S \in Seq(Range(S)) /\ Len(S) \in Nat /\ DOMAIN S = 1..Len(S)
  BY DEF Loaded, AfterLoad, IsPod, IsList
<1>2. mounted = ConfigShare \o SubSeq(S, 1, Len(S))
  BY DEF SharesMounted, AfterLoad
<1> HIDE DEF S
<1>3. SubSeq(S, 1, Len(S)) = S
  BY <1>1
<1>4. CASE host.cmdline.config = Unset
  <2>1. mounted = S
    BY <1>1, <1>2, <1>3, <1>4 DEF ConfigShare
  <2> QED
    BY <1>1, <1>4, <2>1 DEF S
<1>5. CASE host.cmdline.config # Unset
  <2> DEFINE c == [tag |-> host.cmdline.config, path |-> CfgDir]
  <2>1. mounted = <<c>> \o S
    BY <1>2, <1>3, <1>5 DEF ConfigShare
  <2> HIDE DEF c
  <2>2. Len(mounted) = 1 + Len(S) /\ mounted[1] = c /\ DOMAIN mounted = 1..(1 + Len(S))
    BY <1>1, <2>1
  <2>3. \A i \in 1..Len(S) : mounted[1 + i] = S[i]
    BY <1>1, <2>1
  <2> QED
    BY <1>1, <1>5, <2>2, <2>3 DEF S, c
<1> QED
  BY <1>4, <1>5

(* Where nothing is hidden each share is seen at its path, and so is the   *)
(* configuration.                                                          *)
LEMMA SharesShown ==
  ASSUME Loaded, SharesMounted, phase \in AfterLoad \ {"shares"}, NothingHidden
  PROVE  /\ Shows(CfgDir) = host.cmdline.config
         /\ \A i \in DOMAIN Read.shares : Shows(Read.shares[i].path) = Read.shares[i].tag
<1> DEFINE S == Read.shares
           k == IF host.cmdline.config = Unset THEN 0 ELSE 1
<1>1. /\ Len(S) \in Nat /\ DOMAIN S = 1..Len(S) /\ DOMAIN mounted = 1..(k + Len(S))
      /\ k = 1 => mounted[1] = [tag |-> host.cmdline.config, path |-> CfgDir]
      /\ \A i \in DOMAIN S : mounted[k + i] = S[i]
  BY MountedList
<1>2. \A i, j \in DOMAIN S : S[i].path = S[j].path => i = j
  BY ReadsAsked DEF NothingHidden, SharesApart
<1>3. \A i \in DOMAIN S : S[i].path # CfgDir
  BY ReadsAsked DEF NothingHidden, SharesApart
<1> HIDE DEF S
<1>4. ASSUME NEW j \in DOMAIN mounted
      PROVE  (k = 1 /\ j = 1) \/ (j - k \in DOMAIN S /\ mounted[j] = S[j - k])
  <2>1. k \in {0, 1}
    OBVIOUS
  <2> HIDE DEF k
  <2>2. j - k \in DOMAIN S \/ (k = 1 /\ j = 1)
    BY <1>1, <1>4, <2>1
  <2>3. k + (j - k) = j
    BY <1>1, <1>4, <2>1
  <2> QED
    BY <1>1, <2>2, <2>3
<1>5. Shows(CfgDir) = host.cmdline.config
  <2>1. CASE host.cmdline.config = Unset
    BY <1>3, <1>4, <2>1, ShowsNothing
  <2>2. CASE host.cmdline.config # Unset
    <3>1. k = 1 /\ 1 \in DOMAIN mounted /\ mounted[1].path = CfgDir
          /\ mounted[1].tag = host.cmdline.config
      BY <1>1, <2>2
    <3>2. \A j \in DOMAIN mounted : mounted[j].path = CfgDir => j = 1
      BY <1>3, <1>4
    <3> QED
      BY <3>1, <3>2, ShowsOnly
  <2> QED
    BY <2>1, <2>2
<1>6. ASSUME NEW i \in DOMAIN S
      PROVE  Shows(S[i].path) = S[i].tag
  <2>1. k + i \in DOMAIN mounted /\ k + i \in Nat /\ mounted[k + i] = S[i]
    BY <1>1, <1>6
  <2>2. ASSUME NEW j \in DOMAIN mounted, mounted[j].path = S[i].path
        PROVE  j = k + i
    <3>1. ~ (k = 1 /\ j = 1)
      BY <1>1, <1>3, <1>6, <2>2
    <3>2. j - k \in DOMAIN S /\ S[j - k].path = S[i].path
      BY <1>4, <2>2, <3>1
    <3>3. j - k = i
      BY <1>2, <1>6, <3>2
    <3> QED
      BY <1>1, <1>6, <2>2, <3>3
  <2> QED
    BY <2>1, <2>2, ShowsOnly
<1> QED
  BY <1>5, <1>6 DEF S

-----------------------------------------------------------------------------
(* The calls of the network package, one after the other.                  *)

(* A call begins and ends in the step that says so.                        *)
LEMMA CallPhases ==
  ASSUME [Next]_vars
  PROVE  /\ phase' \in {"applying", "peering"} => phase' = phase \/ NetworkApply \/ ApplyWireGuard
         /\ phase \in {"applying", "peering"} =>
               NetworkStep \/ (UNCHANGED <<phase, network>>) \/ (phase' = "panicked" /\ UNCHANGED network)
         /\ phase = "panicked" => phase' = "panicked" /\ UNCHANGED <<host, pseudo, fault>>
         /\ NetworkStep => phase \in {"applying", "peering"}
         /\ NetworkApply => phase = "network"
         /\ ApplyWireGuard => phase = "overlay"
<1> USE DEF Goto, Fail
<1>1. CASE ReadOverride
  BY <1>1 DEF ReadOverride, NetworkStep, NetworkApply, ApplyWireGuard
<1>2. CASE MountPseudoFS
  BY <1>2 DEF MountPseudoFS, NetworkStep, NetworkApply, ApplyWireGuard
<1>3. CASE MountConfigShare
  BY <1>3 DEF MountConfigShare, NetworkStep, NetworkApply, ApplyWireGuard
<1>4. CASE LoadSpec
  <2>1. phase = "load" /\ (Fail \/ Goto("shares"))
    BY <1>4 DEF LoadSpec
  <2> QED
    BY <2>1 DEF NetworkStep, NetworkApply, ApplyWireGuard
<1>5. CASE MountShares
  BY <1>5 DEF MountShares, NetworkStep, NetworkApply, ApplyWireGuard
<1>6. CASE MountCubeFSShares
  BY <1>6 DEF MountCubeFSShares, NetworkStep, NetworkApply, ApplyWireGuard
<1>7. CASE EnrichContainers
  BY <1>7 DEF EnrichContainers, NetworkStep, NetworkApply, ApplyWireGuard
<1>8. CASE NetworkApply
  BY <1>8 DEF NetworkStep, NetworkApply, ApplyWireGuard
<1>9. CASE ApplyWireGuard
  BY <1>9 DEF NetworkStep, NetworkApply, ApplyWireGuard
<1>10. CASE NetworkStep
  BY <1>10 DEF NetworkStep, NetworkApply, ApplyWireGuard
<1>11. CASE PrepareBundles
  BY <1>11 DEF PrepareBundles, NetworkStep, NetworkApply, ApplyWireGuard
<1>12. CASE StartSupervisor
  BY <1>12 DEF StartSupervisor, NetworkStep, NetworkApply, ApplyWireGuard
<1>13. CASE Poweroff
  BY <1>13 DEF Poweroff, NetworkStep, NetworkApply, ApplyWireGuard
<1>14. CASE Trouble
  BY <1>14 DEF Trouble, NetworkStep, NetworkApply, ApplyWireGuard
<1>15. CASE RebootFails
  BY <1>15 DEF RebootFails, NetworkStep, NetworkApply, ApplyWireGuard
<1>16. CASE EarlySignal
  BY <1>16 DEF EarlySignal, NetworkStep, NetworkApply, ApplyWireGuard
<1>17. CASE UNCHANGED vars
  BY <1>17 DEF vars, network, loaded, mounts, NetworkStep, NetworkApply, ApplyWireGuard
<1> QED
  BY <1>1, <1>2, <1>3, <1>4, <1>5, <1>6, <1>7, <1>8, <1>9, <1>10, <1>11, <1>12, <1>13, <1>14,
     <1>15, <1>16, <1>17 DEF Next, RunStep

(* The overlay is that of the pod or of the file, which is seen as soon as *)
(* its share is mounted.                                                   *)
LEMMA OverlayAsked ==
  ASSUME Loaded, SharesMounted, phase \in AfterLoad \ {"shares"}, NothingHidden, Unset \notin host.offered
  PROVE  ConfigFile(host.wireguardJson) = Seen(host.wireguardJson)
BY SharesShown DEF ConfigFile, Seen

LEMMA NothingHiddenStays ==
  ASSUME host' = host, pseudo' = pseudo
  PROVE  UNCHANGED <<Asked, AskedOverlay, NothingBeneath, SharesApart, NothingHidden>>
<1>1. UNCHANGED <<Asked, AskedOverlay, NothingBeneath>>
  BY AskedStays DEF Asked, AskedOverlay, NothingBeneath
<1>2. UNCHANGED SharesApart
  BY <1>1 DEF SharesApart
<1> QED
  BY <1>1, <1>2 DEF NothingHidden

LEMMA NextTurn ==
  ASSUME BootInv, [Next]_vars
  PROVE  Turn'
<1>1. NetProofs!TypeOK /\ Turn /\ Loaded /\ SharesMounted /\ host \in Host /\ host' = host
  BY Frame DEF BootInv, Unloaded, NetProofs!Inv
<1>2. phase \in AfterLoad => pseudo' = pseudo
  BY Frame DEF MountPseudoFS, AfterLoad
<1>3. phase \in {"network", "applying", "overlay", "peering"} =>
        UNCHANGED <<Read, ReadOverlay, NothingHidden>>
  BY <1>1, <1>2, AskedStays, NothingHiddenStays DEF AfterLoad
<1>4. phase' \in BeforeLoad \cup AfterLoad \cup Stopped
  BY <1>1, Phases DEF Turn, BeforeLoad, AfterLoad, Stopped, Follows
<1>5. CASE UNCHANGED network
  <2>1. UNCHANGED <<pc, req, answers>>
    BY <1>5 DEF network
  <2>2. ASSUME phase' \in {"applying", "peering"}, phase' # phase
        PROVE  FALSE
    <3>1. CASE NetworkApply
      BY <2>1, <2>2, <3>1, <1>1 DEF NetworkApply, Goto, SameBegin, Net!Begin, NetProofs!TypeOK, Turn
    <3>2. CASE ApplyWireGuard
      BY <2>1, <2>2, <3>2, <1>1 DEF ApplyWireGuard, Goto, Fail, Net!Begin, NetProofs!TypeOK, Turn
    <3> QED
      BY <2>2, <3>1, <3>2, CallPhases
  <2>3. phase \in {"applying", "peering"} => phase' \in {phase, "panicked"}
    <3>1. NetworkStep => phase' = phase
      BY <1>1, <2>1, StepOutcome
    <3> QED
      BY <3>1, CallPhases
  <2>4. phase' \in BeforeLoad \cup {"shares", "cubefs", "enrich", "network", "applying"} =>
          phase \in BeforeLoad \cup {"shares", "cubefs", "enrich", "network", "applying"}
    BY <1>1, Phases DEF Follows, Turn, BeforeLoad, AfterLoad, Stopped
  <2>5. phase' \in {"overlay", "peering"} =>
          phase \in {"network", "applying", "overlay", "peering"}
    BY <1>1, Phases DEF Follows, Turn, BeforeLoad, AfterLoad, Stopped
  <2>6. phase = "panicked" => phase' = "panicked"
    BY CallPhases
  <2> QED
    BY <1>1, <1>3, <1>4, <2>1, <2>2, <2>3, <2>4, <2>5, <2>6 DEF Turn
<1>6. CASE NetworkApply /\ ~UNCHANGED network
  <2>1. phase = "network" /\ phase' = "applying" /\ Net!Begin(PID1, NetworkCall(spec.network))
    BY <1>6 DEF NetworkApply, Goto
  <2>2. pc'[PID1] # "idle" /\ req'[PID1] = NetworkCall(spec.network) /\ answers' = answers
    BY <1>1, <2>1 DEF Net!Begin, NetProofs!TypeOK
  <2>3. spec.network = Read'.network
    BY <1>1, <1>3, <2>1 DEF Loaded, AfterLoad, NoSpec
  <2> QED
    BY <1>1, <1>4, <2>1, <2>2, <2>3 DEF Turn
<1>7. CASE ApplyWireGuard /\ ~UNCHANGED network
  <2> DEFINE own == spec.wireguard # Unset
             wg == IF own THEN spec.wireguard ELSE ConfigFile(host.wireguardJson)
  <2>1. phase = "overlay" /\ phase' = "peering" /\ Net!Begin(PID1, OverlayCall(wg))
    BY <1>7 DEF ApplyWireGuard, Goto
  <2>2. NothingHidden => wg = ReadOverlay
    <3>1. spec.wireguard = Read.wireguard
      BY <1>1, <2>1 DEF Loaded, AfterLoad, NoSpec
    <3>2. Unset \notin host.offered
      BY <1>1, HostsAreSound DEF IsHost
    <3>3. NothingHidden => ConfigFile(host.wireguardJson) = Seen(host.wireguardJson)
      BY <1>1, <2>1, <3>2, OverlayAsked DEF AfterLoad
    <3> QED
      BY <3>1, <3>3 DEF ReadOverlay
  <2> HIDE DEF wg
  <2>3. pc'[PID1] # "idle" /\ req'[PID1] = OverlayCall(wg) /\ answers' = answers
    BY <1>1, <2>1 DEF Net!Begin, NetProofs!TypeOK, OverlayCall
  <2>4. NothingHidden' => wg = ReadOverlay'
    BY <1>3, <2>1, <2>2
  <2>5. \A a \in answers' : a.req.kind = "network"
    BY <1>1, <2>1, <2>3 DEF Turn
  <2> QED
    BY <1>4, <2>1, <2>3, <2>4, <2>5 DEF Turn, BeforeLoad
<1>8. CASE NetworkStep
  <2>1. phase \in {"applying", "peering"} /\ UNCHANGED req
    BY <1>1, <1>8, CallPhases, StepOutcome
  <2>2. CASE pc'[PID1] # "idle" /\ answers' = answers /\ phase' = phase
    BY <1>1, <1>3, <1>4, <2>1, <2>2 DEF Turn
  <2>3. CASE \E result : /\ pc'[PID1] = "idle"
                         /\ answers' = answers \cup {[req |-> req[PID1], result |-> result, past |-> past[PID1]]}
                         /\ phase' \in {"failed", IF phase = "applying" THEN "overlay" ELSE "bundles"}
    <3>1. PICK result : /\ pc'[PID1] = "idle"
                        /\ answers' = answers \cup {[req |-> req[PID1], result |-> result, past |-> past[PID1]]}
                        /\ phase' \in {"failed", IF phase = "applying" THEN "overlay" ELSE "bundles"}
      BY <2>3
    <3>2. phase = "applying" => req[PID1].kind = "network" /\ answers = {}
      BY <1>1 DEF Turn, NetworkCall
    <3>3. phase' = "overlay" => \A a \in answers' : a.req.kind = "network"
      BY <2>1, <3>1, <3>2
    <3> QED
      BY <1>4, <2>1, <3>1, <3>3 DEF Turn, BeforeLoad
  <2> QED
    BY <1>1, <1>8, <2>1, <2>2, <2>3, StepOutcome DEF Goto, Fail
<1> QED
  BY <1>5, <1>6, <1>7, <1>8, Frame

(* So that what is proved about the package holds at boot.                 *)
LEMMA NextNetworkInv ==
  ASSUME BootInv, [Next]_vars
  PROVE  NetProofs!Inv'
BY NetworkNext, NetworkAssumptions, NetProofs!NextInv DEF BootInv

-----------------------------------------------------------------------------
(* The action that each step of run() belongs to.                          *)
LEMMA Advances ==
  ASSUME [Next]_vars, phase' \notin Stopped, <<phase, n>>' # <<phase, n>>
  PROVE  CASE phase = "start"    -> ReadOverride
           [] phase = "pseudofs" -> MountPseudoFS
           [] phase = "config"   -> MountConfigShare
           [] phase = "load"     -> LoadSpec
           [] phase = "shares"   -> MountShares
           [] phase = "cubefs"   -> MountCubeFSShares
           [] phase = "enrich"   -> EnrichContainers
           [] phase = "network"  -> NetworkApply
           [] phase = "overlay"  -> ApplyWireGuard
           [] phase = "bundles"  -> PrepareBundles
           [] phase = "notify"   -> StartSupervisor
           [] OTHER              -> NetworkStep
<1> USE DEF Goto, Fail, Stopped
<1>1. CASE ReadOverride
  <2>1. phase = "start"
    BY <1>1 DEF ReadOverride
  <2> QED
    BY <1>1, <2>1
<1>2. CASE MountPseudoFS
  <2>1. phase = "pseudofs"
    BY <1>2 DEF MountPseudoFS
  <2> QED
    BY <1>2, <2>1
<1>3. CASE MountConfigShare
  <2>1. phase = "config"
    BY <1>3 DEF MountConfigShare
  <2> QED
    BY <1>3, <2>1
<1>4. CASE LoadSpec
  <2>1. phase = "load"
    BY <1>4 DEF LoadSpec
  <2> QED
    BY <1>4, <2>1
<1>5. CASE MountShares
  <2>1. phase = "shares"
    BY <1>5 DEF MountShares
  <2> QED
    BY <1>5, <2>1
<1>6. CASE MountCubeFSShares
  <2>1. phase = "cubefs"
    BY <1>6 DEF MountCubeFSShares
  <2> QED
    BY <1>6, <2>1
<1>7. CASE EnrichContainers
  <2>1. phase = "enrich"
    BY <1>7 DEF EnrichContainers
  <2> QED
    BY <1>7, <2>1
<1>8. CASE NetworkApply
  <2>1. phase = "network"
    BY <1>8 DEF NetworkApply
  <2> QED
    BY <1>8, <2>1
<1>9. CASE ApplyWireGuard
  <2>1. phase = "overlay"
    BY <1>9 DEF ApplyWireGuard
  <2> QED
    BY <1>9, <2>1
<1>10. CASE NetworkStep
  <2>1. phase \in {"applying", "peering"}
    BY <1>10 DEF NetworkStep
  <2> QED
    BY <1>10, <2>1
<1>11. CASE PrepareBundles
  <2>1. phase = "bundles"
    BY <1>11 DEF PrepareBundles
  <2> QED
    BY <1>11, <2>1
<1>12. CASE StartSupervisor
  <2>1. phase = "notify"
    BY <1>12 DEF StartSupervisor
  <2> QED
    BY <1>12, <2>1
<1>13. CASE Poweroff
  BY <1>13 DEF Poweroff
<1>14. CASE Trouble
  BY <1>14 DEF Trouble
<1>15. CASE RebootFails
  BY <1>15 DEF RebootFails
<1>16. CASE EarlySignal
  BY <1>16 DEF EarlySignal
<1>17. ~UNCHANGED vars
  BY DEF vars
<1> QED
  BY <1>1, <1>2, <1>3, <1>4, <1>5, <1>6, <1>7, <1>8, <1>9, <1>10, <1>11, <1>12, <1>13, <1>14,
     <1>15, <1>16, <1>17 DEF Next, RunStep

(* And the phase in which each variable can change.                        *)
LEMMA ChangesIn ==
  ASSUME [Next]_vars
  PROVE  /\ phase # "pseudofs" => pseudo' = pseudo
         /\ phase \notin {"load", "enrich"} => spec' = spec
         /\ phase \notin {"config", "shares"} => mounted' = mounted
         /\ phase # "cubefs" => fuse' = fuse
         /\ phase # "start" => override' = override
         /\ phase \notin {"network", "applying", "overlay", "peering"} => UNCHANGED network
         /\ phase # "bundles" => bundles' = bundles
         /\ phase' \notin Stopped \/ mounted' = mounted
<1> USE DEF Goto, Fail, Stopped
<1>1. /\ MountPseudoFS => phase = "pseudofs"
      /\ LoadSpec => phase = "load"
      /\ EnrichContainers => phase = "enrich"
      /\ MountConfigShare => phase = "config"
      /\ MountShares => phase = "shares"
      /\ MountCubeFSShares => phase = "cubefs"
      /\ ReadOverride => phase = "start"
      /\ NetworkApply => phase = "network"
      /\ ApplyWireGuard => phase = "overlay"
      /\ NetworkStep => phase \in {"applying", "peering"}
      /\ PrepareBundles => phase = "bundles"
  BY DEF MountPseudoFS, LoadSpec, EnrichContainers, MountConfigShare, MountShares,
     MountCubeFSShares, ReadOverride, NetworkApply, ApplyWireGuard, NetworkStep, PrepareBundles
<1> QED
  BY <1>1, Frame DEF MountConfigShare, MountShares

LEMMA NextRanges ==
  ASSUME BootInv, [Next]_vars
  PROVE  Ranges'
<1>1. n' \in Nat \ {0}
  BY Phases DEF BootInv, Ranges
<1>2. phase' \in {"config", "load", "notify", "supervise"} => n' = 1
  BY Phases DEF BootInv, Ranges, Turn, Follows, BeforeLoad, AfterLoad, Stopped
<1>3. pseudo' \subseteq {"proc", "run"}
  BY Frame DEF BootInv, Ranges, MountPseudoFS
<1>4. fault' \subseteq {"call", "signal", "reboot"}
  <2>1. CASE NetworkStep
    BY <2>1, StepOutcome DEF BootInv, Ranges, NetProofs!Inv
  <2> QED
    BY <2>1, Frame DEF BootInv, Ranges, MountPseudoFS, Trouble, RebootFails, EarlySignal
<1> QED
  BY <1>1, <1>2, <1>3, <1>4 DEF Ranges

-----------------------------------------------------------------------------
(* Before there is a pod.                                                  *)
LEMMA InitNetworkAtBoot ==
  ASSUME Init
  PROVE  Net!Init /\ NetProofs!Init
<1>1. ToCome = Requests(host) /\ host \in Host
  BY DEF Init, ToCome
<1>2. ToCome \in {Requests(h) : h \in Host}
  BY <1>1
<1>3. Net!Init
  BY <1>2 DEF Init, Net!Init
<1>4. NetProofs!Init
  BY <1>2 DEF Init, NetProofs!Init
<1> QED
  BY <1>3, <1>4

LEMMA InitBootInv == Init => BootInv
<1> SUFFICES ASSUME Init
             PROVE  BootInv
  OBVIOUS
<1>1. NetProofs!Inv
  BY InitNetworkAtBoot, NetworkAssumptions, NetProofs!InitInv
<1>2. Turn /\ Loaded /\ SharesMounted /\ ClientsMounted /\ Bundled
  BY DEF Init, Turn, Loaded, SharesMounted, ClientsMounted, Bundled, BeforeLoad, AfterLoad
<1>3. Unloaded /\ Ranges
  BY DEF Init, Unloaded, Ranges
<1> QED
  BY <1>1, <1>2, <1>3 DEF BootInv

LEMMA NextUnloaded ==
  ASSUME BootInv, [Next]_vars
  PROVE  Unloaded'
<1>1. Turn /\ Unloaded /\ host' = host /\ host \in Host
  BY Frame DEF BootInv, Unloaded
<1>2. ASSUME phase' \in (BeforeLoad \cup AfterLoad) \ {"start", "pseudofs"}
      PROVE  pseudo' \cap {"proc", "run"} # {}
  <2>1. CASE MountPseudoFS
    BY <2>1 DEF MountPseudoFS
  <2>2. CASE pseudo' = pseudo
    <3>1. phase \in (BeforeLoad \cup AfterLoad) \ {"start", "pseudofs"} \/ (phase = "pseudofs" /\ phase' = "config")
      BY <1>1, <1>2, Phases DEF Turn, Follows, BeforeLoad, AfterLoad, Stopped
    <3>2. CASE phase = "pseudofs" /\ phase' = "config"
      BY <3>2, Advances DEF MountPseudoFS, Stopped
    <3> QED
      BY <1>1, <2>2, <3>1, <3>2 DEF Unloaded
  <2> QED
    BY <2>1, <2>2, Frame
<1>3. ASSUME phase' \in {"start", "pseudofs", "config"}
      PROVE  mounted' = <<>>
  <2>1. phase \in {"start", "pseudofs", "config"}
    BY <1>1, <1>3, Phases DEF Turn, Follows, BeforeLoad, AfterLoad, Stopped
  <2>2. mounted' = mounted
    BY <1>3, Frame DEF MountConfigShare, MountShares, Goto, Fail
  <2> QED
    BY <1>1, <2>1, <2>2 DEF Unloaded
<1>4. ASSUME phase' = "load"
      PROVE  /\ Cmdline'.config \in host'.offered \cup {Unset}
             /\ mounted' = IF Cmdline'.config = Unset THEN <<>>
                           ELSE <<[tag |-> Cmdline'.config, path |-> CfgDir]>>
  <2>1. phase \in {"config", "load"}
    BY <1>1, <1>4, Phases DEF Turn, Follows, BeforeLoad, AfterLoad, Stopped
  <2>2. Cmdline' = Cmdline
    BY <1>1, <2>1, AskedStays, ChangesIn
  <2>3. CASE phase = "load"
    BY <1>1, <2>2, <2>3, ChangesIn DEF Unloaded
  <2>4. CASE phase = "config"
    <3>1. MountConfigShare /\ mounted = <<>>
      BY <1>1, <1>4, <2>4, Advances DEF Unloaded, Stopped
    <3>2. Append(<<>>, [tag |-> Cmdline.config, path |-> CfgDir]) = <<[tag |-> Cmdline.config, path |-> CfgDir]>>
      OBVIOUS
    <3> QED
      BY <1>1, <1>4, <2>2, <3>1, <3>2 DEF MountConfigShare, Fail
  <2> QED
    BY <2>1, <2>3, <2>4
<1> QED
  BY <1>1, <1>2, <1>3, <1>4 DEF Unloaded

-----------------------------------------------------------------------------
(* The pod.                                                                *)

(* What the command line says is a pod.                                    *)
LEMMA SynthIsPod ==
  ASSUME NEW cmdline, IsList(cmdline.mounts), IsList(cmdline.cubefs)
  PROVE  IsPod(Synth(cmdline))
<1> DEFINE p == Synth(cmdline)
<1>1. IsList(Mounts(cmdline)) /\ IsList(CubeFS(cmdline))
  BY KeptIsList DEF Mounts, CubeFS
<1>2. IsList(SynthShareMounts(cmdline))
  <2>1. DOMAIN SynthShareMounts(cmdline) = DOMAIN CubeFS(cmdline)
    BY DEF SynthShareMounts
  <2>2. SynthShareMounts(cmdline) = [i \in DOMAIN SynthShareMounts(cmdline) |-> SynthShareMounts(cmdline)[i]]
    BY DEF SynthShareMounts
  <2> QED
    BY <1>1, <2>1, <2>2, MapIsList
<1>3. IsList(SynthShares(cmdline))
  <2> DEFINE f == [i \in DOMAIN Mounts(cmdline) |->
                     [tag |-> Mounts(cmdline)[i][2], path |-> Mounts(cmdline)[i][3]]]
             first == [tag |-> cmdline.rootfs, path |-> RootfsDir("main")]
  <2>1. DOMAIN f = DOMAIN Mounts(cmdline) /\ f = [i \in DOMAIN f |-> f[i]]
    OBVIOUS
  <2>2. SynthShares(cmdline) = <<first>> \o f
    BY DEF SynthShares
  <2> HIDE DEF f, first
  <2>3. IsList(f)
    BY <1>1, <2>1, MapIsList
  <2>4. IsList(<<first>>)
    <3>1. <<first>> \in Seq({first})
      OBVIOUS
    <3> QED
      BY <3>1, ListsAreSequences
  <2> QED
    BY <2>2, <2>3, <2>4, ConcatIsList
<1>4. p.containers = <<p.containers[1]>> /\ DOMAIN p.containers[1] = ContainerFields
  BY DEF Synth, ContainerFields
<1>5. /\ IsList(p.containers)
      /\ \A i \in DOMAIN p.containers :
           DOMAIN p.containers[i] = ContainerFields /\ IsList(p.containers[i].mounts)
  <2> DEFINE c == p.containers[1]
             s == [i \in DOMAIN Mounts(cmdline) |->
                     [src |-> Mounts(cmdline)[i][3], dst |-> Mounts(cmdline)[i][3]]]
             t == [i \in DOMAIN CubeFS(cmdline) |->
                     [src |-> CubeFS(cmdline)[i][3], dst |-> CubeFS(cmdline)[i][3]]]
  <2>1. p.containers = <<c>> /\ DOMAIN c = ContainerFields /\ c.mounts = s \o t
    BY <1>4 DEF Synth, SynthMounts
  <2>2. /\ DOMAIN s = DOMAIN Mounts(cmdline) /\ s = [i \in DOMAIN s |-> s[i]]
        /\ DOMAIN t = DOMAIN CubeFS(cmdline) /\ t = [i \in DOMAIN t |-> t[i]]
    OBVIOUS
  <2> HIDE DEF s, t
  <2>3. IsList(s \o t)
    BY <1>1, <2>2, MapIsList, ConcatIsList
  <2> HIDE DEF c
  <2>4. <<c>> \in Seq({c}) /\ DOMAIN <<c>> = {1} /\ <<c>>[1] = c
    OBVIOUS
  <2>5. IsList(<<c>>)
    BY <2>4, ListsAreSequences
  <2> QED
    BY <2>1, <2>3, <2>4, <2>5
<1>6. DOMAIN p = DOMAIN NoSpec /\ p.shares = SynthShares(cmdline) /\ p.shareMounts = SynthShareMounts(cmdline)
  BY DEF Synth, NoSpec
<1> HIDE DEF p
<1>7. IsPod(p)
  BY <1>2, <1>3, <1>5, <1>6 DEF IsPod
<1> QED
  BY <1>7 DEF p

(* The configuration is read from its share, if there is one.              *)
LEMMA ConfigShown ==
  ASSUME Unloaded, phase = "load"
  PROVE  Shows(CfgDir) = Cmdline.config
<1> DEFINE c == [tag |-> Cmdline.config, path |-> CfgDir]
<1>1. mounted = IF Cmdline.config = Unset THEN <<>> ELSE <<c>>
  BY DEF Unloaded
<1>2. c.path = CfgDir /\ c.tag = Cmdline.config
  OBVIOUS
<1> HIDE DEF c
<1>3. CASE Cmdline.config = Unset
  <2>1. \A i \in DOMAIN mounted : mounted[i].path # CfgDir
    BY <1>1, <1>3
  <2> QED
    BY <1>3, <2>1, ShowsNothing
<1>4. CASE Cmdline.config # Unset
  <2>1. DOMAIN mounted = {1} /\ mounted[1] = c
    BY <1>1, <1>4
  <2> QED
    BY <1>2, <2>1, ShowsOnly
<1> QED
  BY <1>3, <1>4

(* The pod that is loaded is the one the host asks for.                    *)
LEMMA LoadAsked ==
  ASSUME BootInv, LoadSpec, phase' = "shares"
  PROVE  /\ "proc" \in pseudo
         /\ IF ReadFile = Absent THEN host.cmdline.rootfs # Unset
           ELSE ReadFile # Broken /\ ValidSpec(ReadFile)
         /\ spec' = Read /\ IsPod(Read)
<1> DEFINE file == ConfigFile(host.podJson)
<1>1. /\ phase = "load" /\ Unloaded /\ host \in Host /\ pseudo \cap {"proc", "run"} # {}
      /\ Cmdline.config \in host.offered \cup {Unset}
  BY DEF BootInv, LoadSpec, Unloaded, BeforeLoad
<1>2. Shows(CfgDir) = Cmdline.config
  BY <1>1, ConfigShown
<1>3. IF file = Absent THEN Cmdline.rootfs # Unset /\ spec' = Synth(Cmdline)
      ELSE file # Broken /\ ValidSpec(file) /\ spec' = file
  <2>1. CASE file = Absent
    BY <2>1 DEF LoadSpec, Fail
  <2>2. CASE file # Absent /\ file = Broken
    BY <2>2 DEF LoadSpec, Fail
  <2>3. CASE file # Absent /\ file # Broken
    BY <2>3 DEF LoadSpec, Fail
  <2> QED
    BY <2>1, <2>2, <2>3
<1>4. "proc" \in pseudo
  <2> SUFFICES ASSUME "proc" \notin pseudo
               PROVE  FALSE
    OBVIOUS
  <2>1. Cmdline = NoCmdline /\ "run" \in pseudo
    BY <1>1 DEF Cmdline
  <2>2. file = Absent
    BY <1>2, <2>1 DEF ConfigFile, InitramfsShown, NoCmdline
  <2> QED
    BY <1>3, <2>1, <2>2 DEF NoCmdline
<1>5. Cmdline = host.cmdline /\ file = ReadFile
  BY <1>2, <1>4 DEF Cmdline, ConfigFile, ReadFile, Seen
<1>6. spec' = Read
  BY <1>3, <1>5, FilesAreDistinct DEF Read
<1>7. IsPod(Read)
  <2>1. IsHost(host)
    BY <1>1, HostsAreSound
  <2>2. CASE ReadFile = Absent
    <3>1. Read = Synth(host.cmdline)
      BY <2>2, FilesAreDistinct DEF Read
    <3> QED
      BY <2>1, <3>1, SynthIsPod DEF IsHost
  <2>3. CASE ReadFile # Absent
    <3>1. ReadFile = host.podJson /\ ReadFile \notin NoFile /\ Read = ReadFile
      BY <1>3, <1>5, <2>3 DEF ReadFile, Seen, NoFile, Read
    <3> QED
      BY <2>1, <3>1 DEF IsHost
  <2> QED
    BY <2>2, <2>3
<1> QED
  BY <1>3, <1>4, <1>5, <1>6, <1>7

(* Completing a container leaves the pod what it is.                       *)
LEMMA EnrichKeeps ==
  ASSUME BootInv, EnrichContainers, spec' # spec
  PROVE  /\ n \in DOMAIN spec.containers
         /\ IsPod(spec')
         /\ \A field \in DOMAIN NoSpec \ {"containers"} : spec'[field] = spec[field]
         /\ Len(spec'.containers) = Len(spec.containers)
         /\ \A i \in DOMAIN spec.containers :
              /\ i # n => spec'.containers[i] = spec.containers[i]
              /\ Completes(spec'.containers[i], spec.containers[i])
<1> DEFINE L == spec.containers
           c == L[n]
           image == ImageAt(ResolveRootfs(c))
           e == EnrichFromImage(c, image)
           M == [L EXCEPT ![n] = e]
<1>1. phase = "enrich" /\ ~(n > Len(L)) /\ spec' = [spec EXCEPT !.containers[n] = e]
  BY DEF EnrichContainers
<1>2. IsPod(spec) /\ n \in Nat \ {0}
  BY <1>1 DEF BootInv, Loaded, AfterLoad, Ranges
<1>3. Len(L) \in Nat /\ DOMAIN L = 1..Len(L) /\ DOMAIN spec = DOMAIN NoSpec /\ L = [i \in DOMAIN L |-> L[i]]
  BY <1>2 DEF IsPod, IsList
<1>4. n \in DOMAIN L
  BY <1>1, <1>2, <1>3
<1>5. spec' = [spec EXCEPT !.containers = M]
  BY <1>1
<1>6. DOMAIN c = ContainerFields
  BY <1>2, <1>4 DEF IsPod
<1>7. DOMAIN e = ContainerFields /\ Completes(e, c)
  BY <1>6 DEF EnrichFromImage, Completes, ContainerFields
<1> HIDE DEF e
<1>8. DOMAIN M = DOMAIN L /\ M = [i \in DOMAIN M |-> M[i]] /\ M[n] = e
      /\ \A i \in DOMAIN L : i # n => M[i] = L[i]
  BY <1>3, <1>4
<1>9. IsList(M)
  BY <1>2, <1>8, MapIsList DEF IsPod
<1> HIDE DEF M, c
<1>10. Len(M) = Len(L)
  BY <1>3, <1>8, <1>9 DEF IsList
<1>11. DOMAIN spec' = DOMAIN NoSpec /\ spec'.containers = M
       /\ \A field \in DOMAIN NoSpec \ {"containers"} : spec'[field] = spec[field]
  BY <1>3, <1>5 DEF NoSpec
<1>12. \A i \in DOMAIN M : DOMAIN M[i] = ContainerFields /\ IsList(M[i].mounts)
  BY <1>2, <1>4, <1>7, <1>8 DEF IsPod, Completes, ContainerFields, c
<1>13. IsPod(spec')
  BY <1>2, <1>9, <1>11, <1>12 DEF IsPod, NoSpec
<1>14. \A i \in DOMAIN L : Completes(M[i], L[i])
  BY <1>7, <1>8 DEF Completes, c
<1> QED
  BY <1>4, <1>8, <1>10, <1>11, <1>13, <1>14

LEMMA NextLoaded ==
  ASSUME BootInv, [Next]_vars
  PROVE  Loaded'
<1> SUFFICES ASSUME phase' \in AfterLoad
             PROVE  Loaded'
  BY DEF Loaded
<1>1. Turn /\ Loaded /\ host' = host
  BY Frame DEF BootInv
<1>2. phase \in AfterLoad \cup {"load"}
  BY <1>1, Phases DEF Turn, Follows, BeforeLoad, AfterLoad, Stopped
<1>3. UNCHANGED <<pseudo, ReadFile, Read>>
  BY <1>1, <1>2, ChangesIn, AskedStays DEF AfterLoad
<1>4. CASE phase = "load"
  <2>1. phase' = "shares"
    BY <1>4, Phases DEF Follows, AfterLoad, Stopped
  <2>2. LoadSpec
    BY <1>4, <2>1, Advances DEF Stopped
  <2>3. \A i \in DOMAIN Read.containers : Completes(Read.containers[i], Read.containers[i])
    BY DEF Completes
  <2> QED
    BY <1>1, <1>3, <2>1, <2>2, <2>3, LoadAsked DEF Loaded
<1>5. CASE phase \in AfterLoad /\ spec' = spec
  BY <1>1, <1>3, <1>5 DEF Loaded
<1>6. CASE phase \in AfterLoad /\ EnrichContainers /\ spec' # spec
  <2>1. /\ Len(spec'.containers) = Len(Read'.containers)
        /\ \A field \in DOMAIN NoSpec \ {"containers"} : spec'[field] = Read'[field]
    BY <1>1, <1>3, <1>6, EnrichKeeps DEF Loaded
  <2>2. ASSUME NEW i \in DOMAIN spec'.containers
        PROVE  Completes(spec'.containers[i], Read'.containers[i])
    <3>1. DOMAIN spec.containers = 1..Len(spec.containers) /\ DOMAIN spec'.containers = 1..Len(spec'.containers)
      BY <1>1, <1>6, EnrichKeeps DEF Loaded, IsPod, IsList
    <3>2. i \in DOMAIN spec.containers
      BY <1>6, <3>1, EnrichKeeps
    <3>3. Completes(spec'.containers[i], spec.containers[i]) /\ Completes(spec.containers[i], Read.containers[i])
      BY <1>1, <1>6, <3>2, EnrichKeeps DEF Loaded
    <3> QED
      BY <1>3, <3>3 DEF Completes
  <2> QED
    BY <1>1, <1>3, <1>6, <2>1, <2>2, EnrichKeeps DEF Loaded
<1>7. spec' = spec \/ EnrichContainers \/ phase = "load"
  BY Frame DEF LoadSpec
<1> QED
  BY <1>2, <1>4, <1>5, <1>6, <1>7

-----------------------------------------------------------------------------
(* The shares.                                                             *)

LEMMA NextSharesMounted ==
  ASSUME BootInv, [Next]_vars
  PROVE  SharesMounted'
<1> SUFFICES ASSUME phase' \in AfterLoad
             PROVE  SharesMounted'
  BY DEF SharesMounted
<1> DEFINE S == Read.shares
           On(share) == share.path # Unset /\ share.tag \in host.offered
<1>1. Turn /\ SharesMounted /\ Unloaded /\ host' = host /\ Loaded'
  BY NextLoaded, Frame DEF BootInv
<1>2. phase \in AfterLoad \cup {"load"}
  BY <1>1, Phases DEF Turn, Follows, BeforeLoad, AfterLoad, Stopped
<1>3. UNCHANGED <<pseudo, Read, ConfigShare>>
  BY <1>1, <1>2, ChangesIn, AskedStays DEF AfterLoad
<1>4. S \in Seq(Range(S)) /\ Len(S) \in Nat
  BY <1>1, <1>3 DEF Loaded, IsPod, IsList
<1>5. ConfigShare \in Seq({[tag |-> host.cmdline.config, path |-> CfgDir]})
  BY DEF ConfigShare
<1> HIDE DEF S
<1>6. CASE phase = "load"
  <2>1. phase' = "shares" /\ n' = 1
    BY <1>6, Phases DEF Follows, AfterLoad, Stopped
  <2>2. LoadSpec
    BY <1>6, <2>1, Advances DEF Stopped
  <2>3. "proc" \in pseudo /\ mounted' = mounted
    BY <1>6, <2>1, <2>2, LoadAsked, ChangesIn
  <2>4. mounted = ConfigShare /\ host.cmdline.config \in host.offered \cup {Unset}
    BY <1>1, <1>6, <2>3 DEF Unloaded, Cmdline, ConfigShare
  <2>5. SubSeq(S, 1, 0) = <<>>
    BY <1>4
  <2>6. ConfigShare \o <<>> = ConfigShare
    BY <1>5
  <2>7. mounted' = ConfigShare' \o SubSeq(S, 1, 0)
    BY <1>3, <2>3, <2>4, <2>5, <2>6
  <2>8. 1 - 1 = 0 /\ 0 \in 0..Len(S) /\ \A i \in 1..0 : On(S[i])
    BY <1>4
  <2> QED
    BY <1>1, <1>3, <2>1, <2>4, <2>7, <2>8 DEF SharesMounted, S
<1>7. CASE phase = "shares"
  <2>1. /\ n - 1 \in 0..Len(S) /\ host.cmdline.config \in host.offered \cup {Unset}
        /\ \A i \in 1..(n - 1) : On(S[i])
        /\ mounted = ConfigShare \o SubSeq(S, 1, n - 1)
    BY <1>1, <1>7 DEF SharesMounted, AfterLoad, S
  <2>2. n \in Nat \ {0} /\ spec.shares = S
    BY <1>7 DEF BootInv, Ranges, Loaded, AfterLoad, NoSpec, S
  <2>3. CASE UNCHANGED <<phase, n>>
    <3>1. mounted' = mounted
      BY <1>7, <2>2, <2>3, Frame DEF MountConfigShare, MountShares, Goto, Fail
    <3> QED
      BY <1>1, <1>3, <1>7, <2>3, <3>1 DEF SharesMounted
  <2>4. CASE ~UNCHANGED <<phase, n>>
    <3>1. MountShares
      BY <1>7, <2>4, Advances DEF AfterLoad, Stopped
    <3>2. CASE n > Len(S)
      <4>1. phase' = "cubefs" /\ mounted' = mounted /\ n - 1 = Len(S)
        BY <1>4, <2>1, <2>2, <3>1, <3>2 DEF MountShares, Goto
      <4>2. Len(S) \in 0..Len(S) /\ \A i \in 1..Len(S) : On(S[i])
        BY <1>4, <2>1, <4>1
      <4>3. mounted' = ConfigShare' \o SubSeq(S, 1, Len(S))
        BY <1>3, <2>1, <4>1
      <4> QED
        BY <1>1, <1>3, <2>1, <4>1, <4>2, <4>3 DEF SharesMounted, S
    <3>3. CASE ~(n > Len(S))
      <4>1. /\ n' = n + 1 /\ phase' = "shares" /\ On(S[n])
            /\ mounted' = Append(mounted, S[n])
        BY <1>7, <2>2, <2>4, <3>1, <3>3 DEF MountShares, Fail, AfterLoad
      <4>2. n \in 1..Len(S) /\ n \in 0..Len(S)
        BY <1>4, <2>2, <3>3
      <4>3. Append(ConfigShare \o SubSeq(S, 1, n - 1), S[n]) = ConfigShare \o SubSeq(S, 1, n)
        <5> DEFINE c == ConfigShare
                   T == SubSeq(S, 1, n - 1)
                   x == S[n]
                   D == Range(S)
                   A == {[tag |-> host.cmdline.config, path |-> CfgDir]}
        <5>1. S \in Seq(D) /\ c \in Seq(A)
          BY <1>4, <1>5
        <5> HIDE DEF c, D, A
        <5>2. SubSeq(S, 1, n) = Append(T, x) /\ T \in Seq(D) /\ x \in D
          BY <4>2, <5>1
        <5> HIDE DEF T, x
        <5>3. c \in Seq(A \cup D) /\ T \in Seq(A \cup D) /\ x \in A \cup D
          BY <5>1, <5>2
        <5>4. Append(c \o T, x) = c \o Append(T, x)
          <6> DEFINE l == Append(c \o T, x)
                     r == c \o Append(T, x)
          <6>1. l \in Seq(A \cup D) /\ r \in Seq(A \cup D) /\ Len(l) = Len(r)
            BY <5>3
          <6>2. \A i \in 1..Len(l) : l[i] = r[i]
            BY <5>3
          <6> HIDE DEF l, r
          <6>3. l = r
            BY <6>1, <6>2
          <6> QED
            BY <6>3 DEF l, r
        <5> QED
          BY <5>2, <5>4 DEF c, T, x
      <4>4. mounted' = ConfigShare' \o SubSeq(S, 1, (n + 1) - 1)
        <5>1. (n + 1) - 1 = n
          BY <2>2
        <5> QED
          BY <1>3, <2>1, <4>1, <4>3, <5>1
      <4>5. (n + 1) - 1 \in 0..Len(S) /\ \A i \in 1..((n + 1) - 1) : On(S[i])
        BY <1>4, <2>1, <2>2, <4>1, <4>2
      <4> QED
        BY <1>1, <1>3, <2>1, <4>1, <4>4, <4>5 DEF SharesMounted, S
    <3> QED
      BY <3>2, <3>3
  <2> QED
    BY <2>3, <2>4
<1>8. CASE phase \in AfterLoad \ {"shares"}
  <2>1. phase' # "shares" /\ mounted' = mounted
    BY <1>8, Phases, ChangesIn DEF Follows, AfterLoad, Stopped
  <2> QED
    BY <1>1, <1>3, <1>8, <2>1 DEF SharesMounted
<1> QED
  BY <1>2, <1>6, <1>7, <1>8

(* A path shows what it did while no share is mounted.                     *)
LEMMA ShowsStays ==
  ASSUME mounted' = mounted
  PROVE  \A path : Shows(path)' = Shows(path)
BY DEF Shows

(* A share that is to be mounted at boot is a CubeFS share.                *)
LEMMA MountIsCubeFS ==
  ASSUME Loaded, phase \in AfterLoad, NEW i \in DOMAIN Read.shareMounts,
         Read.shareMounts[i].action = "mount"
  PROVE  EffectiveBackend(Read.shareMounts[i]) = "cubefs"
<1>1. CASE ReadFile = Absent
  <2>1. Read.shareMounts = SynthShareMounts(host.cmdline)
    BY <1>1, FilesAreDistinct DEF Read, Synth
  <2>2. Read.shareMounts[i].backend = "cubefs"
    BY <2>1 DEF SynthShareMounts
  <2> QED
    BY <2>2 DEF EffectiveBackend
<1>2. CASE ReadFile # Absent
  <2>1. Read = ReadFile /\ ValidSpec(ReadFile)
    BY <1>2 DEF Read, Loaded
  <2>2. ValidShareMount(Read.shareMounts[i])
    BY <2>1 DEF ValidSpec
  <2> QED
    BY <2>2 DEF ValidShareMount
<1> QED
  BY <1>1, <1>2

LEMMA NextClientsMounted ==
  ASSUME BootInv, [Next]_vars
  PROVE  ClientsMounted'
<1> SUFFICES ASSUME phase' \in AfterLoad \ {"shares"}
             PROVE  ClientsMounted'
  BY DEF ClientsMounted
<1> DEFINE V == Read.shareMounts
           Done(m) == m.action = "mount" => m.path \in fuse \/ Shows(m.path) # Unset
           Now(m) == m.action = "mount" => m.path \in fuse' \/ Shows(m.path) # Unset
<1>1. Turn /\ ClientsMounted /\ SharesMounted /\ host' = host /\ Loaded'
  BY NextLoaded, Frame DEF BootInv
<1>2. phase \in AfterLoad
  BY <1>1, Phases DEF Turn, Follows, BeforeLoad, AfterLoad, Stopped
<1>3. UNCHANGED <<pseudo, Read>>
  BY <1>1, <1>2, ChangesIn, AskedStays DEF AfterLoad
<1>4. V \in Seq(Range(V)) /\ Len(V) \in Nat
  BY <1>1, <1>3 DEF Loaded, IsPod, IsList
<1>5. mounted' = mounted
  BY <1>2, Phases, Frame DEF AfterLoad, MountConfigShare, MountShares, Goto, Fail
<1>6. fuse \subseteq fuse'
  BY Frame DEF MountCubeFSShares
<1>7. \A m : (Done(m) => Now(m)) /\ (Now(m) => Done(m)')
  BY <1>5, <1>6 DEF Shows
<1>8. CASE phase = "shares"
  <2>1. phase' = "cubefs" /\ n' = 1
    BY <1>8, Phases DEF Follows, AfterLoad, Stopped
  <2>2. 1 - 1 = 0 /\ 0 \in 0..Len(V) /\ 1..0 = {}
    BY <1>4
  <2> QED
    BY <1>3, <2>1, <2>2 DEF ClientsMounted
<1>9. CASE phase = "cubefs"
  <2>1. n - 1 \in 0..Len(V) /\ \A i \in 1..(n - 1) : Done(V[i])
    BY <1>1, <1>9 DEF ClientsMounted, AfterLoad
  <2>2. n \in Nat \ {0} /\ spec.shareMounts = V
    BY <1>9 DEF BootInv, Ranges, Loaded, AfterLoad, NoSpec
  <2>3. CASE UNCHANGED <<phase, n>>
    <3> HIDE DEF Done, Now
    <3>1. \A i \in 1..(n - 1) : Done(V[i])'
      BY <1>3, <1>7, <2>1
    <3> QED
      BY <1>3, <1>9, <2>1, <2>3, <3>1 DEF ClientsMounted, Done
  <2>4. CASE ~UNCHANGED <<phase, n>>
    <3>1. MountCubeFSShares
      BY <1>9, <2>4, Advances DEF AfterLoad, Stopped
    <3>2. CASE n > Len(V)
      <4>1. phase' = "enrich" /\ n - 1 = Len(V) /\ Len(V) \in 0..Len(V)
        BY <1>4, <2>1, <2>2, <3>1, <3>2 DEF MountCubeFSShares, Goto
      <4> HIDE DEF Done, Now
      <4>2. \A i \in 1..Len(V) : Done(V[i])'
        BY <1>3, <1>7, <2>1, <4>1
      <4> QED
        BY <1>3, <4>1, <4>2 DEF ClientsMounted, Done
    <3>3. CASE ~(n > Len(V))
      <4> DEFINE m == V[n]
      <4>1. n \in DOMAIN V /\ n \in 0..Len(V)
        BY <1>4, <2>2, <3>3
      <4>2. n' = n + 1 /\ phase' = "cubefs"
        BY <1>9, <2>2, <2>4, <3>1, <3>3 DEF MountCubeFSShares, Fail, AfterLoad
      <4>3. EffectiveBackend(m) # "cubefs" \/ fuse' = fuse \cup {m.path} \/ IsMounted(m.path)
        BY <2>2, <3>1, <3>3, <4>2 DEF MountCubeFSShares, Fail
      <4>4. Now(m)
        <5>1. CASE EffectiveBackend(m) # "cubefs"
          BY <1>2, <4>1, <5>1, MountIsCubeFS DEF BootInv
        <5>2. CASE fuse' = fuse \cup {m.path}
          BY <5>2
        <5>3. CASE IsMounted(m.path)
          BY <1>6, <5>3 DEF IsMounted
        <5> QED
          BY <4>3, <5>1, <5>2, <5>3
      <4> HIDE DEF Done, Now
      <4>5. \A i \in 1..((n + 1) - 1) : Done(V[i])'
        <5>1. \A i \in 1..((n + 1) - 1) : i \in 1..(n - 1) \/ i = n
          BY <2>2
        <5>2. \A i \in 1..((n + 1) - 1) : Now(V[i])
          BY <1>7, <2>1, <4>4, <5>1
        <5> QED
          BY <1>3, <1>7, <5>2
      <4>6. (n + 1) - 1 \in 0..Len(V)
        BY <2>2, <4>1
      <4> QED
        BY <1>3, <4>2, <4>5, <4>6 DEF ClientsMounted, Done
    <3> QED
      BY <3>2, <3>3
  <2> QED
    BY <2>3, <2>4
<1>10. CASE phase \in AfterLoad \ {"shares", "cubefs"}
  <2>1. phase' # "cubefs"
    BY <1>10, Phases DEF Follows, AfterLoad, Stopped
  <2>2. Len(V) \in 0..Len(V) /\ \A i \in 1..Len(V) : Done(V[i])
    BY <1>1, <1>10 DEF ClientsMounted
  <2> HIDE DEF Done, Now
  <2>3. \A i \in 1..Len(V) : Done(V[i])'
    BY <1>3, <1>7, <2>2
  <2> QED
    BY <1>3, <2>1, <2>2, <2>3 DEF ClientsMounted, Done
<1> QED
  BY <1>2, <1>8, <1>9, <1>10

-----------------------------------------------------------------------------
(* The bundles.                                                            *)

(* What a bundle is made of stays once all shares are mounted.             *)
LEMMA ResolveStays ==
  ASSUME UNCHANGED <<host, pseudo, mounted, spec>>
  PROVE  \A c : ResolveRootfs(c)' = ResolveRootfs(c)
BY DEF ResolveRootfs, HasDir, Shows, InitramfsShown

LEMMA NextBundled ==
  ASSUME BootInv, [Next]_vars
  PROVE  Bundled'
<1> DEFINE L == spec.containers
           B(c) == BuildSpec(spec.id, c, ResolveRootfs(c), override, resolv # Unset)
           Ready(c) == ResolveRootfs(c) # Unset /\ c.command # <<>>
<1>1. Turn /\ Bundled /\ Loaded /\ host' = host
  BY Frame DEF BootInv
<1>2. CASE phase' \notin Late
  <2> SUFFICES ASSUME phase' \in BeforeLoad \cup AfterLoad
               PROVE  bundles' = <<>>
    BY <1>2 DEF Bundled, Late
  <2>1. phase \in (BeforeLoad \cup AfterLoad) \ Late
    BY <1>1, <1>2, Phases DEF Late, Turn, Follows, BeforeLoad, AfterLoad, Stopped
  <2> QED
    BY <1>1, <2>1, ChangesIn DEF Bundled, Late
<1>3. ASSUME phase' = "bundles", phase \in {"overlay", "peering"}
      PROVE  Bundled'
  <2>1. n' = 1 /\ bundles' = <<>>
    BY <1>1, <1>3, Phases, ChangesIn DEF Bundled, Follows, AfterLoad, Stopped
  <2>2. Loaded'
    BY NextLoaded
  <2>3. Len(L') \in Nat
    BY <1>3, <2>2 DEF Loaded, AfterLoad, IsPod, IsList
  <2>4. 1 - 1 \in 0..Len(L') /\ 1..(1 - 1) = {}
    BY <2>3
  <2>5. \A f : f = [i \in 1..(1 - 1) |-> f[i]] => f = <<>>
    OBVIOUS
  <2> QED
    BY <1>3, <2>1, <2>4, <2>5 DEF Bundled
<1>4. ASSUME phase' \in Late, phase \in Late
      PROVE  Bundled'
  <2>1. UNCHANGED <<host, pseudo, mounted, spec, override, resolv>>
    BY <1>1, <1>4, ChangesIn DEF network, Late
  <2>2. \A c : B(c)' = B(c) /\ Ready(c)' = Ready(c)
    BY <2>1, ResolveStays
  <2>3. Len(L) \in Nat /\ DOMAIN L = 1..Len(L) /\ n \in Nat \ {0}
    BY <1>4 DEF BootInv, Loaded, AfterLoad, IsPod, IsList, Ranges, Late
  <2>4. /\ Bundled <=>
             LET last == IF phase = "bundles" THEN n - 1 ELSE Len(L) IN
             /\ last \in 0..Len(L)
             /\ bundles = [i \in 1..last |-> B(L[i])]
             /\ \A i \in 1..last : Ready(L[i])
        /\ Bundled' <=>
             LET last == IF phase' = "bundles" THEN n' - 1 ELSE Len(L) IN
             /\ last \in 0..Len(L)
             /\ bundles' = [i \in 1..last |-> B(L[i])]
             /\ \A i \in 1..last : Ready(L[i])
    BY <1>4, <2>1, <2>2 DEF Bundled, Late
  <2> HIDE DEF B, Ready, L
  <2>5. CASE bundles' = bundles /\ UNCHANGED <<phase, n>>
    BY <1>1, <2>4, <2>5
  <2>6. CASE phase # "bundles"
    <3>1. bundles' = bundles /\ phase' # "bundles"
      BY <1>4, <2>6, Phases, ChangesIn DEF Follows, Stopped, Late
    <3> QED
      BY <1>1, <2>4, <2>6, <3>1
  <2>7. CASE phase = "bundles" /\ PrepareBundles
    <3>1. n - 1 \in 0..Len(L) /\ bundles = [i \in 1..(n - 1) |-> B(L[i])]
          /\ \A i \in 1..(n - 1) : Ready(L[i])
      BY <1>1, <2>4, <2>7
    <3>2. CASE n > Len(L)
      <4>1. phase' = "notify" /\ bundles' = bundles
        BY <2>7, <3>2 DEF PrepareBundles, Goto, L
      <4>2. n - 1 = Len(L)
        BY <2>3, <3>1, <3>2
      <4> QED
        BY <2>4, <3>1, <4>1, <4>2
    <3>3. CASE ~(n > Len(L))
      <4>1. /\ Ready(L[n]) /\ n' = n + 1 /\ phase' = "bundles"
            /\ bundles' = Append(bundles, B(L[n]))
        BY <1>4, <2>7, <3>3 DEF PrepareBundles, Fail, L, B, Ready, Late
      <4> DEFINE f == [i \in 1..n |-> B(L[i])]
                 g == Append(bundles, B(L[n]))
                 V == {B(L[i]) : i \in 1..n}
      <4>2. g = f
        <5>1. bundles \in Seq(V) /\ Len(bundles) = n - 1 /\ B(L[n]) \in V
          BY <2>3, <3>1
        <5>2. f \in Seq(V) /\ Len(f) = n
          BY <2>3
        <5>3. \A i \in 1..n : f[i] = B(L[i])
          OBVIOUS
        <5> HIDE DEF f, V
        <5>4. g \in Seq(V) /\ Len(g) = n
          BY <2>3, <5>1
        <5>5. \A i \in 1..n : g[i] = B(L[i])
          <6>1. \A i \in 1..(n - 1) : bundles[i] = B(L[i])
            BY <3>1
          <6>2. \A i \in 1..(n - 1) : g[i] = bundles[i]
            BY <2>3, <5>1
          <6>3. g[n] = B(L[n])
            BY <2>3, <5>1
          <6>4. \A i \in 1..n : i \in 1..(n - 1) \/ i = n
            BY <2>3
          <6> HIDE DEF g
          <6> QED
            BY <6>1, <6>2, <6>3, <6>4
        <5> HIDE DEF g
        <5> QED
          BY <5>2, <5>3, <5>4, <5>5
      <4>3. (n + 1) - 1 = n /\ n \in 0..Len(L) /\ \A i \in 1..n : Ready(L[i])
        <5>1. \A i \in 1..n : i \in 1..(n - 1) \/ i = n
          BY <2>3
        <5> QED
          BY <2>3, <3>1, <3>3, <4>1, <5>1
      <4> QED
        BY <2>4, <4>1, <4>2, <4>3
    <3> QED
      BY <3>2, <3>3
  <2> QED
    BY <1>4, <2>5, <2>6, <2>7, Advances, Frame DEF Stopped, Late
<1> QED
  BY <1>1, <1>2, <1>3, <1>4, Phases DEF Turn, Follows, Late, BeforeLoad, AfterLoad, Stopped

-----------------------------------------------------------------------------
LEMMA NextBootInv == BootInv /\ [Next]_vars => BootInv'
BY NextNetworkInv, NextTurn, NextUnloaded, NextLoaded, NextSharesMounted, NextClientsMounted,
   NextBundled, NextRanges DEF BootInv

-----------------------------------------------------------------------------
(* The results.                                                            *)

LEMMA BootInvariant == Spec => []BootInv
<1>1. BootInv /\ UNCHANGED vars => BootInv'
  BY NextBootInv
<1> QED
  BY InitBootInv, NextBootInv, PTL DEF Spec

(* The phase of a boot says what is mounted, how many bundles there are    *)
(* and whether PID 1 is in a call, for every host.                         *)
THEOREM BootTypeCorrect == Spec => []TypeOK
<1>1. BootInv => TypeOK
  <2> SUFFICES ASSUME BootInv
               PROVE  TypeOK
    OBVIOUS
  <2>1. /\ phase \in {"start", "pseudofs", "config", "load", "shares", "cubefs", "enrich", "network",
                     "applying", "overlay", "peering", "bundles", "notify", "supervise",
                     "failed", "panicked", "hung", "off"}
        /\ phase \in {"applying", "peering"} <=> pc[PID1] # "idle" /\ phase # "panicked"
    BY DEF BootInv, Turn, BeforeLoad, AfterLoad, Stopped
  <2>2. n \in Nat /\ pseudo \subseteq {"proc", "run"} /\ fault \subseteq {"call", "signal", "reboot"}
    BY DEF BootInv, Ranges
  <2>3. ASSUME phase = "shares"
        PROVE  mounted = (IF Cmdline.config = Unset THEN <<>>
                          ELSE <<[tag |-> Cmdline.config, path |-> CfgDir]>>)
                         \o SubSeq(spec.shares, 1, n - 1)
    <3>1. Cmdline = host.cmdline /\ spec.shares = Read.shares
      BY <2>3 DEF BootInv, Loaded, AfterLoad, Cmdline, NoSpec
    <3> QED
      BY <2>3, <3>1 DEF BootInv, SharesMounted, AfterLoad, ConfigShare
  <2>4. ASSUME phase \in {"bundles", "supervise"}
        PROVE  Len(bundles) = IF phase = "bundles" THEN n - 1 ELSE Len(spec.containers)
    <3> DEFINE last == IF phase = "bundles" THEN n - 1 ELSE Len(spec.containers)
               b(i) == LET c == spec.containers[i] IN
                       BuildSpec(spec.id, c, ResolveRootfs(c), override, resolv # Unset)
    <3>1. last \in 0..Len(spec.containers) /\ bundles = [i \in 1..last |-> b(i)]
      BY <2>4 DEF BootInv, Bundled
    <3>2. Len(spec.containers) \in Nat
      BY <2>4 DEF BootInv, Loaded, AfterLoad, IsPod, IsList
    <3> HIDE DEF b, last
    <3>3. Len(bundles) = last
      BY <3>1, <3>2
    <3> QED
      BY <3>3 DEF last
  <2> QED
    BY <2>1, <2>2, <2>3, <2>4 DEF TypeOK
<1> QED
  BY <1>1, BootInvariant, PTL

(* The calls of network.Apply and network.ApplyWireGuard in run() are a    *)
(* behaviour of Network: what NetworkProofs shows of it is so at boot.     *)
THEOREM BootUsesNetworkAsModelled == Spec => UsesNetworkAsModelled
<1>1. Init => Net!Init
  BY InitNetworkAtBoot
<1>2. BootInv /\ [Next]_vars => [Net!Next]_(Net!vars)
  BY NetworkNext, SameNext
<1> QED
  BY <1>1, <1>2, BootInvariant, PTL DEF Spec, UsesNetworkAsModelled

(* What resolveRootfs finds is what the host asks for: the first share     *)
(* with the tag of the container, or its conventional directory.           *)
LEMMA ResolvesAsAsked ==
  ASSUME Loaded, SharesMounted, phase \in AfterLoad \ {"shares"}, NothingHidden,
         NEW i \in DOMAIN Read.containers,
         ResolveRootfs(spec.containers[i]) # Unset
  PROVE  LET c == Read.containers[i] IN
         IF ShareOf(c) # {} THEN Shows(ResolveRootfs(spec.containers[i])) = c.tag
         ELSE ResolveRootfs(spec.containers[i]) = RootfsDir(c.id)
<1> DEFINE c == Read.containers[i]
           d == spec.containers[i]
           with == {k \in DOMAIN spec.shares : spec.shares[k].tag = d.tag}
<1>1. IsPod(spec) /\ IsPod(Read) /\ spec.shares = Read.shares
  BY DEF Loaded, NoSpec
<1>2. i \in DOMAIN spec.containers
  BY <1>1 DEF Loaded, IsPod, IsList
<1>3. d.tag = c.tag /\ d.id = c.id
  BY <1>2 DEF Loaded, Completes, ContainerFields
<1>4. with = ShareOf(c) /\ ShareOf(c) = {k \in DOMAIN Read.shares : Read.shares[k].tag = c.tag}
  BY <1>1, <1>3, ReadsAsked DEF ShareOf, NothingHidden
<1>5. CASE ShareOf(c) # {}
  <2>1. ShareOf(c) \subseteq Nat
    BY <1>1, <1>4 DEF IsPod, IsList
  <2>2. Min(ShareOf(c)) \in ShareOf(c)
    BY <1>5, <2>1, MinIsMember
  <2>3. ResolveRootfs(d) = Read.shares[Min(ShareOf(c))].path
    BY <1>1, <1>4, <1>5 DEF ResolveRootfs
  <2> QED
    BY <1>4, <1>5, <2>2, <2>3, SharesShown
<1>6. CASE ShareOf(c) = {}
  BY <1>3, <1>4, <1>6 DEF ResolveRootfs
<1> QED
  BY <1>5, <1>6

(* A container's root file system shows the share with its tag, or is its  *)
(* conventional directory; each share is there to be bound when the        *)
(* supervisor starts, and each CubeFS share by its own client where no     *)
(* other is mounted on its path: for every host that hides none of its     *)
(* shares below another, nor files below the tmpfs on /run.                *)
THEOREM BootRootfsShown == Spec => []RootfsShown
<1>1. BootInv => RootfsShown
  <2> SUFFICES ASSUME BootInv, phase = "supervise", NothingHidden
               PROVE  RootfsShown
    BY DEF RootfsShown
  <2>1. /\ Loaded /\ SharesMounted /\ ClientsMounted /\ Bundled /\ phase \in AfterLoad \ {"shares"}
        /\ Read = Asked
    BY ReadsAsked DEF BootInv, AfterLoad, NothingHidden
  <2>2. ASSUME NEW i \in DOMAIN Read.containers
        PROVE  LET c == Read.containers[i] IN
               IF ShareOf(c) # {} THEN Shows(bundles[i].root) = c.tag
               ELSE bundles[i].root = RootfsDir(c.id)
    <3> DEFINE d == spec.containers[i]
    <3>1. i \in 1..Len(spec.containers)
      BY <2>1 DEF Loaded, IsPod, IsList
    <3>2. ResolveRootfs(d) # Unset
          /\ bundles[i] = BuildSpec(spec.id, d, ResolveRootfs(d), override, resolv # Unset)
      BY <2>1, <3>1 DEF Bundled
    <3>3. bundles[i].root = ResolveRootfs(d)
      BY <3>2 DEF BuildSpec
    <3> QED
      BY <2>1, <3>2, <3>3, ResolvesAsAsked
  <2>3. \A i \in DOMAIN Read.shares : Shows(Read.shares[i].path) = Read.shares[i].tag
    BY <2>1, SharesShown
  <2>4. ASSUME CubeFSApart, NEW i \in DOMAIN Read.shareMounts, Read.shareMounts[i].action = "mount"
        PROVE  Read.shareMounts[i].path \in fuse
    <3> DEFINE path == Read.shareMounts[i].path
               S == Read.shares
               k == IF host.cmdline.config = Unset THEN 0 ELSE 1
    <3>1. path \in fuse \/ Shows(path) # Unset
      <4>1. DOMAIN Read.shareMounts = 1..Len(Read.shareMounts)
        BY <2>1 DEF Loaded, IsPod, IsList
      <4> QED
        BY <2>1, <2>4, <4>1 DEF ClientsMounted
    <3>2. path # CfgDir /\ \A j \in DOMAIN S : S[j].path # path
      BY <2>1, <2>4 DEF CubeFSApart
    <3>3. /\ Len(S) \in Nat /\ DOMAIN S = 1..Len(S) /\ DOMAIN mounted = 1..(k + Len(S))
          /\ k = 1 => mounted[1] = [tag |-> host.cmdline.config, path |-> CfgDir]
          /\ \A j \in DOMAIN S : mounted[k + j] = S[j]
      BY <2>1, MountedList
    <3>4. k \in {0, 1}
      OBVIOUS
    <3> HIDE DEF path, S, k
    <3>5. ASSUME NEW j \in DOMAIN mounted
          PROVE  mounted[j].path # path
      <4>1. (k = 1 /\ j = 1) \/ (j - k \in DOMAIN S /\ k + (j - k) = j)
        BY <3>3, <3>4
      <4>2. k = 1 => mounted[1].path = CfgDir
        BY <3>3
      <4> QED
        BY <3>2, <3>3, <4>1, <4>2
    <3>6. Shows(path) = Unset
      BY <3>5, ShowsNothing
    <3> QED
      BY <3>1, <3>6 DEF path
  <2> QED
    BY <2>1, <2>2, <2>3, <2>4 DEF RootfsShown
<1> QED
  BY <1>1, BootInvariant, PTL

-----------------------------------------------------------------------------
(* The network that a pod has when its containers start.                   *)

LEMMA NextOverridden ==
  ASSUME BootInv, Overridden, [Next]_vars
  PROVE  Overridden'
<1>1. Turn /\ host' = host
  BY Frame DEF BootInv
<1>2. ASSUME phase' = "start"
      PROVE  pseudo' = IF host.proc THEN {"proc"} ELSE {}
  <2>1. phase = "start"
    BY <1>1, <1>2, Phases DEF Turn, Follows, BeforeLoad, AfterLoad, Stopped
  <2> QED
    BY <2>1, ChangesIn DEF Overridden
<1>3. ASSUME phase' \in (BeforeLoad \cup AfterLoad) \ {"start"}
      PROVE  override' = IF host.proc THEN host.cmdline.namespaces ELSE Unset
  <2>1. CASE phase = "start"
    <3>1. ReadOverride
      BY <1>3, <2>1, Advances DEF Stopped, BeforeLoad, AfterLoad
    <3> QED
      BY <2>1, <3>1 DEF ReadOverride, Cmdline, NoCmdline, Overridden
  <2>2. CASE phase # "start"
    <3>1. phase \in (BeforeLoad \cup AfterLoad) \ {"start"}
      BY <1>1, <1>3, <2>2, Phases DEF Turn, Follows, BeforeLoad, AfterLoad, Stopped
    <3> QED
      BY <2>2, <3>1, ChangesIn DEF Overridden
  <2> QED
    BY <2>1, <2>2
<1> QED
  BY <1>1, <1>2, <1>3 DEF Overridden

LEMMA NextFoundStill ==
  ASSUME BootInv, FoundStill, [Next]_vars
  PROVE  FoundStill'
<1> DEFINE Early == BeforeLoad \cup {"shares", "cubefs", "enrich", "network"}
<1> SUFFICES ASSUME phase' \in Early
             PROVE  /\ link' = host'.kernel.link /\ addrs' = host'.kernel.addrs
                    /\ route' = host'.kernel.route
  BY DEF FoundStill
<1>1. phase \in Early /\ host' = host
  BY Phases, Frame DEF BootInv, Turn, Follows, BeforeLoad, AfterLoad, Stopped
<1>2. UNCHANGED network
  BY <1>1, CallPhases, Frame DEF NetworkApply, Goto, BeforeLoad
<1> QED
  BY <1>1, <1>2 DEF FoundStill, network

(* What ApplyWireGuard is given is what the host asks for.                 *)
LEMMA OverlayGiven ==
  ASSUME BootInv, phase = "overlay", NothingHidden
  PROVE  ReadOverlay = IF spec.wireguard # Unset THEN spec.wireguard ELSE ConfigFile(host.wireguardJson)
<1>1. spec.wireguard = Read.wireguard
  BY DEF BootInv, Loaded, AfterLoad, NoSpec
<1>2. Unset \notin host.offered
  BY HostsAreSound DEF BootInv, Unloaded, IsHost
<1>3. ConfigFile(host.wireguardJson) = Seen(host.wireguardJson)
  BY <1>2, OverlayAsked DEF BootInv, AfterLoad
<1> QED
  BY <1>1, <1>3 DEF ReadOverlay

(* Where the calls are over nothing of them changes.                       *)
LEMMA ConcludedQuietly ==
  ASSUME BootInv, Concluded, [Next]_vars, UNCHANGED network
  PROVE  Concluded'
<1>1. Turn /\ Turn' /\ Loaded /\ host' = host
  BY NextTurn, Frame DEF BootInv
<1>2. UNCHANGED <<pc, req, past, answers, applier>>
  BY DEF network
<1>3. phase \in {"network", "applying", "overlay", "peering"} \cup Late =>
        UNCHANGED <<Read, ReadOverlay, NothingHidden>>
  BY <1>1, ChangesIn, AskedStays, NothingHiddenStays DEF Late
<1>4. phase' \in {"applying", "peering"} => phase' = phase
  <2>1. phase' \in {"applying", "peering"} => pc[PID1] # "idle"
    BY <1>1, <1>2 DEF Turn
  <2>2. phase' \in {"applying", "peering"} => phase \in {"applying", "peering"}
    BY <1>1, <2>1, CallPhases DEF Turn
  <2> QED
    BY <2>2, Phases DEF Follows, Stopped
<1>5. phase \in {"applying", "peering"} => phase' \in {phase, "panicked"}
  <2>1. phase \in {"applying", "peering"} => pc'[PID1] # "idle"
    BY <1>1, <1>2 DEF Turn
  <2> QED
    BY <1>1, <1>4, <2>1 DEF Turn
<1>6. phase' \in BeforeLoad \cup AfterLoad => phase \in BeforeLoad \cup AfterLoad
  BY <1>1, Phases DEF Turn, Follows, BeforeLoad, AfterLoad, Stopped
<1>7. phase' \in (BeforeLoad \cup AfterLoad) \ ({"peering"} \cup Late) =>
        phase \in (BeforeLoad \cup AfterLoad) \ ({"peering"} \cup Late)
  BY <1>1, Phases DEF Turn, Follows, BeforeLoad, AfterLoad, Stopped, Late
<1>8. ASSUME phase' \in {"overlay", "peering"} \cup Late, Read'.network # Unset
      PROVE  \E a \in answers : a.req = NetworkCall(Read'.network) /\ a.result = "ok"
  <2>1. phase \in {"network", "overlay", "peering"} \cup Late
    BY <1>1, <1>5, <1>8, Phases DEF Turn, Follows, BeforeLoad, AfterLoad, Stopped, Late
  <2>2. CASE phase = "network"
    <3>1. NetworkApply
      BY <1>8, <2>2, Advances DEF Stopped, Late
    <3>2. spec.network = Read.network
      BY <1>1, <2>2 DEF Loaded, AfterLoad, NoSpec
    <3>3. phase' # "applying"
      BY <1>8 DEF Late
    <3> QED
      BY <1>3, <1>8, <2>2, <3>1, <3>2, <3>3 DEF NetworkApply, Goto
  <2> QED
    BY <1>3, <1>8, <2>1, <2>2 DEF Concluded
<1>9. ASSUME phase' \in Late, NothingHidden'
      PROVE  IF ReadOverlay' = Absent THEN applier = Unset ELSE applier.config = ReadOverlay'
  <2>1. phase \in {"overlay"} \cup Late
    BY <1>1, <1>5, <1>9, Phases DEF Turn, Follows, BeforeLoad, AfterLoad, Stopped, Late
  <2>2. CASE phase = "overlay"
    <3> DEFINE wg == IF spec.wireguard # Unset THEN spec.wireguard ELSE ConfigFile(host.wireguardJson)
    <3>1. ApplyWireGuard /\ phase' # "peering" /\ phase' # "failed"
      BY <1>9, <2>2, Advances DEF Stopped, Late
    <3>2. wg = Absent
      BY <3>1 DEF ApplyWireGuard, Goto, Fail
    <3>3. ReadOverlay = wg
      BY <1>3, <1>9, <2>2, OverlayGiven
    <3> QED
      BY <1>3, <2>2, <3>2, <3>3 DEF Concluded, AfterLoad, Late
  <2> QED
    BY <1>3, <1>9, <2>1, <2>2 DEF Concluded
<1> QED
  BY <1>1, <1>2, <1>4, <1>6, <1>7, <1>8, <1>9 DEF Concluded

LEMMA NextConcluded ==
  ASSUME BootInv, FoundStill, Concluded, [Next]_vars
  PROVE  Concluded'
<1>1. NetProofs!TypeOK /\ NetProofs!Inv /\ Turn /\ Turn' /\ Loaded /\ host' = host
  BY NextTurn, Frame DEF BootInv, NetProofs!Inv
<1>2. phase \in {"network", "applying", "overlay", "peering"} =>
        UNCHANGED <<Read, ReadOverlay, NothingHidden>>
  BY <1>1, ChangesIn, AskedStays, NothingHiddenStays
<1>3. CASE UNCHANGED network
  BY <1>3, ConcludedQuietly
<1>4. CASE NetworkApply /\ ~UNCHANGED network
  <2>1. phase = "network" /\ phase' = "applying" /\ Net!Begin(PID1, NetworkCall(spec.network))
    BY <1>4 DEF NetworkApply, Goto
  <2>2. /\ past'[PID1].answered = {a.req : a \in answers} /\ past'[PID1].route = route
        /\ answers = {} /\ UNCHANGED <<answers, applier>>
    BY <1>1, <2>1 DEF Net!Begin, NetProofs!TypeOK, Turn
  <2>3. route = host'.kernel.route
    BY <1>1, <2>1 DEF FoundStill
  <2> QED
    BY <2>1, <2>2, <2>3 DEF Concluded, AfterLoad, Late
<1>5. CASE ApplyWireGuard /\ ~UNCHANGED network
  <2> DEFINE wg == IF spec.wireguard # Unset THEN spec.wireguard ELSE ConfigFile(host.wireguardJson)
  <2>1. phase = "overlay" /\ phase' = "peering" /\ wg # Absent /\ Net!Begin(PID1, OverlayCall(wg))
    BY <1>5 DEF ApplyWireGuard, Goto
  <2> HIDE DEF wg
  <2>2. req'[PID1].config = wg /\ pc'[PID1] = "check" /\ UNCHANGED <<answers, applier>>
    BY <1>1, <2>1 DEF Net!Begin, NetProofs!TypeOK, OverlayCall
  <2> QED
    BY <1>1, <1>2, <2>1, <2>2 DEF Concluded, AfterLoad, BeforeLoad, Late
<1>6. CASE NetworkStep
  <2>1. /\ phase \in {"applying", "peering"} /\ UNCHANGED <<req, past>> /\ NetProofs!Step(PID1)
        /\ UNCHANGED <<Read, ReadOverlay, NothingHidden>>
    BY <1>1, <1>2, <1>6, CallPhases, StepOutcome
  <2>2. /\ applier' = applier \/ (pc[PID1] = "closer" /\ applier' = req[PID1])
        /\ pc'[PID1] = "reindex" => applier' = req[PID1]
    BY <1>1, <2>1, NetworkAssumptions, NetProofs!DeviceChanges
  <2>3. pc'[PID1] = "widen" => pc[PID1] = "reindex"
    BY <1>1, <2>1, NetworkAssumptions, NetProofs!OverlayProgress
  <2>4. phase = "applying" => pc[PID1] # "closer"
    <3>1. phase = "applying" => req[PID1].kind = "network"
      BY <1>1 DEF Turn, NetworkCall
    <3> QED
      BY <1>1, <3>1 DEF NetProofs!TypeOK, NetProofs!OverlaySteps, NetProofs!KeyHeld
  <2>5. CASE pc'[PID1] # "idle" /\ answers' = answers /\ phase' = phase
    BY <1>1, <2>1, <2>2, <2>3, <2>4, <2>5 DEF Concluded, Late, AfterLoad
  <2>6. CASE phase' = "failed"
    BY <2>6 DEF Concluded, BeforeLoad, AfterLoad, Late
  <2>7. ASSUME NEW a, a = [req |-> req[PID1], result |-> "ok", past |-> past[PID1]],
               answers' = answers \cup {a}, a \notin answers,
               phase' = IF phase = "applying" THEN "overlay" ELSE "bundles"
        PROVE  Concluded'
    <3>1. a.req = req[PID1] /\ a.result = "ok" /\ a.past = past[PID1]
      BY <2>7
    <3>2. CASE phase = "applying"
      BY <1>1, <2>1, <2>2, <2>4, <2>7, <3>1, <3>2 DEF Concluded, Turn, AfterLoad, Late
    <3>3. CASE phase = "peering"
      <4>1. PICK wg : req[PID1] = OverlayCall(wg) /\ (NothingHidden => wg = ReadOverlay)
        BY <1>1, <3>3 DEF Turn
      <4>2. req[PID1].kind = "overlay" /\ req[PID1].config = wg
        BY <4>1 DEF OverlayCall
      <4>3. NetProofs!SetHostname(PID1) \/ NetProofs!WidenAddress(PID1)
        <5>1. a \in answers' \ answers
          BY <2>7
        <5> QED
          BY <1>1, <2>1, <3>1, <5>1, NetworkAssumptions, NetProofs!Succeeds
      <4>4. ~NetProofs!SetHostname(PID1)
        BY <1>1, <4>2 DEF NetProofs!SetHostname, NetProofs!At, NetProofs!TypeOK, NetProofs!NetworkSteps
      <4>5. pc[PID1] = "widen"
        BY <4>3, <4>4 DEF NetProofs!WidenAddress, NetProofs!At
      <4>6. applier' = req[PID1] /\ wg # Absent
        BY <2>2, <3>3, <4>2, <4>5 DEF Concluded
      <4>7. \A b \in answers' : b.req.kind = "network" => b \in answers
        BY <2>7, <3>1, <4>2
      <4> QED
        BY <1>1, <2>1, <2>7, <3>3, <4>1, <4>2, <4>6, <4>7 DEF Concluded, AfterLoad, Late
    <3> QED
      BY <2>1, <3>2, <3>3
  <2> QED
    BY <1>1, <1>6, <2>5, <2>6, <2>7, StepOutcome DEF Goto, Fail
<1> QED
  BY <1>3, <1>4, <1>5, <1>6, Frame

LEMMA NetworkAtBootInvariant == Spec => []NetworkAtBoot
<1>1. Init => NetworkAtBoot
  <2> SUFFICES ASSUME Init
               PROVE  NetworkAtBoot
    OBVIOUS
  <2>1. NetProofs!Order /\ NetProofs!NetworkInv
    BY InitNetworkAtBoot, NetworkAssumptions, NetProofs!InitOrder, NetProofs!InitNetwork
  <2>2. FoundStill /\ Concluded /\ Overridden
    BY DEF Init, FoundStill, Concluded, Overridden, BeforeLoad, AfterLoad, Late
  <2> QED
    BY <2>1, <2>2 DEF NetworkAtBoot
<1>2. BootInv /\ NetworkAtBoot /\ [Next]_vars => NetworkAtBoot'
  <2> SUFFICES ASSUME BootInv, NetworkAtBoot, [Next]_vars
               PROVE  NetworkAtBoot'
    OBVIOUS
  <2>1. NetProofs!Order' /\ NetProofs!NetworkInv'
    BY NetworkNext, NetworkAssumptions, NetProofs!NextOrder, NetProofs!NextNetwork DEF BootInv, NetworkAtBoot
  <2> QED
    BY <2>1, NextFoundStill, NextConcluded, NextOverridden DEF NetworkAtBoot
<1> QED
  BY <1>1, <1>2, BootInvariant, PTL DEF Spec

(* When the supervisor starts the pod has the interface, the address and   *)
(* the resolver that the host asked for, with its gateway as the default   *)
(* route unless the kernel had one before init; no private key is left in  *)
(* a file that could be removed; and each container joins that network or  *)
(* is by itself as it asked, or is in the namespaces of the host where     *)
(* /proc was mounted before init.  For every host with nothing beneath the *)
(* tmpfs on /run, and every kernel that it finds; and where no share hides *)
(* another either, the overlay is the one that the host asked for.         *)
THEOREM BootNetworkAsSpecified == Spec => []NetworkAsSpecified
<1>1. BootInv /\ NetworkAtBoot => NetworkAsSpecified
  <2> DEFINE w == Read.network
             i == IF w.iface = Unset THEN "eth0" ELSE w.iface
             dns == resolv # Unset
             namespaces == host.cmdline.namespaces
  <2> SUFFICES ASSUME BootInv, NetworkAtBoot, phase = "supervise", NothingBeneath
               PROVE  NetworkAsSpecified
    BY DEF NetworkAsSpecified
  <2>1. /\ NetProofs!Inv /\ Turn /\ Loaded /\ Bundled /\ NetProofs!NetworkInv /\ Concluded /\ Overridden
        /\ NetProofs!Order /\ phase \in AfterLoad /\ phase \in Late
    BY DEF BootInv, NetworkAtBoot, AfterLoad, Late
  <2>2. pc[PID1] = "idle"
    BY <2>1 DEF Turn
  <2>3. ASSUME w # Unset
        PROVE  /\ link[i] = "up"
               /\ w.address # Unset => w.address.ip \in {a.ip : a \in addrs[i]}
               /\ w.gateway # Unset =>
                     LET found == host.kernel.route[w.gateway.family] IN
                     route[w.gateway.family] = IF found # Unset THEN found ELSE w.gateway
               /\ w.dns # <<>> => resolv = w.dns
    <3>1. PICK a \in answers : a.req = NetworkCall(w) /\ a.result = "ok"
      BY <2>1, <2>3 DEF Concluded
    <3>2. a.req.kind = "network" /\ a.req.config = w /\ NetProofs!IfaceOf(a.req) = i
      BY <3>1 DEF NetworkCall, NetProofs!IfaceOf
    <3>3. a \in NetProofs!Over("network") /\ a.past.route = host.kernel.route
      BY <2>1, <3>2 DEF NetProofs!Over, Concluded
    <3>4. link[i] = "up" /\ NetProofs!Addressed(i, w) /\ NetProofs!Routed(i, w, a.past)
      BY <2>1, <3>1, <3>2, <3>3 DEF NetProofs!NetworkInv, NetProofs!NetworkInForce
    <3>5. w.address # Unset => w.address.ip \in {b.ip : b \in addrs[i]}
      BY <3>4, NetworkAssumptions, NetProofs!TakenHasIP DEF NetProofs!Addressed
    <3>6. w.gateway # Unset =>
            LET found == host.kernel.route[w.gateway.family] IN
            route[w.gateway.family] = IF found # Unset THEN found ELSE w.gateway
      BY <3>3, <3>4 DEF NetProofs!Routed
    <3>7. NetProofs!IsLatest(a)
      BY <2>1, <2>2 DEF NetProofs!IsLatest, NetProofs!Over, NetProofs!NetworkSteps, Concluded
    <3>8. w.dns # <<>> => resolv = w.dns
      BY <2>1, <3>1, <3>2, <3>3, <3>7 DEF NetProofs!NetworkInv, NetProofs!ResolverKept
    <3> QED
      BY <3>4, <3>5, <3>6, <3>8
  <2>4. keys \subseteq {Net!Stray}
    <3>1. keys \ {NetProofs!Stray} = {}
      BY <2>1, <2>2 DEF NetProofs!Inv, NetProofs!KeysCleaned, NetProofs!KeyHeld
    <3> QED
      BY <3>1 DEF NetProofs!Stray, Net!Stray
  <2>5. NothingHidden => IF ReadOverlay = Absent THEN applier = Unset ELSE applier.config = ReadOverlay
    BY <2>1 DEF Concluded
  <2>6. ASSUME NEW j \in DOMAIN Read.containers
        PROVE  LET c == Read.containers[j]
                   b == bundles[j]
               IN  /\ (\A k \in DOMAIN c.mounts : c.mounts[k].src # ResolvConf) =>
                         ((\E m \in Range(b.mounts) : m.src = ResolvConf) <=> (c.net # "none" /\ dns))
                   /\ namespaces = Unset => ("network" \in b.namespaces <=> c.net = "none")
                   /\ namespaces # Unset /\ host.proc => b.namespaces = namespaces
    <3> DEFINE c == Read.containers[j]
               d == spec.containers[j]
    <3>1. j \in 1..Len(spec.containers) /\ j \in DOMAIN spec.containers
      BY <2>1 DEF Loaded, IsPod, IsList
    <3>2. bundles[j] = BuildSpec(spec.id, d, ResolveRootfs(d), override, dns)
      BY <2>1, <3>1 DEF Bundled
    <3>3. bundles[j].mounts = BundleMounts(d, dns) /\ bundles[j].namespaces = NamespacesFor(d, override)
      BY <3>2 DEF BuildSpec
    <3>4. d.net = c.net /\ d.mounts = c.mounts /\ IsList(d.mounts)
      BY <2>1, <3>1 DEF Loaded, Completes, ContainerFields, IsPod
    <3>5. override = IF host.proc THEN namespaces ELSE Unset
      BY <2>1 DEF Overridden
    <3>6. /\ namespaces = Unset => ("network" \in bundles[j].namespaces <=> c.net = "none")
          /\ namespaces # Unset /\ host.proc => bundles[j].namespaces = namespaces
      BY <3>3, <3>4, <3>5 DEF NamespacesFor, OCINamespaces
    <3> QED
      BY <3>3, <3>4, <3>6, ResolverMounted
  <2>7. Read = Asked /\ ReadOverlay = AskedOverlay
    BY ReadsAsked
  <2> QED
    BY <2>3, <2>4, <2>5, <2>6, <2>7 DEF NetworkAsSpecified
<1> QED
  BY <1>1, BootInvariant, NetworkAtBootInvariant, PTL

-----------------------------------------------------------------------------
(* That a boot starts the supervisor for a host that kept its side, and    *)
(* fails for one that did not.                                             *)

(* While Apply runs the kernel has changed by so much at each step.        *)
PodIface == IF Read.network.iface = Unset THEN "eth0" ELSE Read.network.iface

Joined(set, a) ==
    IF a = Unset \/ (IF a.ip.family = 4 THEN a \in set ELSE \E b \in set : b.ip = a.ip)
    THEN set ELSE set \cup {a}

AppliedSoFar ==
    phase = "applying" =>
        LET at == pc[PID1]
            set == host.kernel.addrs[PodIface]
        IN  /\ Read.network # Unset
            /\ at \in {"index", "up"} => link = host.kernel.link
            /\ at \in {"index", "up", "address"} => addrs = host.kernel.addrs
            /\ at \in {"up", "address", "route"} => host.kernel.link[PodIface] # "absent"
            /\ at = "route" =>
                  Read.network.address # Broken /\ addrs[PodIface] = Joined(set, Read.network.address)
            /\ at \in {"dns", "write", "hostname"} /\ NothingBeneath => NetworkSound

(* The network and the overlay are what they should be once they have been *)
(* applied.                                                                *)
Judged ==
    /\ phase \in {"overlay", "peering"} \cup Late /\ NothingBeneath => NetworkSound
    /\ phase = "peering" /\ NothingHidden /\ Read.wireguard = Unset =>
          ReadOverlay # Broken /\ ValidWireGuard(ReadOverlay)
    /\ phase \in Late /\ NothingHidden => OverlaySound

(* The containers that have been looked at have something to run, if need  *)
(* be from their image, and the others are as they were asked for.         *)
Entered(c) == c.command = <<>> => HasEntrypoint(ImageAt(ResolveRootfs(c)))

Enriched(c) ==
    IF c.command # <<>> THEN c ELSE EnrichFromImage(c, ImageAt(ResolveRootfs(c)))

Completed ==
    phase \in AfterLoad =>
        LET last == IF phase \in {"shares", "cubefs"} THEN 0
                    ELSE IF phase = "enrich" THEN n - 1 ELSE Len(spec.containers)
        IN  \A i \in DOMAIN spec.containers :
               IF i > last THEN spec.containers[i] = Read.containers[i]
               ELSE /\ spec.containers[i] = Enriched(Read.containers[i])
                    /\ spec.containers[i].command # <<>> /\ Entered(Read.containers[i])

(* Where nothing else has gone wrong, a boot that has stopped did so for   *)
(* something that the host left out.                                       *)
Blameless ==
    /\ phase \in (BeforeLoad \cup AfterLoad) \ {"start", "pseudofs"} /\ fault = {} =>
          pseudo = {"proc", "run"}
    /\ phase \in Stopped /\ fault = {} /\ NothingHidden /\ MountableEarly => ~Sound

StartInv == NetProofs!OverlayInv /\ AppliedSoFar /\ Judged /\ Completed /\ Blameless

-----------------------------------------------------------------------------
LEMMA SameCovers ==
  /\ \A a, ip : Net!Covers(a, ip) <=> NetProofs!Covers(a, ip)
  /\ \A wg : Net!ValidOverlay(wg) <=> NetProofs!ValidOverlay(wg)
BY DEF Net!Covers, NetProofs!Covers, Net!ValidOverlay, NetProofs!ValidOverlay, Net!BuildPeers,
   NetProofs!BuildPeers

(* What the host keeps its side in does not change.                        *)
LEMMA SoundStays ==
  ASSUME host' = host, pseudo' = pseudo
  PROVE  UNCHANGED <<NetworkSound, OverlaySound, Sound, MountableEarly, NothingBeneath,
                     NothingHidden, PodIface>>
<1>1. UNCHANGED <<Read, Asked, AskedOverlay, NothingBeneath, NothingHidden>>
  BY AskedStays, NothingHiddenStays
<1>2. UNCHANGED <<NetworkSound, OverlaySound, MountableEarly, NothingHidden, PodIface>>
  BY <1>1 DEF NetworkSound, OverlaySound, MountableEarly, PodIface,
     Net!Covers, Net!ValidOverlay, Net!BuildPeers
<1>3. \A c : HasRootfs(c)' = HasRootfs(c) /\ ImageOf(c)' = ImageOf(c)
  BY <1>1 DEF HasRootfs, ImageOf, ShareOf
<1>4. Sound' = Sound
  BY <1>1, <1>2, <1>3 DEF Sound
<1> QED
  BY <1>1, <1>2, <1>4

(* What is there of a container's root file system is what the host has    *)
(* for it, and so is its image.                                            *)
LEMMA RootfsAsked ==
  ASSUME BootInv, phase \in AfterLoad \ {"shares"}, NothingHidden,
         NEW i \in DOMAIN Read.containers, NEW c, c = Read.containers[i]
  PROVE  /\ HasRootfs(c) <=> ResolveRootfs(c) # Unset
         /\ HasRootfs(c) =>
               (HasEntrypoint(ImageAt(ResolveRootfs(c)))
                  <=> \E image \in ImageOf(c) : HasEntrypoint(image))
         /\ HasRootfs(c) /\ HasEntrypoint(ImageAt(ResolveRootfs(c))) =>
               ImageOf(c) = {ImageAt(ResolveRootfs(c))}
<1> DEFINE S == Read.shares
           dir == RootfsDir(c.id)
<1>0. Asked.shares = S /\ (c.id \in host.rootfsDirs => InitramfsShown)
  BY ReadsAsked DEF NothingHidden, NothingBeneath
<1>1. Loaded /\ SharesMounted /\ host \in Host /\ IsHost(host)
  BY HostsAreSound DEF BootInv, Unloaded
<1>2. DOMAIN S = 1..Len(S) /\ Len(S) \in Nat /\ spec.shares = S
      /\ \A j \in DOMAIN S : S[j].path # Unset /\ S[j].tag # Unset
  <2>1. DOMAIN S = 1..Len(S) /\ Len(S) \in Nat /\ spec.shares = S
    BY <1>1, MountedList DEF Loaded, NoSpec
  <2>2. \A j \in 1..Len(S) : S[j].path # Unset /\ S[j].tag \in host.offered
    BY <1>1 DEF SharesMounted
  <2> QED
    BY <1>1, <2>1, <2>2 DEF IsHost
<1>3. dir # Unset
  <2>1. CASE ReadFile = Absent
    <3>1. Read = Synth(host.cmdline)
      BY <2>1, FilesAreDistinct DEF Read
    <3>2. Read.containers = <<Read.containers[1]>> /\ Read.containers[1].id = "main"
      BY <3>1 DEF Synth
    <3>3. c.id = "main"
      BY <3>2
    <3> QED
      BY <1>1, <3>3 DEF IsHost, ContainerIds
  <2>2. CASE ReadFile # Absent
    <3>1. Read = host.podJson /\ host.podJson \notin NoFile
      BY <1>1, <2>2 DEF Loaded, Read, ReadFile, Seen, NoFile
    <3>2. c.id \in ContainerIds(host)
      BY <3>1 DEF ContainerIds
    <3> QED
      BY <1>1, <3>2 DEF IsHost
  <2> QED
    BY <2>1, <2>2
<1>4. \A j \in DOMAIN S : Shows(S[j].path) = S[j].tag
  BY <1>1, SharesShown
<1>5. Shows(dir) # Unset <=> \E j \in DOMAIN S : S[j].path = dir
  <2>1. ASSUME \A j \in DOMAIN S : S[j].path # dir
        PROVE  Shows(dir) = Unset
    <3> DEFINE k == IF host.cmdline.config = Unset THEN 0 ELSE 1
    <3>1. /\ DOMAIN mounted = 1..(k + Len(S))
          /\ k = 1 => mounted[1] = [tag |-> host.cmdline.config, path |-> CfgDir]
          /\ \A j \in DOMAIN S : mounted[k + j] = S[j]
      BY <1>1, MountedList
    <3>2. CfgDir # dir
      <4>1. Len(CfgDir) = 1 /\ Len(dir) = 2
        BY DEF CfgDir, RootfsDir
      <4> HIDE DEF dir
      <4> QED
        BY <4>1
    <3>3. k \in {0, 1}
      OBVIOUS
    <3> HIDE DEF S, dir, k
    <3>4. k = 1 => mounted[1].path # dir
      BY <3>1, <3>2
    <3>5. ASSUME NEW j \in DOMAIN mounted
          PROVE  mounted[j].path # dir
      <4>1. (k = 1 /\ j = 1) \/ (j - k \in DOMAIN S /\ k + (j - k) = j)
        BY <1>2, <3>1, <3>3
      <4> QED
        BY <2>1, <3>1, <3>4, <4>1
    <3> QED
      BY <3>5, ShowsNothing
  <2>2. ASSUME NEW j \in DOMAIN S, S[j].path = dir
        PROVE  Shows(dir) # Unset
    BY <1>2, <1>4, <2>2
  <2> QED
    BY <2>1, <2>2
<1>6. {k \in DOMAIN spec.shares : spec.shares[k].tag = c.tag} = ShareOf(c)
  BY <1>0, <1>2 DEF ShareOf
<1>7. CASE ShareOf(c) # {}
  <2> DEFINE m == Min(ShareOf(c))
  <2>1. m \in ShareOf(c)
    <3>1. ShareOf(c) \subseteq Nat
      BY <1>0, <1>2 DEF ShareOf
    <3> QED
      BY <1>7, <3>1, MinIsMember
  <2>2. m \in DOMAIN S /\ S[m].tag = c.tag
    BY <1>0, <2>1 DEF ShareOf
  <2>3. ResolveRootfs(c) = S[m].path
    BY <1>2, <1>6, <1>7 DEF ResolveRootfs
  <2>4. HasRootfs(c) /\ ResolveRootfs(c) # Unset /\ Shows(ResolveRootfs(c)) = c.tag
    BY <1>2, <1>4, <1>7, <2>2, <2>3 DEF HasRootfs
  <2>5. ImageAt(ResolveRootfs(c)) = IF c.tag \in DOMAIN host.images THEN host.images[c.tag] ELSE Absent
    BY <2>4 DEF ImageAt
  <2>6. ImageOf(c) = {host.images[t] : t \in {c.tag} \cap DOMAIN host.images}
    BY <1>7 DEF ImageOf
  <2> QED
    BY <2>4, <2>5, <2>6 DEF HasEntrypoint
<1>8. CASE ShareOf(c) = {}
  <2>1. HasRootfs(c) <=> HasDir(c)
    BY <1>0, <1>5, <1>8 DEF HasRootfs, HasDir
  <2>2. ResolveRootfs(c) = IF HasDir(c) THEN dir ELSE Unset
    BY <1>6, <1>8 DEF ResolveRootfs
  <2>3. ImageAt(dir) = IF Shows(dir) \in DOMAIN host.images THEN host.images[Shows(dir)] ELSE Absent
    BY DEF ImageAt
  <2>4. ImageOf(c) = {host.images[t] : t \in {S[j].tag : j \in {k \in DOMAIN S : S[k].path = dir}}
                                              \cap DOMAIN host.images}
    BY <1>0, <1>8 DEF ImageOf
  <2> HIDE DEF S, dir
  <2>5. {S[j].tag : j \in {k \in DOMAIN S : S[k].path = dir}} = {Shows(dir)} \ {Unset}
    <3>1. \A j \in DOMAIN S : S[j].path = dir => S[j].tag = Shows(dir)
      BY <1>4
    <3> QED
      BY <1>5, <3>1
  <2>6. Unset \notin DOMAIN host.images
    BY <1>1 DEF IsHost
  <2>7. /\ HasEntrypoint(ImageAt(dir)) <=> \E image \in ImageOf(c) : HasEntrypoint(image)
        /\ HasEntrypoint(ImageAt(dir)) => ImageOf(c) = {ImageAt(dir)}
    BY <2>3, <2>4, <2>5, <2>6 DEF HasEntrypoint
  <2> QED
    BY <1>3, <2>1, <2>2, <2>7
<1> QED
  BY <1>7, <1>8

-----------------------------------------------------------------------------
(* The containers, one after the other.                                    *)

LEMMA EnteredStays ==
  ASSUME UNCHANGED <<host, pseudo, mounted>>, spec'.shares = spec.shares
  PROVE  \A c : Entered(c)' = Entered(c) /\ Enriched(c)' = Enriched(c)
<1>1. \A c : Entered(c)' = Entered(c)
  BY DEF Entered, HasEntrypoint, ImageAt, ResolveRootfs, HasDir, Shows, InitramfsShown
<1>2. \A c : Enriched(c)' = Enriched(c)
  BY DEF Enriched, EnrichFromImage, EnvOf, ImageAt, ResolveRootfs, HasDir, Shows, InitramfsShown
<1> QED
  BY <1>1, <1>2

LEMMA NextCompleted ==
  ASSUME BootInv, Completed, [Next]_vars
  PROVE  Completed'
<1> SUFFICES ASSUME phase' \in AfterLoad
             PROVE  Completed'
  BY DEF Completed
<1> DEFINE L == spec.containers
           A == Read.containers
           Runs(i) == L[i] = Enriched(A[i]) /\ L[i].command # <<>> /\ Entered(A[i])
<1>1. Turn /\ Loaded' /\ host' = host
  BY NextLoaded, Frame DEF BootInv
<1>2. phase \in AfterLoad \cup {"load"}
  BY <1>1, Phases DEF Turn, Follows, BeforeLoad, AfterLoad, Stopped
<1>3. UNCHANGED <<pseudo, Read>>
  BY <1>1, <1>2, ChangesIn, AskedStays DEF AfterLoad
<1>4. Len(L') \in Nat /\ DOMAIN L' = 1..Len(L')
  BY <1>1 DEF Loaded, IsPod, IsList
<1>5. CASE phase = "load"
  <2>1. phase' = "shares"
    BY <1>5, Phases DEF Follows, AfterLoad, Stopped
  <2>2. LoadSpec
    BY <1>5, <2>1, Advances DEF Stopped
  <2>3. L' = A
    BY <2>1, <2>2, LoadAsked
  <2>4. \A i \in DOMAIN L' : i > 0
    BY <1>4
  <2> QED
    BY <1>3, <2>1, <2>3, <2>4 DEF Completed
<1>6. CASE phase \in {"shares", "cubefs"}
  <2>1. spec' = spec
    BY <1>6, ChangesIn
  <2>2. phase' \in {"shares", "cubefs"} \/ (phase' = "enrich" /\ n' = 1)
    BY <1>6, Phases DEF Follows, AfterLoad, Stopped
  <2>3. \A i \in DOMAIN L' : i > 0 /\ i > 1 - 1
    BY <1>4
  <2>4. \A i \in DOMAIN L : L[i] = A[i]
    BY <1>6, <2>1, <2>3 DEF Completed, AfterLoad
  <2> QED
    BY <1>3, <2>1, <2>2, <2>3, <2>4 DEF Completed
<1>7. CASE phase = "enrich" /\ UNCHANGED <<phase, n>>
  <2>1. spec' = spec /\ mounted' = mounted
    <3>1. ~EnrichContainers
      <4>1. n \in Nat
        BY DEF BootInv, Ranges
      <4> QED
        BY <1>7, <4>1 DEF EnrichContainers, Goto, Fail
    <3> QED
      BY <1>7, <3>1, Frame, ChangesIn DEF LoadSpec
  <2>2. \A c : Entered(c)' = Entered(c) /\ Enriched(c)' = Enriched(c)
    BY <1>1, <1>3, <2>1, EnteredStays
  <2> QED
    BY <1>3, <1>7, <2>1, <2>2 DEF Completed
<1>8. CASE phase = "enrich" /\ ~UNCHANGED <<phase, n>>
  <2> DEFINE c == L[n]
             image == ImageAt(ResolveRootfs(c))
  <2>1. EnrichContainers /\ mounted' = mounted
    BY <1>8, Advances, ChangesIn DEF AfterLoad, Stopped
  <2>2. /\ n \in Nat \ {0} /\ Len(L) \in Nat /\ DOMAIN L = 1..Len(L)
        /\ \A i \in DOMAIN L : IF i > n - 1 THEN L[i] = A[i] ELSE Runs(i)
    BY <1>8 DEF BootInv, Ranges, Loaded, AfterLoad, IsPod, IsList, Completed
  <2>3. /\ \/ spec' = spec
           \/ n \in DOMAIN L
        /\ spec'.shares = spec.shares /\ DOMAIN L' = DOMAIN L
        /\ \A i \in DOMAIN L : i # n => L'[i] = L[i]
    <3>1. CASE spec' # spec
      BY <1>4, <2>1, <2>2, <3>1, EnrichKeeps DEF NoSpec
    <3> QED
      BY <3>1
  <2>4. \A d : Entered(d)' = Entered(d) /\ Enriched(d)' = Enriched(d)
    BY <1>1, <1>3, <2>1, <2>3, EnteredStays
  <2>5. CASE n > Len(L)
    <3>1. phase' = "network" /\ spec' = spec
      BY <2>1, <2>5 DEF EnrichContainers, Goto
    <3>2. \A i \in DOMAIN L : ~(i > n - 1) /\ ~(i > Len(L))
      BY <2>2, <2>5
    <3>3. \A i \in DOMAIN L : Runs(i)
      BY <2>2, <3>2
    <3> QED
      BY <1>3, <2>4, <3>1, <3>2, <3>3 DEF Completed
  <2>6. CASE ~(n > Len(L))
    <3>1. n \in DOMAIN L /\ c = A[n]
      BY <2>2, <2>6
    <3>2. n' = n + 1 /\ phase' = "enrich"
      BY <1>8, <2>1, <2>6 DEF EnrichContainers, Fail, AfterLoad
    <3>3. L'[n] = Enriched(A[n]) /\ L'[n].command # <<>> /\ Entered(A[n])
      <4>1. CASE c.command # <<>>
        <5>1. spec' = spec
          BY <2>1, <2>6, <4>1 DEF EnrichContainers
        <5> QED
          BY <3>1, <4>1, <5>1 DEF Entered, Enriched
      <4>2. CASE c.command = <<>>
        <5>1. HasEntrypoint(image) /\ spec' = [spec EXCEPT !.containers[n] = EnrichFromImage(c, image)]
          BY <2>1, <2>6, <3>2, <4>2 DEF EnrichContainers, Fail, AfterLoad
        <5>2. DOMAIN c = ContainerFields /\ DOMAIN spec = DOMAIN NoSpec
          BY <1>8, <3>1 DEF BootInv, Loaded, AfterLoad, IsPod
        <5>3. EnrichFromImage(c, image).command = image.args
          BY <5>2 DEF EnrichFromImage, ContainerFields
        <5>4. L'[n] = EnrichFromImage(c, image)
          BY <3>1, <5>1, <5>2 DEF NoSpec
        <5> QED
          BY <3>1, <4>2, <5>1, <5>3, <5>4 DEF Entered, Enriched, HasEntrypoint
      <4> QED
        BY <4>1, <4>2
    <3>4. ASSUME NEW i \in DOMAIN L'
          PROVE  IF i > (n + 1) - 1 THEN L'[i] = A[i]
                 ELSE L'[i] = Enriched(A[i]) /\ L'[i].command # <<>> /\ Entered(A[i])
      <4>1. i \in DOMAIN L /\ i \in Nat
        BY <2>2, <2>3
      <4>2. CASE i = n
        <5>1. ~(i > (n + 1) - 1)
          BY <2>2, <4>2
        <5> QED
          BY <3>3, <4>2, <5>1
      <4>3. CASE i # n
        <5>1. L'[i] = L[i]
          BY <2>3, <4>1, <4>3
        <5>2. i > n - 1 <=> i > (n + 1) - 1
          BY <2>2, <4>1, <4>3
        <5> QED
          BY <2>2, <4>1, <5>1, <5>2
      <4> QED
        BY <4>2, <4>3
    <3> QED
      BY <1>3, <2>4, <3>2, <3>4 DEF Completed
  <2> QED
    BY <2>5, <2>6
<1>9. CASE phase \in AfterLoad \ {"shares", "cubefs", "enrich"}
  <2>1. UNCHANGED <<spec, mounted>>
    BY <1>9, ChangesIn DEF AfterLoad
  <2>2. phase' \notin {"shares", "cubefs", "enrich"}
    BY <1>9, Phases DEF Follows, AfterLoad, Stopped
  <2>3. \A c : Entered(c)' = Entered(c) /\ Enriched(c)' = Enriched(c)
    BY <1>1, <1>3, <2>1, EnteredStays
  <2> QED
    BY <1>3, <1>9, <2>1, <2>2, <2>3 DEF Completed
<1> QED
  BY <1>2, <1>5, <1>6, <1>7, <1>8, <1>9

-----------------------------------------------------------------------------
(* The network, step by step.                                              *)

(* A gateway is on a network of the interface with the pod's address if it *)
(* is on one that was there, or on the pod's own.                          *)
LEMMA JoinedReaches ==
  ASSUME NEW set, set \subseteq Net!Address, NEW a \in Net!Address \cup {Unset}, NEW gateway
  PROVE  (\E b \in Joined(set, a) : Net!Covers(b, gateway)) <=>
            \/ \E b \in set : Net!Covers(b, gateway)
            \/ /\ a # Unset /\ ~(a.ip.family = 6 /\ \E b \in set : b.ip = a.ip)
               /\ Net!Covers(a, gateway)
<1>1. CASE a = Unset
  BY <1>1 DEF Joined
<1>2. CASE a # Unset
  <2>1. a.ip.family \in {4, 6}
    BY <1>2 DEF Net!Address, Net!IP, Net!Family
  <2> QED
    BY <1>2, <2>1 DEF Joined
<1> QED
  BY <1>1, <1>2

(* What Apply needs of the pod's network is what makes it sound.           *)
LEMMA NetworkSoundWhen ==
  ASSUME host \in Host, Loaded, phase \in AfterLoad, Read.network # Unset, NothingBeneath
  PROVE  LET w == Read.network
             set == host.kernel.addrs[PodIface]
         IN  NetworkSound <=>
               /\ host.kernel.link[PodIface] # "absent"
               /\ w.address # Broken /\ w.gateway # Broken
               /\ w.gateway # Unset => \E b \in Joined(set, w.address) : Net!Covers(b, w.gateway)
<1> DEFINE w == Read.network
           set == host.kernel.addrs[PodIface]
<1>1. NetworkCall(w) \in Requests(host) /\ IsHost(host)
  BY CallsAsked, HostsAreSound
<1>2. Net!WellFormed(NetworkCall(w)) /\ Net!KernelSound(host.kernel)
  BY <1>1 DEF IsHost
<1>3. /\ NetworkCall(w).kind = "network" /\ NetworkCall(w).config = w
      /\ Net!IfaceOf(NetworkCall(w)) = PodIface
  BY DEF NetworkCall, Net!IfaceOf, PodIface
<1>4. PodIface \in Iface /\ w.address \in Net!Address \cup {Unset, Broken}
  BY <1>2, <1>3 DEF Net!WellFormed
<1>5. set \subseteq Net!Address
  BY <1>2, <1>4 DEF Net!KernelSound
<1> HIDE DEF w
<1>6. w.address # Broken =>
        ((\E b \in Joined(set, w.address) : Net!Covers(b, w.gateway)) <=>
            \/ \E b \in set : Net!Covers(b, w.gateway)
            \/ /\ w.address # Unset
               /\ ~(w.address.ip.family = 6 /\ \E b \in set : b.ip = w.address.ip)
               /\ Net!Covers(w.address, w.gateway))
  <2> SUFFICES ASSUME w.address # Broken
               PROVE  (\E b \in Joined(set, w.address) : Net!Covers(b, w.gateway)) <=>
                        \/ \E b \in set : Net!Covers(b, w.gateway)
                        \/ /\ w.address # Unset
                           /\ ~(w.address.ip.family = 6 /\ \E b \in set : b.ip = w.address.ip)
                           /\ Net!Covers(w.address, w.gateway)
    OBVIOUS
  <2> DEFINE a == w.address
             g == w.gateway
             s == set
  <2>1. a \in Net!Address \cup {Unset} /\ s \subseteq Net!Address
    BY <1>4, <1>5
  <2> HIDE DEF a, g, s
  <2>2. (\E b \in Joined(s, a) : Net!Covers(b, g)) <=>
            \/ \E b \in s : Net!Covers(b, g)
            \/ /\ a # Unset /\ ~(a.ip.family = 6 /\ \E b \in s : b.ip = a.ip)
               /\ Net!Covers(a, g)
    BY <2>1, JoinedReaches
  <2> QED
    BY <2>2 DEF a, g, s
<1>7. Asked.network = Read.network
  BY ReadsAsked
<1> QED
  BY <1>6, <1>7 DEF NetworkSound, PodIface, w

(* The call of Apply at boot is for the pod's network.                     *)
LEMMA Applying ==
  ASSUME BootInv, phase = "applying"
  PROVE  /\ pc[PID1] \in NetProofs!NetworkSteps
         /\ req[PID1].config = Read.network /\ NetProofs!IfaceOf(req[PID1]) = PodIface
         /\ PodIface \in Iface
<1>1. NetProofs!TypeOK /\ Turn /\ pc[PID1] # "idle" /\ req[PID1] = NetworkCall(Read.network)
  BY DEF BootInv, NetProofs!Inv, Turn
<1>2. req[PID1].kind = "network" /\ req[PID1].config = Read.network
  BY <1>1 DEF NetworkCall
<1>3. pc[PID1] \in NetProofs!NetworkSteps
  <2>1. pc[PID1] \in {"idle"} \cup NetProofs!NetworkSteps \cup NetProofs!OverlaySteps
    BY <1>1 DEF NetProofs!TypeOK
  <2>2. pc[PID1] \in NetProofs!OverlaySteps => req[PID1].kind = "overlay"
    BY <1>1 DEF NetProofs!TypeOK
  <2> QED
    BY <1>1, <1>2, <2>1, <2>2
<1>4. NetProofs!IfaceOf(req[PID1]) = PodIface
  BY <1>2 DEF NetProofs!IfaceOf, PodIface
<1>5. PodIface \in Iface
  BY <1>1, <1>4 DEF NetProofs!TypeOK, NetProofs!WellFormed
<1> QED
  BY <1>2, <1>3, <1>4, <1>5

LEMMA NextAppliedSoFar ==
  ASSUME BootInv, FoundStill, AppliedSoFar, [Next]_vars
  PROVE  AppliedSoFar'
<1> SUFFICES ASSUME phase' = "applying"
             PROVE  AppliedSoFar'
  BY DEF AppliedSoFar
<1> DEFINE at == pc[PID1]
           i == PodIface
           w == Read.network
           set == host.kernel.addrs[i]
<1>1. /\ Turn /\ Loaded /\ NetProofs!Inv /\ NetProofs!TypeOK /\ host \in Host
      /\ phase \in {"network", "applying"} /\ host' = host
  BY Phases, Frame DEF BootInv, NetProofs!Inv, Unloaded, Turn, Follows, BeforeLoad, AfterLoad, Stopped
<1>2. UNCHANGED <<pseudo, Read, PodIface, NothingBeneath, NetworkSound>>
  BY <1>1, ChangesIn, AskedStays, SoundStays
<1>3. CASE phase = "network"
  <2>1. NetworkApply
    BY <1>3, CallPhases DEF ApplyWireGuard
  <2>2. spec.network # Unset /\ Net!Begin(PID1, NetworkCall(spec.network))
    BY <1>3, <2>1 DEF NetworkApply, Goto
  <2>3. spec.network = w
    BY <1>1, <1>3 DEF Loaded, AfterLoad, NoSpec
  <2>4. pc'[PID1] = "index" /\ UNCHANGED <<link, addrs>>
    BY <1>1, <2>2 DEF Net!Begin, Net!kernel, NetProofs!TypeOK, NetworkCall
  <2> QED
    BY <1>1, <1>2, <1>3, <2>2, <2>3, <2>4 DEF AppliedSoFar, FoundStill
<1>4. CASE phase = "applying" /\ UNCHANGED network
  BY <1>1, <1>2, <1>4 DEF AppliedSoFar, network
<1>5. CASE phase = "applying" /\ NetworkStep
  <2>1. /\ NetProofs!Step(PID1) /\ UNCHANGED req /\ pc'[PID1] # "idle"
    BY <1>1, <1>5, StepOutcome DEF Goto, Fail
  <2>2. /\ at \in NetProofs!NetworkSteps /\ i \in Iface
        /\ req[PID1].config = w /\ NetProofs!IfaceOf(req[PID1]) = i
    BY <1>5, Applying
  <2>3. /\ w # Unset
        /\ at \in {"index", "up"} => link = host.kernel.link
        /\ at \in {"index", "up", "address"} => addrs = host.kernel.addrs
        /\ at \in {"up", "address", "route"} => host.kernel.link[i] # "absent"
        /\ at = "route" => w.address # Broken /\ addrs[i] = Joined(set, w.address)
        /\ at \in {"dns", "write", "hostname"} /\ NothingBeneath => NetworkSound
    BY <1>5 DEF AppliedSoFar
  <2>4. /\ at' = "up" => link[i] # "absent" /\ UNCHANGED <<link, addrs>>
        /\ at' = "address" => addrs' = addrs
        /\ at' = "route" =>
              /\ w.address # Broken
              /\ addrs'[i] = IF w.address = Unset \/ NetProofs!Taken(i, w.address) THEN addrs[i]
                             ELSE addrs[i] \cup {w.address}
        /\ at' = "dns" =>
              /\ w.gateway # Broken
              /\ w.gateway # Unset => \E a \in addrs[i] : NetProofs!Covers(a, w.gateway)
    BY <1>1, <2>1, <2>2, NetworkAssumptions, NetProofs!ApplyEffects
  <2>5. /\ at' = "up" => at = "index"
        /\ at' = "address" => at = "up"
        /\ at' = "route" => at = "address"
        /\ at' = "dns" => at = "route"
        /\ at' = "write" => at = "dns"
        /\ at' = "hostname" => at \in {"dns", "write"}
        /\ at' # "index"
    BY <1>1, <2>1, NetworkAssumptions, NetProofs!NetworkProgress
  <2>6. at' = "route" => addrs'[i] = Joined(set, w.address)
    <3> SUFFICES ASSUME at' = "route"
                 PROVE  addrs'[i] = Joined(set, w.address)
      OBVIOUS
    <3>1. addrs[i] = set
      BY <2>3, <2>5
    <3> QED
      BY <2>4, <3>1 DEF Joined, NetProofs!Taken
  <2>7. at' = "dns" /\ NothingBeneath => NetworkSound
    <3> SUFFICES ASSUME at' = "dns", NothingBeneath
                 PROVE  NetworkSound
      OBVIOUS
    <3>1. /\ host.kernel.link[i] # "absent" /\ w.address # Broken
          /\ addrs[i] = Joined(set, w.address)
      BY <2>3, <2>5
    <3>2. /\ w.gateway # Broken
          /\ w.gateway # Unset => \E a \in Joined(set, w.address) : Net!Covers(a, w.gateway)
      BY <2>4, <3>1, SameCovers
    <3> QED
      BY <1>1, <1>5, <2>3, <3>1, <3>2, NetworkSoundWhen DEF AfterLoad
  <2>8. at' \in NetProofs!NetworkSteps
    BY <1>1, <2>1, <2>2, NetworkAssumptions, NetProofs!ControlKept
  <2> HIDE DEF at, i, w, set
  <2>9. /\ at' \in {"index", "up"} => link' = host.kernel.link
        /\ at' \in {"index", "up", "address"} => addrs' = host.kernel.addrs
        /\ at' \in {"up", "address", "route"} => host.kernel.link[i] # "absent"
        /\ at' = "route" => w.address # Broken /\ addrs'[i] = Joined(set, w.address)
        /\ at' \in {"dns", "write", "hostname"} /\ NothingBeneath => NetworkSound
    BY <2>3, <2>4, <2>5, <2>6, <2>7
  <2> QED
    BY <1>1, <1>2, <2>3, <2>9 DEF AppliedSoFar, at, i, w, set
<1>6. phase = "applying" => NetworkStep \/ UNCHANGED network
  BY CallPhases
<1> QED
  BY <1>1, <1>3, <1>4, <1>5, <1>6

(* A call that run() goes on after has come to its end.                    *)
LEMMA CallEnds ==
  ASSUME BootInv, [Next]_vars
  PROVE  /\ phase' = "overlay" /\ phase = "applying" => pc[PID1] = "hostname"
         /\ phase' = "bundles" /\ phase = "peering" => pc[PID1] = "widen"
<1> SUFFICES ASSUME \/ phase = "applying" /\ phase' = "overlay"
                    \/ phase = "peering" /\ phase' = "bundles"
             PROVE  /\ phase = "applying" => pc[PID1] = "hostname"
                    /\ phase = "peering" => pc[PID1] = "widen"
  OBVIOUS
<1>1. NetProofs!TypeOK /\ Turn /\ NetworkStep
  BY CallPhases DEF BootInv, NetProofs!Inv
<1>2. NetProofs!Step(PID1)
      /\ LET a == [req |-> req[PID1], result |-> "ok", past |-> past[PID1]] IN
         answers' = answers \cup {a} /\ a \notin answers
  BY <1>1, StepOutcome DEF Fail
<1> DEFINE a == [req |-> req[PID1], result |-> "ok", past |-> past[PID1]]
<1>3. a \in answers' \ answers /\ a.result = "ok"
  BY <1>2
<1> HIDE DEF a
<1>4. NetProofs!SetHostname(PID1) \/ NetProofs!WidenAddress(PID1)
  BY <1>1, <1>2, <1>3, NetworkAssumptions, NetProofs!Succeeds
<1>5. pc[PID1] \in {"hostname", "widen"}
  BY <1>4 DEF NetProofs!SetHostname, NetProofs!WidenAddress, NetProofs!At
<1>6. /\ phase = "applying" => req[PID1].kind = "network"
      /\ phase = "peering" => req[PID1].kind = "overlay"
  <2>1. phase = "applying" => req[PID1] = NetworkCall(Read.network)
    BY <1>1 DEF Turn
  <2>2. phase = "peering" => \E wg : req[PID1] = OverlayCall(wg)
    BY <1>1 DEF Turn
  <2>3. \A w : NetworkCall(w).kind = "network" /\ OverlayCall(w).kind = "overlay"
    BY DEF NetworkCall, OverlayCall
  <2> QED
    BY <2>1, <2>2, <2>3
<1>7. /\ pc[PID1] = "widen" => req[PID1].kind = "overlay"
      /\ pc[PID1] = "hostname" => req[PID1].kind = "network"
  <2>1. /\ "widen" \in NetProofs!OverlaySteps /\ "hostname" \in NetProofs!NetworkSteps
    BY DEF NetProofs!NetworkSteps, NetProofs!OverlaySteps, NetProofs!KeyHeld
  <2> QED
    BY <1>1, <2>1 DEF NetProofs!TypeOK
<1> QED
  BY <1>5, <1>6, <1>7

LEMMA NextJudged ==
  ASSUME BootInv, NetworkAtBoot, AppliedSoFar, Judged, [Next]_vars
  PROVE  Judged'
<1>1. Turn /\ Turn' /\ Loaded /\ host' = host /\ NetProofs!Decoded
  BY NextTurn, Frame DEF BootInv, NetProofs!Inv
<1>2. phase \in {"network", "applying", "overlay", "peering"} \cup Late =>
        UNCHANGED <<Read, ReadOverlay, NothingBeneath, NothingHidden, NetworkSound, OverlaySound>>
  BY <1>1, ChangesIn, AskedStays, SoundStays DEF Late
<1>3. ASSUME phase' \in {"overlay", "peering"} \cup Late, NothingBeneath'
      PROVE  NetworkSound'
  <2>1. phase \in {"network", "applying", "overlay", "peering"} \cup Late
    BY <1>1, <1>3, Phases DEF Turn, Follows, BeforeLoad, AfterLoad, Stopped, Late
  <2>2. CASE phase = "network"
    <3>1. NetworkApply /\ phase' = "overlay"
      BY <1>3, <2>2, Advances, Phases DEF Stopped, Late, Follows
    <3>2. spec.network = Unset
      BY <3>1 DEF NetworkApply, Goto
    <3>3. Asked.network = Unset
      BY <1>1, <1>2, <1>3, <2>1, <2>2, <3>2, ReadsAsked DEF Loaded, AfterLoad, NoSpec
    <3> QED
      BY <1>2, <2>1, <3>3 DEF NetworkSound
  <2>3. CASE phase = "applying"
    <3>1. phase' = "overlay"
      BY <1>3, <2>3, Phases DEF Follows, Stopped, Late
    <3>2. pc[PID1] = "hostname"
      BY <2>3, <3>1, CallEnds
    <3> QED
      BY <1>2, <1>3, <2>1, <2>3, <3>2 DEF AppliedSoFar
  <2> QED
    BY <1>2, <1>3, <2>1, <2>2, <2>3 DEF Judged
<1>4. ASSUME phase' = "peering", NothingHidden', Read'.wireguard = Unset
      PROVE  ReadOverlay' # Broken /\ ValidWireGuard(ReadOverlay)'
  <2>1. phase \in {"overlay", "peering"}
    BY <1>1, <1>4, Phases DEF Turn, Follows, BeforeLoad, AfterLoad, Stopped
  <2>2. CASE phase = "overlay"
    <3> DEFINE wg == IF spec.wireguard # Unset THEN spec.wireguard ELSE ConfigFile(host.wireguardJson)
    <3>1. ApplyWireGuard
      BY <1>4, <2>2, Advances DEF Stopped
    <3>2. spec.wireguard = Unset
      BY <1>1, <1>2, <1>4, <2>2 DEF Loaded, AfterLoad, NoSpec
    <3>3. wg # Broken /\ ValidWireGuard(wg)
      BY <1>4, <3>1, <3>2 DEF ApplyWireGuard, Goto, Fail
    <3>4. ReadOverlay = wg
      BY <1>2, <1>4, <2>2, OverlayGiven
    <3> HIDE DEF wg
    <3> QED
      BY <1>2, <2>2, <3>3, <3>4 DEF ValidWireGuard
  <2>3. CASE phase = "peering"
    BY <1>2, <1>4, <2>3 DEF Judged, ValidWireGuard
  <2> QED
    BY <2>1, <2>2, <2>3
<1>5. ASSUME phase' \in Late, NothingHidden'
      PROVE  OverlaySound'
  <2>1. phase \in {"overlay", "peering"} \cup Late
    BY <1>1, <1>5, Phases DEF Turn, Follows, BeforeLoad, AfterLoad, Stopped, Late
  <2>2. CASE phase = "overlay"
    <3> DEFINE wg == IF spec.wireguard # Unset THEN spec.wireguard ELSE ConfigFile(host.wireguardJson)
    <3>1. ApplyWireGuard /\ phase' # "peering"
      BY <1>5, <2>2, Advances DEF Stopped, Late
    <3>2. wg = Absent
      BY <1>5, <3>1 DEF ApplyWireGuard, Goto, Fail, Late
    <3>3. ReadOverlay = wg
      BY <1>2, <1>5, <2>2, OverlayGiven
    <3>4. ReadOverlay = AskedOverlay
      BY <1>2, <1>5, <2>1, ReadsAsked DEF NothingHidden
    <3> QED
      BY <1>2, <2>2, <3>2, <3>3, <3>4 DEF OverlaySound
  <2>3. CASE phase = "peering"
    <3>1. phase' = "bundles"
      BY <1>5, <2>3, Phases DEF Follows, Stopped, Late
    <3>2. pc[PID1] = "widen"
      BY <2>3, <3>1, CallEnds
    <3>3. NetProofs!ValidOverlay(req[PID1].config)
      BY <1>1, <3>2 DEF NetProofs!Decoded, NetProofs!OverlaySteps, NetProofs!KeyHeld
    <3>4. req[PID1].config = ReadOverlay
      <4>1. PICK wg : req[PID1] = OverlayCall(wg) /\ wg = ReadOverlay
        BY <1>1, <1>2, <1>5, <2>3 DEF Turn
      <4> QED
        BY <4>1 DEF OverlayCall
    <3>5. Net!ValidOverlay(ReadOverlay)
      BY <3>3, <3>4, SameCovers
    <3>6. Read = Asked /\ ReadOverlay = AskedOverlay
      BY <1>2, <1>5, <2>1, ReadsAsked DEF NothingHidden
    <3> QED
      BY <1>2, <1>5, <2>3, <3>5, <3>6 DEF Judged, OverlaySound
  <2> QED
    BY <1>2, <1>5, <2>1, <2>2, <2>3 DEF Judged
<1> QED
  BY <1>3, <1>4, <1>5 DEF Judged

-----------------------------------------------------------------------------
(* A step that ends the boot, and not for a fault.                         *)

LEMMA FaultsStay ==
  ASSUME BootInv, [Next]_vars
  PROVE  /\ fault \subseteq fault'
         /\ Trouble \/ RebootFails \/ EarlySignal => fault' # {}
<1>1. NetProofs!TypeOK /\ Turn
  BY DEF BootInv, NetProofs!Inv
<1>2. fault \subseteq fault'
  BY <1>1, StepOutcome, Frame DEF Trouble, RebootFails, EarlySignal, MountPseudoFS
<1>3. Trouble \/ RebootFails \/ EarlySignal => fault' # {}
  BY DEF Trouble, RebootFails, EarlySignal
<1> QED
  BY <1>2, <1>3

(* With both file systems mounted, what init sees is what the host shows.  *)
LEMMA SeesAll ==
  ASSUME pseudo = {"proc", "run"}
  PROVE  Cmdline = host.cmdline /\ ~InitramfsShown
BY DEF Cmdline, InitramfsShown

LEMMA LoadFailsUnsound ==
  ASSUME BootInv, LoadSpec, pseudo = {"proc", "run"}, NothingHidden, phase' = "failed"
  PROVE  ~Sound
<1> DEFINE file == ConfigFile(host.podJson)
<1>1. Shows(CfgDir) = Cmdline.config /\ Cmdline = host.cmdline /\ ~InitramfsShown
  BY SeesAll, ConfigShown DEF BootInv, LoadSpec
<1>2. file = host.podJson
  BY <1>1, ReadsAsked DEF ConfigFile, ReadFile, Seen, NothingHidden
<1>3. \/ file = Absent /\ Cmdline.rootfs = Unset
      \/ file = Broken
      \/ file # Absent /\ ~ValidSpec(file)
  <2>1. CASE file = Absent
    BY <2>1 DEF LoadSpec, Goto
  <2>2. CASE file # Absent /\ file # Broken
    BY <2>2 DEF LoadSpec, Goto
  <2> QED
    BY <2>1, <2>2
<1> HIDE DEF file
<1> QED
  BY <1>1, <1>2, <1>3 DEF Sound

LEMMA SharesFailUnsound ==
  ASSUME BootInv, NothingHidden, MountShares, phase' = "failed"
  PROVE  ~Sound
<1>1. /\ phase = "shares" /\ ~(n > Len(spec.shares))
      /\ ~(spec.shares[n].path # Unset /\ spec.shares[n].tag \in host.offered)
  BY DEF MountShares, Goto, Fail
<1>2. spec.shares = Read.shares /\ IsList(Read.shares) /\ n \in Nat \ {0}
  BY <1>1 DEF BootInv, Loaded, AfterLoad, NoSpec, IsPod, Ranges
<1>3. n \in DOMAIN Read.shares /\ Read = Asked
  BY <1>1, <1>2, ReadsAsked DEF IsList, NothingHidden
<1> QED
  BY <1>1, <1>2, <1>3 DEF Sound

(* A CubeFS share that has what a client is given, at a time when the      *)
(* masters are reached, fails no boot.                                     *)
LEMMA MountableEarlyMounts ==
  ASSUME BootInv, FoundStill, MountCubeFSShares, NothingBeneath, MountableEarly
  PROVE  phase' \notin Stopped
<1> DEFINE m == Read.shareMounts[n]
<1> SUFFICES ASSUME phase' \in Stopped
             PROVE  FALSE
  OBVIOUS
<1>1. phase = "cubefs" /\ Loaded /\ "proc" \in pseudo
  BY DEF MountCubeFSShares, BootInv, Loaded, AfterLoad
<1>2. spec.shareMounts = Read.shareMounts /\ IsList(Read.shareMounts) /\ n \in Nat \ {0}
  BY <1>1 DEF BootInv, Loaded, AfterLoad, NoSpec, IsPod, Ranges
<1>3. ~(n > Len(Read.shareMounts)) /\ EffectiveBackend(m) = "cubefs"
  BY <1>1, <1>2 DEF MountCubeFSShares, Goto, Stopped
<1>4. n \in DOMAIN Read.shareMounts
  BY <1>2, <1>3 DEF IsList
<1>5. /\ m.cubefs # Unset /\ m.cubefs.owner # Unset
      /\ host.masters = "local" /\ host.kernel.link["eth0"] = "up" /\ host.kernel.addrs["eth0"] # {}
  BY <1>4, ReadsAsked DEF MountableEarly
<1>6. MastersReached
  BY <1>1, <1>5 DEF FoundStill, MastersReached
<1>7. ~ValidShareMount(m)
  BY <1>1, <1>2, <1>3, <1>5, <1>6 DEF MountCubeFSShares, Stopped
<1>8. CASE ReadFile = Absent
  <2>1. Read.shareMounts = SynthShareMounts(host.cmdline)
    BY <1>8, FilesAreDistinct DEF Read, Synth
  <2>2. m.cubefs.owner = Unset
    BY <1>4, <2>1 DEF SynthShareMounts
  <2> QED
    BY <1>5, <2>2
<1>9. CASE ReadFile # Absent
  <2>1. Read = ReadFile /\ ValidSpec(ReadFile)
    BY <1>1, <1>9 DEF Read, Loaded, AfterLoad
  <2> QED
    BY <1>4, <1>7, <2>1 DEF ValidSpec
<1> QED
  BY <1>8, <1>9

LEMMA EnrichFailsUnsound ==
  ASSUME BootInv, Completed, NothingHidden, EnrichContainers, phase' = "failed"
  PROVE  ~Sound
<1> DEFINE c == spec.containers[n]
<1>1. /\ phase = "enrich" /\ ~(n > Len(spec.containers)) /\ c.command = <<>>
      /\ ~(ResolveRootfs(c) # Unset /\ HasEntrypoint(ImageAt(ResolveRootfs(c))))
  BY DEF EnrichContainers, Goto, Fail
<1>2. /\ n \in Nat \ {0} /\ Loaded /\ n \in DOMAIN spec.containers /\ n \in DOMAIN Read.containers
  BY <1>1 DEF BootInv, Ranges, Loaded, AfterLoad, IsPod, IsList
<1>3. c = Read.containers[n]
  <2>1. n > n - 1
    BY <1>2
  <2> QED
    BY <1>1, <1>2, <2>1 DEF Completed, AfterLoad
<1> HIDE DEF c
<1>4. /\ HasRootfs(c) <=> ResolveRootfs(c) # Unset
      /\ HasRootfs(c) =>
           (HasEntrypoint(ImageAt(ResolveRootfs(c)))
              <=> \E image \in ImageOf(c) : HasEntrypoint(image))
  BY <1>1, <1>2, <1>3, RootfsAsked DEF AfterLoad
<1>5. Read = Asked
  BY ReadsAsked DEF NothingHidden
<1> QED
  BY <1>1, <1>2, <1>3, <1>4, <1>5 DEF Sound

LEMMA BundlesFailUnsound ==
  ASSUME BootInv, Completed, NothingHidden, PrepareBundles, phase' = "failed"
  PROVE  ~Sound
<1> DEFINE d == spec.containers[n]
           c == Read.containers[n]
<1>1. /\ phase = "bundles" /\ ~(n > Len(spec.containers))
      /\ ~(ResolveRootfs(d) # Unset /\ d.command # <<>>)
  BY DEF PrepareBundles, Goto, Fail
<1>2. /\ n \in Nat \ {0} /\ Loaded /\ n \in DOMAIN spec.containers /\ n \in DOMAIN Read.containers
      /\ Len(spec.containers) \in Nat /\ DOMAIN spec.containers = 1..Len(spec.containers)
  BY <1>1 DEF BootInv, Ranges, Loaded, AfterLoad, IsPod, IsList
<1>3. d.command # <<>>
  BY <1>1, <1>2 DEF Completed, AfterLoad
<1>4. d.id = c.id /\ d.tag = c.tag
  BY <1>1, <1>2 DEF Loaded, AfterLoad, Completes, ContainerFields
<1>5. ResolveRootfs(d) = ResolveRootfs(c)
  BY <1>4 DEF ResolveRootfs, HasDir
<1> HIDE DEF d
<1>6. HasRootfs(c) <=> ResolveRootfs(c) # Unset
  BY <1>1, <1>2, RootfsAsked DEF AfterLoad
<1>7. Read = Asked
  BY ReadsAsked DEF NothingHidden
<1> QED
  BY <1>1, <1>2, <1>3, <1>5, <1>6, <1>7 DEF Sound

(* A call of the network package that fails was given what it cannot do.   *)
LEMMA NetworkFailsUnsound ==
  ASSUME BootInv, NetworkAtBoot, NetProofs!OverlayInv, AppliedSoFar, NothingHidden,
         [Next]_vars, NetworkStep, phase' = "failed", fault' = {}
  PROVE  ~Sound
<1> DEFINE a == [req |-> req[PID1], result |-> "failed", past |-> past[PID1]]
<1>1. NetProofs!Inv /\ NetProofs!TypeOK /\ Turn /\ Loaded /\ host \in Host /\ phase \in {"applying", "peering"}
  BY CallPhases DEF BootInv, NetProofs!Inv, Unloaded
<1>2. NetProofs!Step(PID1) /\ answers' = answers \cup {a} /\ a \notin answers
  <2>1. PICK result \in {"ok", "failed", "trouble"} :
          /\ answers' = answers \cup {[req |-> req[PID1], result |-> result, past |-> past[PID1]]}
          /\ [req |-> req[PID1], result |-> result, past |-> past[PID1]] \notin answers
          /\ IF result # "ok" THEN Fail
             ELSE Goto(IF phase = "applying" THEN "overlay" ELSE "bundles")
          /\ fault' = IF result = "trouble" THEN fault \cup {"call"} ELSE fault
    BY <1>1, StepOutcome
  <2>2. result = "failed"
    BY <2>1 DEF Goto
  <2> QED
    BY <1>1, <2>1, <2>2, StepOutcome
<1>3. a \in answers' \ answers /\ a.result = "failed"
  BY <1>2
<1> HIDE DEF a
<1> DEFINE i == NetProofs!IfaceOf(req[PID1])
           w == req[PID1].config
<1>4. \/ pc[PID1] = "index" /\ link[i] = "absent"
      \/ pc[PID1] = "address" /\ w.address = Broken
      \/ /\ pc[PID1] = "route"
         /\ w.gateway = Broken \/ (w.gateway # Unset /\ ~NetProofs!Reachable(i, w.gateway))
      \/ pc[PID1] = "check" /\ ~NetProofs!ValidOverlay(w)
      \/ pc[PID1] = "reindex" /\ link[i] = "absent"
  BY <1>1, <1>2, <1>3, NetworkAssumptions, NetProofs!FailsFor
<1>5. CASE phase = "applying"
  <2> DEFINE set == host.kernel.addrs[PodIface]
  <2>1. /\ pc[PID1] \in NetProofs!NetworkSteps /\ i = PodIface /\ w = Read.network
    BY <1>5, Applying
  <2>2. pc[PID1] \in {"index", "address", "route"}
    BY <1>4, <2>1 DEF NetProofs!NetworkSteps
  <2>3. /\ Read.network # Unset
        /\ pc[PID1] = "index" => link = host.kernel.link
        /\ pc[PID1] = "route" =>
              Read.network.address # Broken /\ addrs[PodIface] = Joined(set, Read.network.address)
    BY <1>5 DEF AppliedSoFar
  <2>4. pc[PID1] = "route" => link[PodIface] = "up"
    BY <2>1 DEF NetworkAtBoot, NetProofs!NetworkInv, NetProofs!NetworkSoFar, NetProofs!ApplySoFar, NetProofs!NetworkSteps
  <2>5. NetworkSound <=>
           /\ host.kernel.link[PodIface] # "absent"
           /\ w.address # Broken /\ w.gateway # Broken
           /\ w.gateway # Unset => \E b \in Joined(set, w.address) : Net!Covers(b, w.gateway)
    BY <1>1, <1>5, <2>1, <2>3, NetworkSoundWhen DEF AfterLoad, NothingHidden
  <2> HIDE DEF i, w, set
  <2>6. CASE pc[PID1] = "route"
    <3>1. addrs[i] = Joined(set, w.address) /\ link[i] = "up"
      BY <2>1, <2>3, <2>4, <2>6
    <3>2. w.gateway = Broken \/ (w.gateway # Unset /\ ~NetProofs!Reachable(i, w.gateway))
      BY <1>4, <2>6
    <3>3. w.gateway = Broken
          \/ (w.gateway # Unset /\ ~ \E b \in Joined(set, w.address) : Net!Covers(b, w.gateway))
      BY <3>1, <3>2, SameCovers DEF NetProofs!Reachable
    <3> QED
      BY <2>5, <3>3 DEF Sound
  <2>7. CASE pc[PID1] \in {"index", "address"}
    BY <1>4, <2>1, <2>3, <2>5, <2>7 DEF Sound
  <2> QED
    BY <2>2, <2>6, <2>7
<1>6. CASE phase = "peering"
  <2>1. PICK wg : req[PID1] = OverlayCall(wg) /\ wg = ReadOverlay
    BY <1>1, <1>6 DEF Turn
  <2>2. req[PID1].kind = "overlay" /\ w = ReadOverlay
    BY <2>1 DEF OverlayCall
  <2>3. pc[PID1] \in {"check", "reindex"}
    <3>1. pc[PID1] \notin NetProofs!NetworkSteps
      BY <1>1, <2>2 DEF NetProofs!TypeOK
    <3> QED
      BY <1>4, <3>1 DEF NetProofs!NetworkSteps
  <2>4. pc[PID1] # "reindex"
    <3>1. pc[PID1] = "reindex" => link[i] = "up"
      BY DEF NetProofs!OverlayInv, NetProofs!OverlaySoFar, NetProofs!Hosted
    <3> QED
      BY <1>4, <3>1
  <2>5. ~Net!ValidOverlay(ReadOverlay)
    BY <1>4, <2>2, <2>3, <2>4, SameCovers
  <2>6. ReadOverlay # Absent
    BY <1>6, <2>2 DEF NetworkAtBoot, Concluded
  <2>7. ReadOverlay = AskedOverlay
    BY ReadsAsked DEF NothingHidden
  <2> QED
    BY <2>5, <2>6, <2>7 DEF Sound, OverlaySound
<1> QED
  BY <1>1, <1>5, <1>6

(* The steps that end a boot.                                              *)
LEMMA StopsIn ==
  ASSUME BootInv, [Next]_vars, phase \notin Stopped, phase' \in Stopped, fault' = {}
  PROVE  /\ \/ MountConfigShare \/ LoadSpec \/ MountShares \/ MountCubeFSShares \/ EnrichContainers
            \/ ApplyWireGuard \/ NetworkStep \/ PrepareBundles
         /\ phase # "pseudofs"
<1>1. ~(Trouble \/ RebootFails \/ EarlySignal)
  BY FaultsStay
<1>2. \/ MountConfigShare \/ LoadSpec \/ MountShares \/ MountCubeFSShares \/ EnrichContainers
      \/ ApplyWireGuard \/ NetworkStep \/ PrepareBundles
  BY <1>1 DEF Next, RunStep, ReadOverride, MountPseudoFS, NetworkApply, StartSupervisor, Poweroff,
     Goto, Stopped, vars
<1>3. phase # "pseudofs"
  BY <1>2 DEF MountConfigShare, LoadSpec, MountShares, MountCubeFSShares, EnrichContainers,
     ApplyWireGuard, NetworkStep, PrepareBundles
<1> QED
  BY <1>2, <1>3

(* Each of them does so for something that the host left out.              *)
LEMMA StopsUnsound ==
  ASSUME BootInv, NetworkAtBoot, StartInv, [Next]_vars, NothingHidden, MountableEarly,
         phase \notin Stopped, phase' \in Stopped, fault' = {}
  PROVE  ~Sound
<1>1. fault = {}
  BY FaultsStay
<1>2. CASE MountConfigShare
  <2>1. phase = "config" /\ Cmdline.config \notin host.offered \cup {Unset}
    BY <1>2 DEF MountConfigShare, Goto, Stopped
  <2>2. Cmdline = host.cmdline
    BY <1>1, <2>1, SeesAll DEF StartInv, Blameless, BeforeLoad
  <2> QED
    BY <2>1, <2>2 DEF Sound
<1>3. CASE LoadSpec
  <2>1. phase = "load" /\ (Fail \/ Goto("shares"))
    BY <1>3 DEF LoadSpec
  <2>2. pseudo = {"proc", "run"} /\ phase' = "failed"
    BY <1>1, <2>1 DEF StartInv, Blameless, BeforeLoad, Goto, Fail, Stopped
  <2> QED
    BY <1>3, <2>1, <2>2, LoadFailsUnsound
<1>4. CASE MountShares
  BY <1>4, SharesFailUnsound DEF MountShares, Goto, Fail, Stopped
<1>5. CASE MountCubeFSShares
  BY <1>5, MountableEarlyMounts DEF NetworkAtBoot, NothingHidden
<1>6. CASE EnrichContainers
  BY <1>6, EnrichFailsUnsound DEF StartInv, EnrichContainers, Goto, Fail, Stopped
<1>7. CASE ApplyWireGuard
  <2> DEFINE wg == IF spec.wireguard # Unset THEN spec.wireguard ELSE ConfigFile(host.wireguardJson)
  <2>1. /\ phase = "overlay" /\ spec.wireguard = Unset /\ wg # Absent
        /\ wg = Broken \/ ~ValidWireGuard(wg)
    BY <1>7 DEF ApplyWireGuard, Goto, Stopped
  <2>2. ReadOverlay = wg
    BY <2>1, OverlayGiven
  <2>3. Read.wireguard = Unset
    BY <2>1 DEF BootInv, Loaded, AfterLoad, NoSpec
  <2> HIDE DEF wg
  <2>4. Read = Asked /\ ReadOverlay = AskedOverlay
    BY ReadsAsked DEF NothingHidden
  <2> QED
    BY <2>1, <2>2, <2>3, <2>4 DEF Sound, OverlaySound
<1>8. CASE NetworkStep
  <2>1. phase \in {"applying", "peering"} /\ phase' = "failed"
    BY <1>8, CallPhases, StepOutcome DEF BootInv, NetProofs!Inv, Goto, Fail, Stopped
  <2> QED
    BY <1>8, <2>1, NetworkFailsUnsound DEF StartInv
<1>9. CASE PrepareBundles
  BY <1>9, BundlesFailUnsound DEF StartInv, PrepareBundles, Goto, Fail, Stopped
<1> QED
  BY <1>2, <1>3, <1>4, <1>5, <1>6, <1>7, <1>8, <1>9, StopsIn

LEMMA NextBlameless ==
  ASSUME BootInv, NetworkAtBoot, StartInv, [Next]_vars
  PROVE  Blameless'
<1>1. Turn /\ host' = host /\ fault \subseteq fault' /\ pseudo \subseteq {"proc", "run"}
  BY Frame, FaultsStay DEF BootInv, Ranges
<1>2. ASSUME phase' \in (BeforeLoad \cup AfterLoad) \ {"start", "pseudofs"}, fault' = {}
      PROVE  pseudo' = {"proc", "run"}
  <2>1. CASE phase = "pseudofs"
    <3>1. MountPseudoFS
      BY <1>2, <2>1, Advances DEF BeforeLoad, AfterLoad, Stopped
    <3>2. PICK failed \in {{}, {"proc"}, {"run"}} :
            /\ pseudo' = pseudo \cup ({"proc", "run"} \ failed)
            /\ fault' = IF failed \subseteq pseudo THEN fault ELSE fault \cup {"call"}
      BY <3>1 DEF MountPseudoFS
    <3> QED
      BY <1>1, <1>2, <3>2
  <2>2. CASE phase # "pseudofs"
    <3>1. phase \in (BeforeLoad \cup AfterLoad) \ {"start", "pseudofs"}
      BY <1>1, <1>2, <2>2, Phases DEF Turn, Follows, BeforeLoad, AfterLoad, Stopped
    <3> QED
      BY <1>1, <1>2, <2>2, <3>1, ChangesIn DEF StartInv, Blameless
  <2> QED
    BY <2>1, <2>2
<1>3. ASSUME phase' \in Stopped, fault' = {}, NothingHidden', MountableEarly'
      PROVE  ~Sound'
  <2>1. CASE phase \in Stopped
    <3>1. UNCHANGED <<Sound, MountableEarly, NothingHidden>>
      BY <1>1, <2>1, ChangesIn, SoundStays DEF Stopped
    <3> QED
      BY <1>1, <1>3, <2>1, <3>1 DEF StartInv, Blameless
  <2>2. CASE phase \notin Stopped
    <3>1. phase # "pseudofs"
      BY <1>3, <2>2, StopsIn
    <3>2. UNCHANGED <<Sound, MountableEarly, NothingHidden>>
      BY <1>1, <3>1, ChangesIn, SoundStays
    <3> QED
      BY <1>3, <2>2, <3>2, StopsUnsound
  <2> QED
    BY <2>1, <2>2
<1> QED
  BY <1>2, <1>3 DEF Blameless

LEMMA StartInvariant == Spec => []StartInv
<1>1. Init => StartInv
  <2> SUFFICES ASSUME Init
               PROVE  StartInv
    OBVIOUS
  <2>1. NetProofs!OverlayInv
    BY InitNetworkAtBoot, NetworkAssumptions, NetProofs!InitOverlay
  <2> QED
    BY <2>1 DEF Init, StartInv, AppliedSoFar, Judged, Completed, Blameless,
       BeforeLoad, AfterLoad, Stopped, Late
<1>2. BootInv /\ NetworkAtBoot /\ StartInv /\ [Next]_vars => StartInv'
  <2> SUFFICES ASSUME BootInv, NetworkAtBoot, StartInv, [Next]_vars
               PROVE  StartInv'
    OBVIOUS
  <2>1. NetProofs!OverlayInv'
    BY NetworkNext, NetworkAssumptions, NetProofs!NextOverlay DEF BootInv, NetworkAtBoot, StartInv
  <2> QED
    BY <2>1, NextAppliedSoFar, NextJudged, NextCompleted, NextBlameless DEF StartInv, NetworkAtBoot
<1> QED
  BY <1>1, <1>2, BootInvariant, NetworkAtBootInvariant, PTL DEF Spec

(* For every host that hides none of its shares below another, nor files   *)
(* below the tmpfs on /run, and every kernel that it finds: run() comes to *)
(* the supervisor only if the host kept its side; and if nothing else goes *)
(* wrong, and each CubeFS share has an owner and masters that are reached  *)
(* before the pod has its network, run() ends without the supervisor only  *)
(* if the host did not.                                                    *)
THEOREM BootStartsWhenSound == Spec => []StartsWhenSound
<1>1. BootInv /\ StartInv => StartsWhenSound
  <2> SUFFICES ASSUME BootInv, StartInv, NothingHidden
               PROVE  /\ phase = "supervise" => Sound
                      /\ Ended /\ fault = {} /\ MountableEarly => ~Sound
    BY DEF StartsWhenSound
  <2>1. ASSUME phase = "supervise"
        PROVE  Sound
    <3>1. phase \in AfterLoad /\ phase \in Late /\ Loaded /\ SharesMounted /\ Completed /\ Bundled
      BY <2>1 DEF BootInv, StartInv, AfterLoad, Late
    <3>2. IsPod(spec) /\ IsPod(Read) /\ Len(spec.containers) = Len(Read.containers)
      BY <3>1 DEF Loaded
    <3>3. /\ host.cmdline.config \in host.offered \cup {Unset}
          /\ \A i \in DOMAIN Read.shares :
                Read.shares[i].path # Unset /\ Read.shares[i].tag \in host.offered
      <4>1. /\ host.cmdline.config \in host.offered \cup {Unset}
            /\ \A i \in 1..Len(Read.shares) :
                  Read.shares[i].path # Unset /\ Read.shares[i].tag \in host.offered
        BY <2>1, <3>1 DEF SharesMounted
      <4>2. DOMAIN Read.shares = 1..Len(Read.shares)
        BY <3>2 DEF IsPod, IsList
      <4> QED
        BY <4>1, <4>2
    <3>4. /\ ReadFile # Broken
          /\ IF ReadFile = Absent THEN host.cmdline.rootfs # Unset ELSE ValidSpec(ReadFile)
      BY <3>1, FilesAreDistinct DEF Loaded
    <3>5. ASSUME NEW i \in DOMAIN Read.containers
          PROVE  LET c == Read.containers[i] IN
                 HasRootfs(c) /\ (c.command # <<>> \/ \E image \in ImageOf(c) : HasEntrypoint(image))
      <4> DEFINE c == Read.containers[i]
                 d == spec.containers[i]
      <4>1. i \in 1..Len(spec.containers) /\ i \in DOMAIN spec.containers
            /\ ~(i > Len(spec.containers))
        BY <3>2 DEF IsPod, IsList
      <4>2. d.id = c.id /\ d.tag = c.tag
        BY <3>1, <4>1 DEF Loaded, Completes, ContainerFields
      <4>3. ResolveRootfs(d) = ResolveRootfs(c)
        BY <4>2 DEF ResolveRootfs, HasDir
      <4>4. ResolveRootfs(d) # Unset
        BY <2>1, <3>1, <4>1 DEF Bundled
      <4>5. Entered(c)
        BY <2>1, <3>1, <4>1 DEF Completed
      <4> HIDE DEF c, d
      <4>6. /\ HasRootfs(c)
            /\ HasEntrypoint(ImageAt(ResolveRootfs(c))) <=> \E image \in ImageOf(c) : HasEntrypoint(image)
        BY <2>1, <4>3, <4>4, RootfsAsked DEF c, AfterLoad
      <4> QED
        BY <4>5, <4>6 DEF Entered, c
    <3>6. NetworkSound /\ OverlaySound
      BY <3>1 DEF StartInv, Judged, NothingHidden
    <3>7. ReadFile = host.podJson /\ Read = Asked
      BY ReadsAsked DEF NothingHidden
    <3> QED
      BY <3>3, <3>4, <3>5, <3>6, <3>7 DEF Sound
  <2>2. Ended /\ fault = {} /\ MountableEarly => ~Sound
    BY DEF Ended, StartInv, Blameless, Stopped
  <2> QED
    BY <2>1, <2>2
<1> QED
  BY <1>1, BootInvariant, StartInvariant, PTL

-----------------------------------------------------------------------------
(* What a container runs.                                                  *)

(* The process of a container is one that can be had, its own or that of   *)
(* its image.                                                              *)
LEMMA AskedProcess ==
  ASSUME BootInv, phase \in AfterLoad, NEW i \in DOMAIN Read.containers
  PROVE  LET c == Read.containers[i] IN
         /\ DOMAIN c = ContainerFields /\ IsList(c.mounts)
         /\ IsProcess(DOMAIN c.env, c.user)
<1> DEFINE c == Read.containers[i]
<1>1. Loaded /\ host \in Host /\ IsHost(host)
  BY HostsAreSound DEF BootInv, Unloaded
<1>2. DOMAIN c = ContainerFields /\ IsList(c.mounts)
  BY <1>1 DEF Loaded, IsPod
<1>3. CASE ReadFile = Absent
  <2>1. Read = Synth(host.cmdline)
    BY <1>3, FilesAreDistinct DEF Read
  <2>2. c.env = NoEnv /\ c.user = Unset
    BY <2>1 DEF Synth
  <2>3. DOMAIN c.env = {}
    BY <2>2 DEF NoEnv
  <2> QED
    BY <1>2, <2>2, <2>3, FS_EmptySet DEF IsProcess
<1>4. CASE ReadFile # Absent
  <2>1. Read = host.podJson /\ host.podJson \notin NoFile
    BY <1>1, <1>4 DEF Loaded, Read, ReadFile, Seen, NoFile
  <2>2. IsProcess(DOMAIN c.env, c.user)
    BY <1>1, <2>1 DEF IsHost
  <2> QED
    BY <1>2, <2>2
<1> QED
  BY <1>3, <1>4

LEMMA ImageProcess ==
  ASSUME host \in Host, NEW path, HasEntrypoint(ImageAt(path))
  PROVE  IsImage(ImageAt(path))
<1>1. ImageAt(path) \notin NoFile
  BY DEF HasEntrypoint, NoFile
<1>2. Shows(path) \in DOMAIN host.images /\ ImageAt(path) = host.images[Shows(path)]
  BY <1>1 DEF ImageAt, NoFile
<1>3. IsHost(host)
  BY HostsAreSound
<1> QED
  BY <1>1, <1>2, <1>3 DEF IsHost

(* EnrichFromImage, field by field.                                        *)
LEMMA EnrichedFields ==
  ASSUME NEW c, DOMAIN c = ContainerFields, NEW image
  PROVE  LET d == EnrichFromImage(c, image) IN
         /\ d.command = image.args /\ d.args = c.args
         /\ d.env = IF DOMAIN c.env = {} THEN EnvOf(image.env) ELSE c.env
         /\ d.workdir = IF c.workdir = Unset THEN image.cwd ELSE c.workdir
         /\ d.user = IF c.user = Unset /\ image.user # <<0, 0>> THEN image.user ELSE c.user
         /\ d.mounts = c.mounts /\ d.limits = c.limits /\ d.privileged = c.privileged
BY DEF EnrichFromImage, ContainerFields

(* When the supervisor starts each container has the bundle that was asked *)
(* for: for every image and environment, and every host that hides none of *)
(* its shares below another, nor files below the tmpfs on /run.            *)
THEOREM BootRunsAsSpecified == Spec => []RunsAsSpecified
<1>1. ASSUME BootInv, Completed, phase = "supervise", NothingHidden,
             NEW i \in DOMAIN Read.containers
      PROVE  AsAsked(Read.containers[i], bundles[i])
  <2> DEFINE c == Read.containers[i]
             d == spec.containers[i]
             b == bundles[i]
             image == CHOOSE im \in ImageOf(c) : TRUE
             completed == c.command = <<>>
             env == IF completed /\ DOMAIN c.env = {} THEN EnvOf(image.env) ELSE c.env
             user == IF completed /\ c.user = Unset THEN image.user ELSE c.user
             cwd == IF completed /\ c.workdir = Unset THEN image.cwd ELSE c.workdir
             defaults == {DefaultEnv[j].key : j \in DOMAIN DefaultEnv}
  <2>1. Loaded /\ Bundled /\ host \in Host /\ phase \in AfterLoad \ {"shares"}
    BY <1>1 DEF BootInv, Unloaded, AfterLoad
  <2>2. i \in DOMAIN spec.containers /\ i \in 1..Len(spec.containers) /\ ~(i > Len(spec.containers))
    BY <2>1 DEF Loaded, IsPod, IsList
  <2>3. b = BuildSpec(spec.id, d, ResolveRootfs(d), override, resolv # Unset) /\ ResolveRootfs(d) # Unset
    BY <1>1, <2>1, <2>2 DEF Bundled
  <2>4. spec.id = Read.id /\ d.id = c.id /\ d.tag = c.tag
    BY <2>1, <2>2 DEF Loaded, NoSpec, Completes, ContainerFields
  <2>5. DOMAIN c = ContainerFields /\ IsList(c.mounts) /\ IsProcess(DOMAIN c.env, c.user)
    BY <1>1, <2>1, AskedProcess
  <2>6. d = Enriched(c) /\ Entered(c)
    BY <1>1, <2>1, <2>2 DEF Completed
  <2>7. ASSUME completed
        PROVE  d = EnrichFromImage(c, image) /\ IsImage(image)
    <3> DEFINE found == ImageAt(ResolveRootfs(c))
    <3>1. ResolveRootfs(c) = ResolveRootfs(d)
      BY <2>4 DEF ResolveRootfs, HasDir
    <3>2. HasEntrypoint(found) /\ d = EnrichFromImage(c, found)
      BY <2>6, <2>7 DEF Entered, Enriched
    <3>3. ImageOf(c) = {found}
      BY <1>1, <2>1, <2>3, <3>1, <3>2, RootfsAsked
    <3>4. image = found
      <4> HIDE DEF found
      <4> QED
        BY <3>3
    <3> QED
      BY <2>1, <3>2, <3>4, ImageProcess
  <2>8. ~completed => d = c
    BY <2>6 DEF Enriched
  <2> HIDE DEF c, d, b, image
  <2>9. /\ d.command = IF completed THEN image.args ELSE c.command
        /\ d.args = c.args /\ d.env = env /\ d.workdir = cwd
        /\ d.user = IF completed /\ c.user = Unset /\ image.user = <<0, 0>> THEN Unset ELSE user
        /\ d.mounts = c.mounts /\ d.limits = c.limits /\ d.privileged = c.privileged
    <3>1. CASE completed
      BY <2>5, <2>7, <3>1, EnrichedFields
    <3>2. CASE ~completed
      BY <2>8, <3>2
    <3> QED
      BY <3>1, <3>2
  <2>10. IsProcess(DOMAIN env, user)
    <3>1. DOMAIN EnvOf(image.env) = {image.env[j].key : j \in DOMAIN image.env} \ {Unset}
      BY DEF EnvOf
    <3>2. completed => IsProcess(DOMAIN EnvOf(image.env), image.user)
      BY <2>7, <3>1 DEF IsImage
    <3> QED
      BY <2>5, <3>2 DEF IsProcess
  <2>11. /\ b.hostname = spec.id /\ b.args = d.command \o d.args
         /\ b.env = MergeEnv(DefaultEnv, d.env)
         /\ b.cwd = IF d.workdir = Unset THEN <<>> ELSE d.workdir
         /\ b.user = ParseUser(d.user)
         /\ b.capabilities = DefaultCaps(d.privileged) /\ b.noNewPrivileges = ~d.privileged
         /\ b.mounts = BundleMounts(d, resolv # Unset) /\ b.resources = BuildResources(d.limits)
    BY <2>3 DEF BuildSpec
  <2> HIDE DEF env, user, cwd, completed
  <2>12. ASSUME user \notin {Unset, <<ByName>>}, Range(user) \subseteq 0..(2^Bits - 1)
         PROVE  b.user = <<user[1], user[Len(user)]>>
    <3>1. CASE d.user = user
      BY <2>10, <2>11, <2>12, <3>1, UserParsed DEF IsProcess
    <3>2. CASE d.user = Unset /\ user = <<0, 0>>
      <4>1. ParseUser(Unset) = <<0, 0>>
        BY DEF ParseUser
      <4> QED
        BY <2>11, <3>2, <4>1
    <3> QED
      BY <2>9, <3>1, <3>2 DEF user
  <2>13. /\ \A k \in DOMAIN env : Has(b.env, k, env[k]) /\ Count(b.env, k) = 1
         /\ \A j \in DOMAIN DefaultEnv :
               DefaultEnv[j].key \notin DOMAIN env => DefaultEnv[j] \in Range(b.env)
         /\ \A e \in Range(b.env) : e.key \in DOMAIN env \cup defaults
    <3>1. DOMAIN env \subseteq Nat /\ IsFiniteSet(DOMAIN env)
      BY <2>10 DEF IsProcess
    <3> QED
      BY <2>9, <2>11, <3>1, MergeEnvMerges, DefaultsDiffer
  <2>14. /\ \A j \in DOMAIN c.mounts :
               SeenAt(b.mounts, c.mounts[j].dst) = SeenAt(c.mounts, c.mounts[j].dst)
         /\ \A m \in Range(DefaultMounts) :
               (\A j \in DOMAIN c.mounts : c.mounts[j].dst # m.dst) => SeenAt(b.mounts, m.dst) = m
    BY <2>5, <2>9, <2>11, MountsSeen
  <2>15. /\ c.limits.mem \in 1..(2^(Bits - 1) - 1) => b.resources.mem = c.limits.mem
         /\ c.limits.mem = 0 => b.resources.mem = Unset
    BY <2>9, <2>11, MemoryLimited
  <2>16. ~c.privileged => b.noNewPrivileges /\ b.capabilities = {"default"}
    BY <2>9, <2>11 DEF DefaultCaps
  <2>17. /\ b.hostname = Read.id
         /\ b.args = (IF completed THEN image.args ELSE c.command) \o c.args
         /\ b.cwd = IF cwd = Unset THEN <<>> ELSE cwd
    BY <2>4, <2>9, <2>11
  <2>18. Read = Asked
    BY <1>1, ReadsAsked DEF NothingHidden
  <2> QED
    BY <2>12, <2>13, <2>14, <2>15, <2>16, <2>17, <2>18
    DEF AsAsked, c, b, image, completed, env, user, cwd
<1>2. BootInv /\ StartInv => RunsAsSpecified
  BY <1>1, ReadsAsked DEF StartInv, RunsAsSpecified, NothingHidden
<1> QED
  BY <1>2, BootInvariant, StartInvariant, PTL
=============================================================================
