-------------------------------- MODULE Boot --------------------------------
(***************************************************************************)
(* The boot of a micro-VM: run() of src/cmd/weft-init/main.go from its     *)
(* first line to the start of the supervisor.  PID 1 mounts the kernel's   *)
(* file systems and reads what the host provides, mounts the shares,       *)
(* completes the containers, configures the network and the overlay (the   *)
(* steps of module Network, with PID 1 as the only caller), and writes a   *)
(* bundle for each container.  Any error ends in a power off.              *)
(***************************************************************************)
EXTENDS Bundle

CONSTANTS
    Host,     \* what the host provides, one record for each boot to check
    MayFail   \* whether a system call may fail for no fault of the host

ASSUME MayFailIsBoolean == MayFail \in BOOLEAN
ASSUME FilesAreDistinct == Unset # Absent /\ Unset # Broken /\ Absent # Broken

CfgDir == <<"cfg">>
Iface == {"eth0", "wg0"}

VARIABLES
    host,    \* the command line, the files and the devices of this boot
    phase,   \* the statement of run() that is next
    n,       \* the index of the loop it is in
    spec,    \* the pod
    override,\* WEFT_BUNDLE_NAMESPACES in the environment of init
    pseudo,  \* which of /proc and /run are mounted
    mounted, \* shares mounted so far, in order
    fuse,    \* mount points of the CubeFS clients
    bundles, \* what crun will be given for each container
    fault    \* what has gone wrong for no fault of the host

(* The variables of Network.                                               *)
VARIABLES link, addrs, route, hostname, resolv, device, keys, applier, pc, req, past, answers

PID1 == "init"

(* What run() may ask of the network package, by the files of a host, and  *)
(* what of it has not been asked for yet.                                  *)
NetworkCall(w) == [kind |-> "network", id |-> 1, config |-> w]
OverlayCall(wg) == [kind |-> "overlay", id |-> 2, config |-> wg]

NoFile == {Absent, Broken}

Requests(h) ==
    {NetworkCall(p.network) : p \in {q \in {h.podJson} \ NoFile : q.network # Unset}}
    \cup {OverlayCall(p.wireguard) : p \in {q \in {h.podJson} \ NoFile : q.wireguard # Unset}}
    \cup {OverlayCall(wg) : wg \in {h.wireguardJson} \ NoFile}

ToCome ==
    {r \in Requests(host) :
        /\ pc[PID1] = "idle" \/ req[PID1] # r
        /\ \A a \in answers : a.req # r}

Net == INSTANCE Network WITH Caller <- {PID1}, Kernels <- {h.kernel : h \in Host},
                             Batches <- {Requests(h) : h \in Host}, todo <- ToCome

network == <<link, addrs, route, hostname, resolv, device, keys, applier, pc, req, past, answers>>
loaded == <<host, spec, override>>
mounts == <<pseudo, mounted, fuse>>
vars == <<loaded, phase, n, mounts, network, bundles, fault>>

NoSpec == [id |-> Unset, containers |-> <<>>, shares |-> <<>>, shareMounts |-> <<>>,
           network |-> Unset, wireguard |-> Unset]

(* A pod.json that decodes has every field, if only with its zero value.   *)
ContainerFields ==
    {"id", "tag", "command", "args", "env", "user", "net", "workdir", "privileged", "limits", "mounts"}

IsPod(p) ==
    /\ DOMAIN p = DOMAIN NoSpec
    /\ IsList(p.containers) /\ IsList(p.shares) /\ IsList(p.shareMounts)
    /\ \A i \in DOMAIN p.containers :
          DOMAIN p.containers[i] = ContainerFields /\ IsList(p.containers[i].mounts)

(* The keys of an environment are numbered in their order; a user is what  *)
(* is on either side of a colon, or the whole.                             *)
IsProcess(names, user) ==
    /\ names \subseteq Nat /\ IsFiniteSet(names)
    /\ user = Unset \/ (IsList(user) /\ Len(user) \in 1..2)

IsImage(image) ==
    /\ IsList(image.env)
    /\ IsProcess({image.env[i].key : i \in DOMAIN image.env} \ {Unset}, image.user)

ContainerIds(h) ==
    {"main"} \cup UNION {{p.containers[i].id : i \in DOMAIN p.containers} : p \in {h.podJson} \ NoFile}

(* The empty string is no directory, and no tag of a share on offer or     *)
(* with an image.                                                          *)
IsHost(h) ==
    /\ h.podJson \in NoFile \/ IsPod(h.podJson)
    /\ \A p \in {h.podJson} \ NoFile : \A i \in DOMAIN p.containers :
          IsProcess(DOMAIN p.containers[i].env, p.containers[i].user)
    /\ \A tag \in DOMAIN h.images : h.images[tag] \in NoFile \/ IsImage(h.images[tag])
    /\ \A id \in ContainerIds(h) : RootfsDir(id) # Unset
    /\ IsList(h.cmdline.mounts) /\ IsList(h.cmdline.cubefs)
    /\ Unset \notin h.offered \cup DOMAIN h.images
    /\ Net!KernelSound(h.kernel)
    /\ \A r \in Requests(h) : Net!WellFormed(r)

ASSUME HostsAreSound == \A h \in Host : IsHost(h)

(* /proc may be mounted already where weft-init is not started by the      *)
(* kernel, and the kernel may have configured the network (ip=).           *)
Init ==
    /\ host \in Host
    /\ phase = "start" /\ n = 1
    /\ spec = NoSpec /\ override = Unset
    /\ pseudo = (IF host.proc THEN {"proc"} ELSE {})
    /\ mounted = <<>> /\ fuse = {}
    /\ link = host.kernel.link /\ addrs = host.kernel.addrs /\ route = host.kernel.route
    /\ resolv = host.kernel.resolv /\ hostname = Unset
    /\ device = Unset /\ applier = Unset /\ keys = {}
    /\ pc = [c \in {PID1} |-> "idle"]
    /\ req = [c \in {PID1} |-> Unset] /\ past = [c \in {PID1} |-> Unset]
    /\ answers = {}
    /\ bundles = <<>>
    /\ fault = {}

-----------------------------------------------------------------------------
(* The tag a path shows: that of the last share mounted there.             *)
Shows(path) ==
    LET on == {i \in DOMAIN mounted : mounted[i].path = path}
    IN  IF on = {} THEN Unset ELSE mounted[Max(on)].tag

(* Mutant: the index of one loop is carried into the next.                 *)
GotoKeeping(p) == phase' = p /\ n' = n

Goto(p) == phase' = p /\ n' = 1

Fail == phase' = "failed" /\ UNCHANGED n

(* A system call fails that the host gave no reason to.                    *)
Trouble ==
    /\ MayFail
    /\ phase \in {"config", "shares", "cubefs", "overlay", "bundles"}
    /\ fault' = fault \cup {"call"}
    /\ Fail
    /\ UNCHANGED <<loaded, mounts, network, bundles>>

(* What /proc/cmdline says; without /proc it says nothing.                 *)
NoCmdline == [config |-> Unset, rootfs |-> Unset, mounts |-> <<>>, cubefs |-> <<>>,
              namespaces |-> Unset]
Cmdline == IF "proc" \in pseudo THEN host.cmdline ELSE NoCmdline

(* cmdlineEnv, the first thing run() does.                                 *)
ReadOverride ==
    /\ phase = "start"
    /\ override' = Cmdline.namespaces
    /\ Goto("pseudofs")
    /\ UNCHANGED <<host, spec, mounts, network, bundles, fault>>

(* mountPseudoFS, whose failures are only logged.  A second proc on /proc  *)
(* is EBUSY; of the rest nothing matters to the boot but /run.             *)
MountPseudoFS ==
    /\ phase = "pseudofs"
    /\ \E failed \in {{}, {"proc"}, {"run"}} :
          /\ failed # {} => MayFail
          /\ pseudo' = pseudo \cup ({"proc", "run"} \ failed)
          /\ fault' = IF failed \subseteq pseudo THEN fault ELSE fault \cup {"call"}
    /\ Goto("config")
    /\ UNCHANGED <<loaded, mounted, fuse, network, bundles>>

(* mountConfigShare                                                        *)
MountConfigShare ==
    LET tag == Cmdline.config IN
    /\ phase = "config"
    /\ IF tag = Unset THEN Goto("load") /\ mounted' = mounted
       ELSE IF tag \in host.offered
       THEN Goto("load") /\ mounted' = Append(mounted, [tag |-> tag, path |-> CfgDir])
       ELSE Fail /\ mounted' = mounted
    /\ UNCHANGED <<loaded, pseudo, fuse, network, bundles, fault>>

(* What is in the initramfs under /run is out of sight below the tmpfs.    *)
InitramfsShown == "run" \notin pseudo

(* A file of the configuration, from the share or else from the initramfs. *)
ConfigFile(file) == IF Shows(CfgDir) # Unset \/ InitramfsShown THEN file ELSE Absent

(* pod.Load, and the pod of the command line when there is no pod.json.    *)
LoadSpec ==
    LET file == ConfigFile(host.podJson) IN
    /\ phase = "load"
    /\ CASE file = Absent ->
              IF Cmdline.rootfs = Unset THEN Fail /\ spec' = spec
              ELSE Goto("shares") /\ spec' = Synth(Cmdline)
         [] file = Broken -> Fail /\ spec' = spec
         [] OTHER ->
              IF ValidSpec(file) THEN Goto("shares") /\ spec' = file
              ELSE Fail /\ spec' = spec
    /\ UNCHANGED <<host, override, mounts, network, bundles, fault>>

(* mountShares: one round of its loop.  Nobody has checked that the share  *)
(* has a mount point, and without one there is nothing to make.            *)
MountShares ==
    /\ phase = "shares"
    /\ IF n > Len(spec.shares) THEN Goto("cubefs") /\ mounted' = mounted
       ELSE IF spec.shares[n].path # Unset /\ spec.shares[n].tag \in host.offered
       THEN n' = n + 1 /\ phase' = phase /\ mounted' = Append(mounted, spec.shares[n])
       ELSE Fail /\ mounted' = mounted
    /\ UNCHANGED <<loaded, pseudo, fuse, network, bundles, fault>>

(* Masters of the local network are reached once it is configured, by the  *)
(* kernel (ip=) or by init, others over the overlay.  A client that does   *)
(* not reach them never mounts.                                            *)
MastersReached ==
    IF host.masters = "local" THEN link["eth0"] = "up" /\ addrs["eth0"] # {} ELSE applier # Unset

(* isMounted: any mount on the path, as /proc/mounts lists them.           *)
IsMounted(path) == "proc" \in pseudo /\ (Shows(path) # Unset \/ path \in fuse)

(* Mutant: the wait for a client's mount has no end.                       *)
MountCubeFSSharesWaiting ==
    LET m == spec.shareMounts[n] IN
    /\ phase = "cubefs"
    /\ IF n > Len(spec.shareMounts) THEN Goto("enrich") /\ fuse' = fuse
       ELSE IF EffectiveBackend(m) # "cubefs" THEN n' = n + 1 /\ UNCHANGED <<phase, fuse>>
       ELSE IF ~ValidShareMount(m) THEN Fail /\ fuse' = fuse
       ELSE /\ m.cubefs # Unset /\ MastersReached
            /\ n' = n + 1 /\ phase' = phase /\ fuse' = fuse \cup {m.path}
    /\ UNCHANGED <<loaded, pseudo, mounted, network, bundles, fault>>

(* mountCubeFSShares: one round of its loop, with the call of cubefs.Mount *)
(* as one step.  An unmount is valid without a CubeFS block, and the       *)
(* client's configuration is made from that block; one with a block is     *)
(* mounted.  The wait is over at once when the path has a mount already.   *)
MountCubeFSShares ==
    LET m == spec.shareMounts[n] IN
    /\ phase = "cubefs"
    /\ IF n > Len(spec.shareMounts) THEN Goto("enrich") /\ fuse' = fuse
       ELSE IF EffectiveBackend(m) # "cubefs" THEN n' = n + 1 /\ UNCHANGED <<phase, fuse>>
       ELSE IF ~ValidShareMount(m) THEN Fail /\ fuse' = fuse
       ELSE IF m.cubefs = Unset THEN phase' = "panicked" /\ UNCHANGED <<n, fuse>>
       ELSE IF MastersReached /\ "proc" \in pseudo
       THEN n' = n + 1 /\ phase' = phase /\ fuse' = fuse \cup {m.path}
       ELSE IF IsMounted(m.path) THEN n' = n + 1 /\ UNCHANGED <<phase, fuse>>
       ELSE Fail /\ fuse' = fuse
    /\ UNCHANGED <<loaded, pseudo, mounted, network, bundles, fault>>

-----------------------------------------------------------------------------
(* The conventional directory is in the initramfs, or a share is mounted   *)
(* there.                                                                  *)
HasDir(c) ==
    (c.id \in host.rootfsDirs /\ InitramfsShown) \/ Shows(RootfsDir(c.id)) # Unset

(* Mutant: the conventional directory is looked at first.                  *)
ResolveRootfsDirFirst(c) ==
    LET with == {i \in DOMAIN spec.shares : spec.shares[i].tag = c.tag}
    IN  IF HasDir(c) THEN RootfsDir(c.id)
        ELSE IF with # {} THEN spec.shares[Min(with)].path
        ELSE Unset

(* Mutant: the conventional directory is not looked at.                    *)
ResolveRootfsOfShares(c) ==
    LET with == {i \in DOMAIN spec.shares : spec.shares[i].tag = c.tag}
    IN  IF with = {} THEN Unset ELSE spec.shares[Min(with)].path

(* resolveRootfs: the first share with the tag, or else the conventional   *)
(* directory.                                                              *)
ResolveRootfs(c) ==
    LET with == {i \in DOMAIN spec.shares : spec.shares[i].tag = c.tag}
    IN  IF with # {} THEN spec.shares[Min(with)].path
        ELSE IF HasDir(c) THEN RootfsDir(c.id)
        ELSE Unset

(* The image configuration in a root file system.                          *)
ImageAt(path) ==
    IF Shows(path) \in DOMAIN host.images THEN host.images[Shows(path)] ELSE Absent

(* enrichContainers: one round of its loop.                                *)
EnrichContainers ==
    LET c == spec.containers[n]
        image == ImageAt(ResolveRootfs(c))
    IN
    /\ phase = "enrich"
    /\ IF n > Len(spec.containers) THEN Goto("network") /\ spec' = spec
       ELSE IF c.command # <<>> THEN n' = n + 1 /\ UNCHANGED <<phase, spec>>
       ELSE IF ResolveRootfs(c) # Unset /\ HasEntrypoint(image)
       THEN /\ n' = n + 1 /\ phase' = phase
            /\ spec' = [spec EXCEPT !.containers[n] = EnrichFromImage(c, image)]
       ELSE Fail /\ spec' = spec
    /\ UNCHANGED <<host, override, mounts, network, bundles, fault>>

-----------------------------------------------------------------------------
(* network.Apply, which does nothing without a network in the pod.         *)
NetworkApply ==
    /\ phase = "network"
    /\ IF spec.network = Unset THEN Goto("overlay") /\ UNCHANGED network
       ELSE /\ Goto("applying")
            /\ Net!Begin(PID1, NetworkCall(spec.network))
    /\ UNCHANGED <<loaded, mounts, bundles, fault>>

(* network.ApplyWireGuard, of the pod's own overlay, which nobody has      *)
(* validated, or else of wireguard.json, which pod.LoadWireGuard has.      *)
ApplyWireGuard ==
    LET own == spec.wireguard # Unset
        wg == IF own THEN spec.wireguard ELSE ConfigFile(host.wireguardJson)
    IN
    /\ phase = "overlay"
    /\ IF wg = Absent THEN Goto("bundles") /\ UNCHANGED network
       ELSE IF ~own /\ (wg = Broken \/ ~ValidWireGuard(wg)) THEN Fail /\ UNCHANGED network
       ELSE /\ Goto("peering")
            /\ Net!Begin(PID1, OverlayCall(wg))
    /\ UNCHANGED <<loaded, mounts, bundles, fault>>

(* Mutant: a call that fails is made once more.                            *)
NetworkStepRetrying ==
    /\ phase \in {"applying", "peering"}
    /\ Net!Step(PID1)
    /\ IF answers' = answers THEN UNCHANGED <<phase, n>>
       ELSE \E a \in answers' \ answers :
              Goto(IF a.result = "ok" THEN IF phase = "applying" THEN "overlay" ELSE "bundles"
                   ELSE IF phase = "applying" THEN "network" ELSE "overlay")
    /\ UNCHANGED <<loaded, mounts, bundles, fault>>

(* A step of the call, and what run() does with its result.                *)
NetworkStep ==
    /\ phase \in {"applying", "peering"}
    /\ Net!Step(PID1)
    /\ IF answers' = answers THEN UNCHANGED <<phase, n, fault>>
       ELSE \E a \in answers' \ answers :
              /\ IF a.result # "ok" THEN Fail
                 ELSE Goto(IF phase = "applying" THEN "overlay" ELSE "bundles")
              /\ fault' = IF a.result = "trouble" THEN fault \cup {"call"} ELSE fault
    /\ UNCHANGED <<loaded, mounts, bundles>>

(* prepareBundles: one round of its loop.                                  *)
PrepareBundles ==
    LET c == spec.containers[n] IN
    /\ phase = "bundles"
    /\ IF n > Len(spec.containers) THEN Goto("notify") /\ bundles' = bundles
       ELSE IF ResolveRootfs(c) # Unset /\ c.command # <<>>
       THEN /\ n' = n + 1 /\ phase' = phase
            /\ bundles' = Append(bundles,
                   BuildSpec(spec.id, c, ResolveRootfs(c), override, resolv # Unset))
       ELSE Fail /\ bundles' = bundles
    /\ UNCHANGED <<loaded, mounts, network, fault>>

(* The reaper, the probe of crun, whose failure is only logged, and at     *)
(* last signal.Notify; from there on it is module Supervisor.              *)
StartSupervisor ==
    /\ phase = "notify"
    /\ Goto("supervise")
    /\ UNCHANGED <<loaded, mounts, network, bundles, fault>>

(* main: an error of run() ends in a power off.                            *)
Poweroff ==
    /\ phase = "failed"
    /\ phase' = "off"
    /\ UNCHANGED <<loaded, n, mounts, network, bundles, fault>>

(* The reboot system call fails, and main waits in an empty select.  With  *)
(* no goroutine left that waits for a client, mounted or about to mount,   *)
(* Go's runtime calls that a deadlock and exits.                           *)
RebootFails ==
    /\ MayFail
    /\ phase = "failed"
    /\ phase' \in {"panicked", "hung"}
    /\ fuse # {} => phase' = "hung"
    /\ fault' = fault \cup {"reboot"}
    /\ UNCHANGED <<loaded, n, mounts, network, bundles>>

(* A termination signal before signal.Notify: Go's default action is to    *)
(* exit.                                                                   *)
EarlySignal ==
    /\ MayFail
    /\ phase \notin {"supervise", "off", "panicked"}
    /\ phase' = "panicked"
    /\ fault' = fault \cup {"signal"}
    /\ UNCHANGED <<loaded, n, mounts, network, bundles>>

RunStep ==
    \/ ReadOverride \/ MountPseudoFS \/ MountConfigShare \/ LoadSpec \/ MountShares
    \/ MountCubeFSShares \/ EnrichContainers \/ NetworkApply \/ ApplyWireGuard
    \/ NetworkStep \/ PrepareBundles \/ StartSupervisor \/ Poweroff

Next == RunStep \/ Trouble \/ RebootFails \/ EarlySignal

Spec == Init /\ [][Next]_vars

(* PID 1 runs on, and so does main after an error.                         *)
FairSpec == Spec /\ WF_vars(RunStep)

-----------------------------------------------------------------------------
TypeOK ==
    /\ phase \in {"start", "pseudofs", "config", "load", "shares", "cubefs", "enrich", "network",
                 "applying", "overlay", "peering", "bundles", "notify", "supervise",
                 "failed", "panicked", "hung", "off"}
    /\ n \in Nat
    /\ phase = "shares" =>
          mounted = (IF Cmdline.config = Unset THEN <<>>
                     ELSE <<[tag |-> Cmdline.config, path |-> CfgDir]>>)
                    \o SubSeq(spec.shares, 1, n - 1)
    /\ phase = "bundles" => Len(bundles) = n - 1
    /\ phase = "supervise" => Len(bundles) = Len(spec.containers)
    /\ phase \in {"applying", "peering"} <=> pc[PID1] # "idle" /\ phase # "panicked"
    /\ pseudo \subseteq {"proc", "run"} /\ fault \subseteq {"call", "signal", "reboot"}

(* What the host asks for: its pod.json, from wherever it comes, or the    *)
(* pod of its command line.                                                *)
Asked ==
    CASE host.podJson = Absent -> Synth(host.cmdline)
      [] host.podJson = Broken -> NoSpec
      [] OTHER -> host.podJson

AskedOverlay == IF Asked.wireguard # Unset THEN Asked.wireguard ELSE host.wireguardJson

ShareOf(c) == {i \in DOMAIN Asked.shares : Asked.shares[i].tag = c.tag}

(* Assumed of a host where a property says so, because the code does not   *)
(* do what is said of it otherwise.  Nothing that the host baked into the  *)
(* initramfs is beneath the tmpfs on /run.                                 *)
NothingBeneath ==
    \/ InitramfsShown
    \/ /\ host.rootfsDirs = {}
       /\ host.cmdline.config = Unset => host.podJson = Absent /\ host.wireguardJson = Absent

(* The mount points are different, so that no share hides another.         *)
SharesApart ==
    /\ \A i, j \in DOMAIN Asked.shares : Asked.shares[i].path = Asked.shares[j].path => i = j
    /\ \A i \in DOMAIN Asked.shares : Asked.shares[i].path # CfgDir

NothingHidden == NothingBeneath /\ SharesApart

(* Those of the CubeFS shares are none of another share's.                 *)
CubeFSApart ==
    LET path(i) == Asked.shareMounts[i].path IN
    /\ \A i, j \in DOMAIN Asked.shareMounts : path(i) = path(j) => i = j
    /\ \A i \in DOMAIN Asked.shareMounts :
          path(i) \notin {CfgDir} \cup {Asked.shares[j].path : j \in DOMAIN Asked.shares}

(* A container has a root file system, and one without a command has an    *)
(* image that says what to run.                                            *)
HasRootfs(c) ==
    \/ ShareOf(c) # {}
    \/ c.id \in host.rootfsDirs
    \/ \E i \in DOMAIN Asked.shares : Asked.shares[i].path = RootfsDir(c.id)

ImageOf(c) ==
    LET tags == IF ShareOf(c) # {} THEN {c.tag}
                ELSE {Asked.shares[i].tag : i \in {j \in DOMAIN Asked.shares :
                                                    Asked.shares[j].path = RootfsDir(c.id)}}
    IN  {host.images[t] : t \in tags \cap DOMAIN host.images}

(* The interface is there, and its gateway on a network it has, its own or *)
(* that of the kernel's command line.  The prefix of an IPv6 address that  *)
(* it has already is not that of the pod.                                  *)
NetworkSound ==
    LET w == Asked.network
        i == IF w.iface = Unset THEN "eth0" ELSE w.iface
        set == host.kernel.addrs[i]
        kept == w.address.ip.family = 6 /\ \E a \in set : a.ip = w.address.ip
    IN  w # Unset =>
          /\ host.kernel.link[i] # "absent"
          /\ w.address # Broken /\ w.gateway # Broken
          /\ w.gateway # Unset =>
                \/ \E a \in set : Net!Covers(a, w.gateway)
                \/ w.address # Unset /\ ~kept /\ Net!Covers(w.address, w.gateway)

(* A file with a peer of no prefix is refused, a pod's own overlay is not. *)
OverlaySound ==
    AskedOverlay # Absent =>
        /\ Asked.wireguard = Unset => AskedOverlay # Broken /\ ValidWireGuard(AskedOverlay)
        /\ Net!ValidOverlay(AskedOverlay)

(* The host keeps its side: what it asks for is complete and on offer.     *)
Sound ==
    /\ host.cmdline.config \in host.offered \cup {Unset}
    /\ host.podJson # Broken
    /\ IF host.podJson = Absent THEN host.cmdline.rootfs # Unset ELSE ValidSpec(host.podJson)
    /\ \A i \in DOMAIN Asked.shares :
          Asked.shares[i].path # Unset /\ Asked.shares[i].tag \in host.offered
    /\ \A i \in DOMAIN Asked.containers :
          LET c == Asked.containers[i] IN
          HasRootfs(c) /\ (c.command # <<>> \/ \E image \in ImageOf(c) : HasEntrypoint(image))
    /\ NetworkSound /\ OverlaySound

(* Each CubeFS share has what a client is given, at the time it is given.  *)
MountableEarly ==
    \A i \in DOMAIN Asked.shareMounts :
        LET v == Asked.shareMounts[i].cubefs
        IN  /\ v # Unset /\ v.owner # Unset
            /\ host.masters = "local"
            /\ host.kernel.link["eth0"] = "up" /\ host.kernel.addrs["eth0"] # {}

Ended == phase \in {"failed", "off", "panicked", "hung"}

(* A boot starts the supervisor when the host kept its side and nothing    *)
(* else went wrong, and only then: nothing that is missing is found out    *)
(* about by crun, and a directive that does not parse stops no boot.  No   *)
(* claim is made where something is hidden, nor that a pod with CubeFS     *)
(* shares starts if one has no owner, as those of a command line, or       *)
(* masters that are not reached before the pod has its network.            *)
StartsWhenSound ==
    NothingHidden =>
        /\ phase = "supervise" => Sound
        /\ Ended /\ fault = {} /\ MountableEarly => ~Sound

(* A bundle is what the host wrote, and what the image says where the host *)
(* wrote nothing.                                                          *)
AsAsked(c, b) ==
    LET image == CHOOSE im \in ImageOf(c) : TRUE
        completed == c.command = <<>>
        env == IF completed /\ DOMAIN c.env = {} THEN EnvOf(image.env) ELSE c.env
        user == IF completed /\ c.user = Unset THEN image.user ELSE c.user
        cwd == IF completed /\ c.workdir = Unset THEN image.cwd ELSE c.workdir
        defaults == {DefaultEnv[j].key : j \in DOMAIN DefaultEnv}
    IN  /\ b.hostname = Asked.id
        /\ b.args = (IF completed THEN image.args ELSE c.command) \o c.args
        /\ b.cwd = IF cwd = Unset THEN <<>> ELSE cwd
        /\ user \notin {Unset, <<ByName>>} /\ Range(user) \subseteq 0..(2^Bits - 1) =>
              b.user = <<user[1], user[Len(user)]>>
        /\ \A k \in DOMAIN env : Has(b.env, k, env[k]) /\ Count(b.env, k) = 1
        /\ \A j \in DOMAIN DefaultEnv :
              DefaultEnv[j].key \notin DOMAIN env => DefaultEnv[j] \in Range(b.env)
        /\ \A e \in Range(b.env) : e.key \in DOMAIN env \cup defaults
        /\ \A j \in DOMAIN c.mounts :
              SeenAt(b.mounts, c.mounts[j].dst) = SeenAt(c.mounts, c.mounts[j].dst)
        /\ \A m \in Range(DefaultMounts) :
              (\A j \in DOMAIN c.mounts : c.mounts[j].dst # m.dst) => SeenAt(b.mounts, m.dst) = m
        /\ c.limits.mem \in 1..(2^(Bits - 1) - 1) => b.resources.mem = c.limits.mem
        /\ c.limits.mem = 0 => b.resources.mem = Unset
        /\ ~c.privileged => b.noNewPrivileges /\ b.capabilities = {"default"}

(* crun is given what the host asked for: the arguments, the working       *)
(* directory, the user, and an environment where each key comes once and   *)
(* the nearest of host, image and default wins; so does a mount of the     *)
(* host where the bundler has one of its own, and a limit that fits its    *)
(* integer is the limit.  Unless it is privileged a container can gain no  *)
(* privileges.                                                             *)
RunsAsSpecified ==
    (phase = "supervise" /\ NothingHidden) =>
        \A i \in DOMAIN Asked.containers : AsAsked(Asked.containers[i], bundles[i])

(* The root file system of a container shows the share with its tag, even  *)
(* if a directory at the conventional place has its name; and every share  *)
(* is there to be bound at its mount point, a CubeFS share with its own    *)
(* client, unless something else is mounted there.                         *)
RootfsShown ==
    (phase = "supervise" /\ NothingHidden) =>
        /\ \A i \in DOMAIN Asked.containers :
              LET c == Asked.containers[i] IN
              IF ShareOf(c) # {} THEN Shows(bundles[i].root) = c.tag
              ELSE bundles[i].root = RootfsDir(c.id)
        /\ \A i \in DOMAIN Asked.shares : Shows(Asked.shares[i].path) = Asked.shares[i].tag
        /\ CubeFSApart =>
              \A i \in DOMAIN Asked.shareMounts :
                  Asked.shareMounts[i].action = "mount" => Asked.shareMounts[i].path \in fuse

(* When the containers start the pod has the network the host asked for:   *)
(* the interface up with the address, the resolver, and the gateway as the *)
(* default route of its family, unless the kernel had one, which is kept.  *)
(* The overlay is that of the pod, or else that of the file, where no      *)
(* share hides it, and no private key stays in a file that could be        *)
(* removed.  A container joins that network and has its resolver, if there *)
(* is one, without a mount of its own, or is by itself if it asked for     *)
(* none, unless WEFT_BUNDLE_NAMESPACES says otherwise, which is followed   *)
(* where /proc was mounted before init.                                    *)
NetworkAsSpecified ==
    (phase = "supervise" /\ NothingBeneath) =>
        LET w == Asked.network
            dns == resolv # Unset
            namespaces == host.cmdline.namespaces
        IN  /\ w # Unset =>
                  LET i == IF w.iface = Unset THEN "eth0" ELSE w.iface IN
                  /\ link[i] = "up"
                  /\ w.address # Unset => w.address.ip \in {a.ip : a \in addrs[i]}
                  /\ w.gateway # Unset =>
                        LET found == host.kernel.route[w.gateway.family] IN
                        route[w.gateway.family] = IF found # Unset THEN found ELSE w.gateway
                  /\ w.dns # <<>> => resolv = w.dns
            /\ NothingHidden =>
                  IF AskedOverlay = Absent THEN applier = Unset ELSE applier.config = AskedOverlay
            /\ keys \subseteq {Net!Stray}
            /\ \A j \in DOMAIN Asked.containers :
                  LET c == Asked.containers[j]
                      b == bundles[j]
                  IN  /\ (\A k \in DOMAIN c.mounts : c.mounts[k].src # ResolvConf) =>
                            ((\E m \in Range(b.mounts) : m.src = ResolvConf) <=> (c.net # "none" /\ dns))
                      /\ namespaces = Unset => ("network" \in b.namespaces <=> c.net = "none")
                      /\ namespaces # Unset /\ host.proc => b.namespaces = namespaces

(* The network calls of the boot are a behaviour of Network, each made at  *)
(* most once and one after the other: what is true of the package in every *)
(* use is true of this one.                                                *)
UsesNetworkAsModelled == Net!Init /\ [][Net!Next]_Net!vars

UnmountAtBoot ==
    \E i \in DOMAIN Asked.shareMounts :
        Asked.shareMounts[i].action = "unmount" /\ Asked.shareMounts[i].cubefs = Unset

(* The boot comes to the supervisor or to a power off, whatever fails, but *)
(* for an early signal, a reboot that fails, and an unmount without a      *)
(* CubeFS block, which end it otherwise.                                   *)
BootEnds ==
    <>(phase \in {"supervise", "off"} \/ fault \cap {"signal", "reboot"} # {}
        \/ (phase = "panicked" /\ UnmountAtBoot))

-----------------------------------------------------------------------------
(* What the comments of the code say of a boot and the code does not do.   *)

(* main.go:119, "when the cmdline carries weft.cubefs=... directives [...] *)
(* launch cfs-client once per entry and wait for the FUSE mount to come up *)
(* before any container starts", and pkg/pod/share.go:66, of masters that  *)
(* are "reached over the wg0 overlay": a pod with CubeFS shares starts     *)
(* when the host kept its side, and each of them is then mounted by its    *)
(* client.                                                                 *)
CubeFSBoots ==
    /\ Ended /\ fault = {} /\ NothingHidden => ~Sound
    /\ phase = "supervise" =>
          \A i \in DOMAIN Asked.shareMounts :
              Asked.shareMounts[i].action = "mount" => Asked.shareMounts[i].path \in fuse

(* main.go:252, "spec baked into initramfs", and main.go:605, "a host that *)
(* prefers initrd-unpacked rootfs can place it directly at this            *)
(* conventional path": a host that keeps its side with files of the        *)
(* initramfs has its pod started like any other.                           *)
InitramfsServed == (Ended /\ fault = {} /\ SharesApart /\ MountableEarly) => ~Sound

(* main.go:76, "the host can set it via weft.env=WEFT_BUNDLE_NAMESPACES=": *)
(* the containers are in the namespaces that the host set.                 *)
NamespacesHonoured ==
    (phase = "supervise" /\ host.cmdline.namespaces # Unset) =>
        \A i \in DOMAIN bundles : bundles[i].namespaces = host.cmdline.namespaces

(* pkg/pod/spec.go:36, the user is "uid:gid" or username: a container with *)
(* the name of a user, and one that is not root, does not run as root.     *)
UserByName ==
    phase = "supervise" =>
        \A i \in DOMAIN bundles : spec.containers[i].user = <<ByName>> => bundles[i].user # <<0, 0>>

(* main.go:615, "PID 1 must never exit".                                   *)
NeverExits == phase # "panicked"

(* main.go:625, "spin forever rather than returning to the kernel": when   *)
(* the machine cannot be powered off, PID 1 stays.                         *)
SpinsForever == ("reboot" \in fault /\ "signal" \notin fault) => phase = "hung"
=============================================================================
