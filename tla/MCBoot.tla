------------------------------- MODULE MCBoot -------------------------------
(* Instances of Boot for TLC: what the host of a boot may provide.         *)
EXTENDS Boot

Entry(k, v) == [key |-> k, value |-> v]

MCDefaultEnv == <<Entry(2, "default"), Entry(4, "default")>>

CmdlineOf(config, rootfs, directives, cubefs, namespaces) ==
    [config |-> config, rootfs |-> rootfs, mounts |-> directives, cubefs |-> cubefs,
     namespaces |-> namespaces]

(* What the kernel has set up: the interface, and with ip= its address and *)
(* a default route.                                                        *)
IP(net, hostPart) == [family |-> 4, net |-> net, host |-> hostPart]
IP6(net, hostPart) == [family |-> 6, net |-> net, host |-> hostPart]
CIDR(ip) == [ip |-> ip, wide |-> TRUE]

KernelOf(state, addresses, gateway, servers) ==
    [link |-> [i \in Iface |-> IF i = "eth0" THEN state ELSE "absent"],
     addrs |-> [i \in Iface |-> IF i = "eth0" THEN addresses ELSE {}],
     route |-> [f \in {4, 6} |-> IF f = 4 THEN gateway ELSE Unset],
     resolv |-> servers]

NoCard == KernelOf("absent", {}, Unset, Unset)
Card == KernelOf("down", {}, Unset, Unset)
CardAndResolver == KernelOf("down", {}, Unset, <<"initramfs">>)
Configured == KernelOf("up", {CIDR(IP(1, 2))}, IP(1, 1), Unset)
DownAgain == KernelOf("down", {CIDR(IP(1, 2))}, Unset, Unset)
HostPrefix == KernelOf("up", {[CIDR(IP6(1, 2)) EXCEPT !.wide = FALSE]}, Unset, Unset)

HostOf(cmdline, podJson, wireguardJson, offered, images) ==
    [cmdline |-> cmdline, podJson |-> podJson, wireguardJson |-> wireguardJson,
     offered |-> offered, images |-> images, rootfsDirs |-> {},
     proc |-> FALSE, kernel |-> Card, masters |-> "overlay"]

(* An entry without "=", one key twice, one that is a default's.           *)
ImageEnv == <<Entry(3, "image1"), Entry(Unset, "image"), Entry(3, "image2"), Entry(2, "image")>>

Image(args, env, user) == [args |-> args, env |-> env, user |-> user, cwd |-> <<"srv">>]
Plain == Image(<<"image">>, <<>>, <<0, 0>>)

Images == {Absent, Broken, Image(<<>>, <<>>, <<0, 0>>), Plain,
           Image(<<"image">>, ImageEnv, <<5, 6>>)}

At(tag, image) == [t \in {tag} |-> image]

(* Overlays.                                                               *)
OverlayOf(key, address, peers) ==
    [iface |-> Unset, key |-> key, address |-> address, peers |-> peers]
Peer(allowed) == [key |-> "peer", allowed |-> allowed]

Mesh == OverlayOf("key", CIDR(IP(9, 1)), {Peer({"range"})})
OwnMesh == OverlayOf("own", CIDR(IP(9, 2)), {Peer({})})
BadMesh == OverlayOf("key", CIDR(IP(9, 1)), {Peer({Broken})})
KeylessMesh == OverlayOf(Unset, CIDR(IP(9, 1)), {})

(* Boots of one image, without a pod.json; of some a share is mounted over *)
(* the configuration.                                                      *)
Directives == {
    <<>>,
    << <<"virtiofs", "data", <<"data">> >> >>,
    << <<"virtiofs", "data">>, <<"virtiofs", "data", <<"data">>, "ro">> >>,
    << <<"virtiofs", "data", RootfsDir("main")>> >>,
    << <<"virtiofs", "data", Unset>> >>}

SynthHosts ==
    {HostOf(CmdlineOf(config, rootfs, directives, <<>>, Unset), Absent, Absent, offered,
            At("r0", image)) :
        config \in {Unset, "cfg"}, rootfs \in {Unset, "r0"}, directives \in Directives,
        offered \in {{"cfg", "r0", "data"}, {"r0"}}, image \in Images}
    \cup
    {[HostOf(CmdlineOf(config, "r0", directives, <<>>, namespaces), Absent, wg, {"cfg", "r0"},
             At("r0", Plain)) EXCEPT !.kernel = kernel, !.proc = proc] :
        config \in {Unset, "cfg"}, directives \in {<<>>, << <<"virtiofs", "r0", CfgDir>> >>},
        namespaces \in {Unset, {}, {"uts"}},
        wg \in {Absent, Mesh}, kernel \in {Card, CardAndResolver}, proc \in BOOLEAN}

(* Boots of a pod of up to two containers.                                 *)
C(id, tag, command, args) ==
    [id |-> id, tag |-> tag, command |-> command, args |-> args, env |-> NoEnv, user |-> Unset,
     net |-> Unset, workdir |-> Unset, privileged |-> FALSE, limits |-> NoLimits, mounts |-> <<>>]

Bind(src, dst) == [src |-> src, dst |-> dst]

Containers == {
    [C("c1", "r1", <<"host">>, <<"arg">>) EXCEPT
        !.env = [k \in {1, 4} |-> "host"], !.user = <<7, 8>>, !.workdir = <<"home">>,
        !.limits = [mem |-> 7, cpu |-> 3, pids |-> -1], !.privileged = TRUE,
        !.mounts = <<Bind(<<"a">>, <<"sys">>), Bind(ResolvConf, <<"data">>), Bind(<<"b">>, <<"data">>)>>],
    [C("c1", "r1", <<>>, <<"arg">>) EXCEPT !.net = "none", !.limits = [mem |-> 9, cpu |-> 0, pids |-> 5]],
    [C("c1", "r1", <<>>, <<>>) EXCEPT
        !.env = [k \in {2, 5} |-> "host"], !.user = <<20>>, !.net = "host",
        !.mounts = <<Bind(<<"a">>, ResolvConf)>>],
    [C("c1", "r2", <<>>, <<>>) EXCEPT !.user = <<ByName>>]}

Second == C("c2", "r2", <<"host">>, <<>>)

PodOf(containers, shares, shareMounts, network_, wireguard) ==
    [id |-> "pod", containers |-> containers, shares |-> shares, shareMounts |-> shareMounts,
     network |-> network_, wireguard |-> wireguard]

Share(tag, path) == [tag |-> tag, path |-> path]
TwoShares == <<Share("r1", <<"a">>), Share("r2", <<"b">>)>>

Shares == {
    <<Share("r1", RootfsDir("c1"))>>,
    <<Share("r1", <<"a">>), Share("r2", <<"b">>), Share("r1", <<"c">>)>>,
    <<Share("r1", <<"a">>), Share("r2", RootfsDir("c1"))>>,
    <<>>}

NetworkOf(iface, address, gateway, dns) ==
    [iface |-> iface, address |-> address, gateway |-> gateway, dns |-> dns, hostname |-> "pod"]

Lan == NetworkOf(Unset, CIDR(IP(1, 2)), IP(1, 1), <<"dns">>)

Lan6 == NetworkOf(Unset, CIDR(IP6(1, 2)), IP6(1, 1), <<>>)

Networks == {
    Unset, Lan, NetworkOf("eth0", CIDR(IP(1, 3)), Unset, <<>>), NetworkOf(Unset, Unset, IP(1, 1), <<"dns">>),
    NetworkOf(Unset, CIDR(IP(1, 2)), IP(2, 1), <<>>), NetworkOf(Unset, CIDR(IP(1, 2)), Broken, <<>>),
    NetworkOf("wg0", CIDR(IP(1, 2)), Unset, <<>>)}

Full == CmdlineOf("cfg", Unset, <<>>, <<>>, Unset)

(* The network and the overlay do not depend on the containers, so that    *)
(* each is varied on its own.                                              *)
PodHosts ==
    {[HostOf(cmdline, PodOf(containers, shares, <<>>, Lan, OwnMesh), Absent,
             {"cfg", "r1", "r2"}, At("r1", image)) EXCEPT !.rootfsDirs = dirs] :
        cmdline \in {Full, [Full EXCEPT !.config = Unset]},
        containers \in {<<>>} \cup {<<c>> : c \in Containers} \cup {<<c, Second>> : c \in Containers},
        shares \in Shares, image \in {Absent, Image(<<"image">>, ImageEnv, <<5, 6>>)},
        dirs \in {{}, {"c1"}, {"c2"}}}
    \cup
    {[HostOf(Full, PodOf(<<c, Second>>, TwoShares, <<>>, w, wireguard), wg, {"cfg", "r1", "r2"},
             At("r1", Plain)) EXCEPT !.kernel = kernel] :
        c \in {d \in Containers : d.command = <<>>}, w \in Networks,
        wireguard \in {Unset, OwnMesh, BadMesh}, wg \in {Absent, Broken, Mesh, KeylessMesh},
        kernel \in {NoCard, Card, CardAndResolver, Configured}}
    \cup
    {[HostOf(Full, PodOf(<<Second>>, TwoShares, <<>>, Lan6, Unset), Absent, {"cfg", "r1", "r2"},
             At("r1", Plain)) EXCEPT !.kernel = kernel] : kernel \in {Card, DownAgain, HostPrefix}}

(* Boots with CubeFS shares, of the command line or of the pod.            *)
M(action, backend, cubefs) ==
    [id |-> "m", action |-> action, backend |-> backend, path |-> <<"team">>, cubefs |-> cubefs]

Volume(owner) == [volume |-> "v", masters |-> <<"master">>, owner |-> owner]

ShareMounts == {
    <<M("mount", Unset, Volume("owner"))>>, <<M("mount", "cubefs", Volume(Unset))>>,
    <<M("mount", "cubefs", Unset)>>, <<M("mount", "other", Volume("owner"))>>,
    <<M("unmount", "cubefs", Unset)>>, <<M("unmount", "other", Unset)>>,
    <<M("unmount", "cubefs", Volume("owner"))>>}

CmdlineCubeFSHosts ==
    {[HostOf(CmdlineOf("cfg", "r0", <<>>, cubefs, Unset), Absent, Mesh, {"cfg", "r0"},
             At("r0", Plain)) EXCEPT !.masters = "local", !.kernel = Configured] :
        cubefs \in {<< <<"master", "v", <<"team">> >> >>, << <<"master", "v">> >>}}

PodCubeFSHosts ==
    {[HostOf(Full, PodOf(<<Second>>, shares, shareMounts, Lan, OwnMesh), Absent, {"cfg", "r2"},
             At("r2", Absent)) EXCEPT !.masters = masters, !.kernel = kernel] :
        shares \in {<<Share("r2", <<"b">>)>>, <<Share("r2", <<"team">>)>>},
        shareMounts \in ShareMounts, masters \in {"local", "overlay"}, kernel \in {Card, Configured, DownAgain}}

CubeFSHosts == CmdlineCubeFSHosts \cup PodCubeFSHosts

(* Hosts that keep their side with files of the initramfs under /run.      *)
InitramfsHosts ==
    {HostOf([Full EXCEPT !.config = Unset], PodOf(<<Second>>, TwoShares, <<>>, Lan, OwnMesh), Absent,
            {"r1", "r2"}, At("r1", Absent)),
     [HostOf(Full, PodOf(<<Second>>, <<>>, <<>>, Lan, OwnMesh), Absent, {"cfg"}, At("r1", Absent))
         EXCEPT !.rootfsDirs = {"c2"}]}

MCHost ==
    SynthHosts \cup PodHosts \cup CubeFSHosts \cup InitramfsHosts
        \cup {HostOf(Full, Broken, Absent, {"cfg"}, At("r1", Absent))}
=============================================================================
