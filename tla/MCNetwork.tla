----------------------------- MODULE MCNetwork -----------------------------
(* Instances of Network for TLC.                                           *)
EXTENDS Network

Ip(family, net, hostPart) == [family |-> family, net |-> net, host |-> hostPart]
CIDR(ip) == [ip |-> ip, wide |-> TRUE]

NetworkOf(address, gateway, dns, name) ==
    [iface |-> Unset, address |-> address, gateway |-> gateway, dns |-> dns, hostname |-> name]

OverlayOf(key, address, peers) ==
    [iface |-> Unset, key |-> key, address |-> address, peers |-> peers]

Peer(key, allowed) == [key |-> key, allowed |-> allowed]

First(family) == NetworkOf(CIDR(Ip(family, 1, 2)), Ip(family, 1, 1), <<"dns1", "dns2">>, "pod")
Second == NetworkOf(CIDR(Ip(4, 1, 3)), Ip(4, 1, 4), <<"dns3">>, "other")
OffLink == NetworkOf(CIDR(Ip(4, 1, 2)), Ip(4, 2, 1), <<"dns1">>, Unset)
BadGateway == NetworkOf(CIDR(Ip(4, 1, 2)), Broken, <<"dns1">>, Unset)
BadAddress == NetworkOf(Broken, Unset, <<>>, Unset)
ResolverOnly == NetworkOf(Unset, Unset, <<"dns1">>, Unset)

MeshOf(family) == OverlayOf("key1", CIDR(Ip(family, 9, 1)), {Peer("peer1", {"range1"})})
MoreMesh == OverlayOf("key1", CIDR(Ip(4, 9, 1)),
                      {Peer("peer1", {"range1"}), Peer("peer2", {"range2"})})
MovedMesh == OverlayOf("key2", CIDR(Ip(4, 9, 2)), {Peer("peer2", {"range1", "range2"})})
BadKey == OverlayOf(Broken, CIDR(Ip(4, 9, 1)), {})
NoAddress == OverlayOf("key1", Unset, {})
BadPeer == OverlayOf("key1", CIDR(Ip(4, 9, 2)), {Peer("peer1", {"range1", Broken})})

Networks(config, id) == [kind |-> "network", id |-> id, config |-> config]
Overlays(config, id) == [kind |-> "overlay", id |-> id, config |-> config]

MCBatches ==
    {{Networks(n, 1), Networks(m, 2)} :
        n \in {First(4), First(6)},
        m \in {First(4), Second, OffLink, BadGateway, BadAddress, ResolverOnly}}
    \cup {{Networks(First(4), 1), Networks(First(4), 2), Networks(Second, 3)}}
    \cup {{Networks(First(4), 1), Overlays(MeshOf(4), 2)}}
    \cup {{Overlays(n, 1), Overlays(m, 2)} :
             n \in {MeshOf(4), MeshOf(6)}, m \in {MoreMesh, MovedMesh, BadKey, NoAddress, BadPeer}}
    \cup {{Overlays(MeshOf(4), 1), Overlays(MoreMesh, 2), Overlays(MovedMesh, 3)}}

Bare(state) ==
    [link |-> [i \in Iface |-> IF i = "eth0" THEN state ELSE "absent"],
     addrs |-> [i \in Iface |-> {}], route |-> [f \in Family |-> Unset], resolv |-> Unset]

(* The kernel's command line has ip=.                                      *)
Configured(gateway) ==
    [Bare("up") EXCEPT !.addrs["eth0"] = {CIDR(Ip(4, 1, 2))}, !.route[4] = gateway,
                       !.resolv = <<"kernel">>]

MCKernels == {Bare("absent"), Bare("down"), Configured(Ip(4, 1, 1)), Configured(Ip(4, 1, 9))}
=============================================================================
