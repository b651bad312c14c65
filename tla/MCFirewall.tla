----------------------------- MODULE MCFirewall -----------------------------
(* Instances of Firewall for TLC: two hosts, two ports, and firewalls of   *)
(* at most two rules.                                                      *)
EXTENDS Firewall

R(direction, protocol, portMin, portMax, cidr) ==
    [direction |-> direction, protocol |-> protocol,
     portMin |-> portMin, portMax |-> portMax, cidr |-> cidr]

Net(family, hosts) == [family |-> family, hosts |-> hosts]

(* Each shape of rule: any port, one, a range from 0, a range of all, with *)
(* and without a protocol and a CIDR of either family.                     *)
Rules == {
    R("ingress", Unset, 0, 0, Unset),
    R("ingress", "icmp", 0, 0, Net("v6", {1, 2})),
    R("ingress", "tcp", 1, 1, Net("v4", {1})),
    R("ingress", "tcp", 0, 1, Unset),
    R("ingress", "udp", 1, 2, Net("v4", {2})),
    R("egress", "tcp", 1, 1, Net("v4", {1}))}

(* None, one or two rules, of which one may fail to build after another,   *)
(* and rules that Validate refuses: an unknown protocol, ports without a   *)
(* protocol, and a range without an upper end.                             *)
MCRuleset ==
    {<<>>} \cup {<<r>> : r \in Rules}
        \cup {<<R("ingress", "tcp", 1, 1, Unset), R("ingress", "tcp", 1, 1, BadCidr)>>,
              <<R("ingress", Unset, 0, 0, Unset), R("ingress", "unknown", 0, 0, Unset)>>,
              <<R("ingress", Unset, 1, 1, Unset)>>, <<R("ingress", "tcp", 1, 0, Unset)>>,
              <<R("egress", "udp", 1, 2, Unset), R("ingress", "tcp", 2, 2, Net("v4", {2}))>>}

(* Two firewalls of one rule each, in different chains.                    *)
TwoRulesets ==
    {<<R("ingress", Unset, 0, 0, Unset)>>, <<R("egress", Unset, 0, 0, Unset)>>}
=============================================================================
