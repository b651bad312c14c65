------------------------------ MODULE Firewall ------------------------------
(***************************************************************************)
(* The firewall reconciler and its status reader                           *)
(* (src/pkg/network/firewall_linux.go, firewallstat_linux.go), with the    *)
(* nftables of the kernel they work on.                                    *)
(*                                                                         *)
(* ApplyFirewall lists the tables, prepares one batch that replaces the    *)
(* whole table "weft-fw", and sends it: the kernel applies a batch all or  *)
(* nothing.  Its callers hold a mutex.  ReadFirewallStatus holds none, and *)
(* reads tables, chains and rules in separate dumps.  Meanwhile packets    *)
(* arrive, and somebody else may delete the table.                         *)
(***************************************************************************)
EXTENDS Naturals, Sequences, FiniteSets

CONSTANTS
    Applier, NoApplier, \* goroutines that call ApplyFirewall
    Host,               \* remote hosts, the same set for IPv4 and IPv6
    Port,               \* ports, a range of numbers from 0
    Ruleset,            \* the firewalls that are applied
    Unset,              \* an empty Protocol or RemoteCIDR
    BadCidr,            \* a RemoteCIDR that does not parse
    NoPolicy,           \* no firewall is in force
    MaxDrops            \* bound on the packets dropped by one table

Direction == {"ingress", "egress"}
Family == {"v4", "v6"}
Protocol == {"tcp", "udp", "icmp"}

(* A CIDR is the family and the set of hosts it covers.                    *)
Cidr == [family : Family, hosts : SUBSET Host]

(* pod.FirewallRule.  ApplyFirewall does not validate what it is given, so *)
(* that the protocol may be an unknown one.  A rule of another direction   *)
(* is left out: with a CIDR it fails the build as a bad one does, and      *)
(* without one it is added to no chain.                                    *)
Rule == [direction : Direction, protocol : Protocol \cup {Unset, "unknown"},
         portMin : Port, portMax : Port, cidr : Cidr \cup {Unset, BadCidr}]

ASSUME ConstantsAreSound ==
    /\ NoApplier \notin Applier
    /\ Port \subseteq Nat /\ 0 \in Port
    /\ Ruleset \subseteq Seq(Rule)
    /\ NoPolicy \notin Ruleset
    /\ MaxDrops \in Nat

(* A packet on the input hook: its other end, where it is going, and what  *)
(* conntrack and the interface say of it.  ICMP of IPv6 has a protocol     *)
(* number of its own, which no rule can name.                              *)
Packet == [family : Family, saddr : Host, daddr : Host,
           proto : Protocol \cup {"icmpv6"}, dport : Port \ {0},
           established : BOOLEAN, lo : BOOLEAN]

VARIABLES
    table,     \* the kernel's table "weft-fw"
    mutex,     \* who holds firewallMu
    pc,        \* where each applier is
    want,      \* the firewall it applies
    listed,    \* whether its list of tables has the table
    installed, \* the firewall of the last successful Apply, if still there
    reader,    \* where the status reader is
    status,    \* the status being collected, then reported
    before     \* the table when the read began, or NoTable if disturbed

applyVars == <<mutex, pc, want, listed, installed>>
readVars == <<reader, status, before>>
vars == <<table, applyVars, readVars>>

-----------------------------------------------------------------------------
(* buildRuleExprs: a rule is a set of matches that must all hold.          *)

Match(field, values) == [field |-> field, values |-> values]

AddrField(direction) == IF direction = "ingress" THEN "saddr" ELSE "daddr"

CidrExprs(r) ==
    IF r.cidr = Unset THEN {}
    ELSE {Match("family", {r.cidr.family}), Match(AddrField(r.direction), r.cidr.hosts)}

ProtocolExprs(r) == IF r.protocol = Unset THEN {} ELSE {Match("proto", {r.protocol})}

PortExprs(r) ==
    IF r.portMin = 0 /\ r.portMax = 0 THEN {}
    ELSE {Match("dport", {p \in Port : r.portMin <= p /\ p <= r.portMax})}

RuleExprs(r) == CidrExprs(r) \cup ProtocolExprs(r) \cup PortExprs(r)

Entry(chain, exprs, verdict) == [chain |-> chain, exprs |-> exprs, verdict |-> verdict]

CtEstablishedAccept == Entry("input", {Match("established", {TRUE})}, "accept")
IifAccept == Entry("input", {Match("lo", {TRUE})}, "accept")
TailDrop == Entry("input", {}, "drop")

Accept(r) ==
    Entry(IF r.direction = "ingress" THEN "input" ELSE "output", RuleExprs(r), "accept")

(* Mutant: no tail rule.                                                   *)
BatchNoTail(rules) ==
    <<CtEstablishedAccept, IifAccept>> \o [i \in DOMAIN rules |-> Accept(rules[i])]

(* The rules one Apply adds to the table, in order.                        *)
Batch(rules) ==
    <<CtEstablishedAccept, IifAccept>>
        \o [i \in DOMAIN rules |-> Accept(rules[i])] \o <<TailDrop>>

(* A rule with a RemoteCIDR that does not parse or an unknown protocol     *)
(* fails the whole Apply.                                                  *)
Builds(rules) ==
    \A i \in DOMAIN rules : rules[i].cidr # BadCidr /\ rules[i].protocol # "unknown"

-----------------------------------------------------------------------------
(* FirewallRule.Validate and Firewall.Validate.  A caller that loads its   *)
(* firewall from a file applies valid ones only.  The direction is a known *)
(* one in every Rule.                                                      *)

(* Mutant: ports are allowed with any protocol.                            *)
ValidRulePorts(r) ==
    /\ r.protocol # "unknown"
    /\ (r.portMin # 0 \/ r.portMax # 0) => r.portMin <= r.portMax
    /\ r.cidr # BadCidr

ValidRule(r) ==
    /\ r.protocol # "unknown"
    /\ (r.portMin # 0 \/ r.portMax # 0) =>
            r.protocol \in {"tcp", "udp"} /\ r.portMin <= r.portMax
    /\ r.cidr # BadCidr

Valid(rules) == \A i \in DOMAIN rules : ValidRule(rules[i])

-----------------------------------------------------------------------------
(* The kernel: a table is the rules added to it, in order, and what its    *)
(* tail rules have counted.  A chain is walked until a rule of it matches. *)

NoTable == [exists |-> FALSE, rules |-> <<>>, drops |-> 0]
EmptyTable == [exists |-> TRUE, rules |-> <<>>, drops |-> 0]

Chain(t, name) == {i \in DOMAIN t.rules : t.rules[i].chain = name}

Hits(entry, packet) == \A m \in entry.exprs : packet[m.field] \in m.values

Hit(t, packet) == {i \in Chain(t, "input") : Hits(t.rules[i], packet)}

First(I) == CHOOSE i \in I : \A j \in I : i <= j

(* The verdict on an incoming packet.  Without a table all are accepted;   *)
(* "policy" is a drop by the chain's policy, which is counted nowhere.     *)
Verdict(t, packet) ==
    IF ~t.exists THEN "accept"
    ELSE IF Hit(t, packet) = {} THEN "policy"
    ELSE t.rules[First(Hit(t, packet))].verdict

(* A status with nothing counted yet.                                      *)
Report(healthy, exists) ==
    [healthy |-> healthy, installed |-> exists, rules |-> 0, drops |-> 0]

Init ==
    /\ table = NoTable
    /\ mutex = NoApplier
    /\ pc = [a \in Applier |-> "idle"]
    /\ want = [a \in Applier |-> <<>>]
    /\ listed = [a \in Applier |-> FALSE]
    /\ installed = NoPolicy
    /\ reader = "idle"
    /\ status = Report(TRUE, FALSE)
    /\ before = NoTable

(* A packet comes in that matches nothing: the tail rule counts it.        *)
PacketDropped ==
    /\ table.exists /\ table.drops < MaxDrops
    /\ \E packet \in Packet : Verdict(table, packet) = "drop"
    /\ table' = [table EXCEPT !.drops = @ + 1]
    /\ UNCHANGED <<applyVars, readVars>>

(* The table is changed by somebody: a read under way is disturbed.        *)
SetTable(t) == table' = t /\ before' = NoTable

(* An operator flushes the table.                                          *)
ExternalFlush ==
    /\ table.exists
    /\ SetTable(NoTable)
    /\ installed' = NoPolicy
    /\ UNCHANGED <<mutex, pc, want, listed, reader, status>>

-----------------------------------------------------------------------------
(* ApplyFirewall                                                           *)

(* Mutant: the mutex is not taken.                                         *)
LockNot(a) ==
    /\ pc[a] = "idle" /\ mutex' = a
    /\ \E rules \in Ruleset : want' = [want EXCEPT ![a] = rules]
    /\ pc' = [pc EXCEPT ![a] = "list"]
    /\ UNCHANGED <<table, listed, installed, readVars>>

Lock(a) ==
    /\ pc[a] = "idle" /\ mutex = NoApplier
    /\ mutex' = a
    /\ \E rules \in Ruleset : want' = [want EXCEPT ![a] = rules]
    /\ pc' = [pc EXCEPT ![a] = "list"]
    /\ UNCHANGED <<table, listed, installed, readVars>>

ListTables(a) ==
    /\ pc[a] = "list"
    /\ listed' = [listed EXCEPT ![a] = table.exists]
    /\ pc' = [pc EXCEPT ![a] = "build"]
    /\ UNCHANGED <<table, mutex, want, installed, readVars>>

Return(a) ==
    /\ mutex' = NoApplier
    /\ pc' = [pc EXCEPT ![a] = "idle"]
    /\ want' = [want EXCEPT ![a] = <<>>]
    /\ listed' = [listed EXCEPT ![a] = FALSE]

(* The netlink socket or the list of tables fails.                         *)
ListFails(a) ==
    /\ pc[a] = "list"
    /\ Return(a)
    /\ UNCHANGED <<table, installed, readVars>>

(* Mutant: the old table is deleted first, in a batch of its own.          *)
BuildFailsLate(a) ==
    /\ pc[a] = "build" /\ ~Builds(want[a])
    /\ table' = NoTable /\ before' = NoTable
    /\ Return(a)
    /\ UNCHANGED <<installed, reader, status>>

(* A rule cannot be built: nothing has been sent yet.                      *)
BuildFails(a) ==
    /\ pc[a] = "build" /\ ~Builds(want[a])
    /\ Return(a)
    /\ UNCHANGED <<table, installed, readVars>>

(* The batch deletes a listed table and adds the new one.  Adding a table  *)
(* or a chain that exists already is no error: rules are then appended.    *)
Flush(a) ==
    LET old == IF listed[a] \/ ~table.exists THEN EmptyTable ELSE table IN
    /\ pc[a] = "build" /\ Builds(want[a])
    /\ listed[a] => table.exists
    /\ SetTable([old EXCEPT !.rules = @ \o Batch(want[a])])
    /\ installed' = want[a]
    /\ Return(a)
    /\ UNCHANGED <<reader, status>>

(* The kernel or the socket refuses the batch, which has no effect then;   *)
(* it does so when the table to be deleted is gone.                        *)
FlushFails(a) ==
    /\ pc[a] = "build" /\ Builds(want[a])
    /\ Return(a)
    /\ UNCHANGED <<table, installed, readVars>>

-----------------------------------------------------------------------------
(* ReadFirewallStatus                                                      *)

ReadTables ==
    /\ reader = "idle"
    /\ status' = Report(TRUE, table.exists)
    /\ before' = table
    /\ reader' = IF table.exists THEN "chains" ELSE "reported"
    /\ UNCHANGED <<table, applyVars>>

(* The chains of the table: none when it has been deleted meanwhile.       *)
ReadChains ==
    /\ reader = "chains"
    /\ reader' = IF table.exists THEN "input" ELSE "reported"
    /\ UNCHANGED <<table, applyVars, status, before>>

(* Mutant: the rules of every chain are read for each of the chains.       *)
ReadInputTwice ==
    /\ reader = "input" /\ reader' = "output"
    /\ status' = [status EXCEPT !.rules = @ + Len(table.rules), !.drops = @ + table.drops]
    /\ UNCHANGED <<table, applyVars, before>>

(* The rules of a table that is gone are none, and so are its drops.       *)
ReadInput ==
    /\ reader = "input"
    /\ reader' = "output"
    /\ status' = [status EXCEPT !.rules = @ + Cardinality(Chain(table, "input")),
                                !.drops = @ + table.drops]
    /\ UNCHANGED <<table, applyVars, before>>

ReadOutput ==
    /\ reader = "output"
    /\ reader' = "reported"
    /\ status' = [status EXCEPT !.rules = @ + Cardinality(Chain(table, "output"))]
    /\ UNCHANGED <<table, applyVars, before>>

(* A dump fails, at any step: what was collected is given up for a status  *)
(* "Degraded", which knows of the table only if it was listed before.      *)
ReadFails ==
    /\ reader # "reported"
    /\ reader' = "reported"
    /\ status' = Report(FALSE, reader # "idle")
    /\ UNCHANGED <<table, applyVars, before>>

(* The emitter publishes the status and waits for its next turn.           *)
Publish ==
    /\ reader = "reported"
    /\ reader' = "idle"
    /\ UNCHANGED <<table, applyVars, status, before>>

ReaderStep ==
    ReadTables \/ ReadChains \/ ReadInput \/ ReadOutput \/ ReadFails \/ Publish

Next ==
    \/ PacketDropped
    \/ ExternalFlush
    \/ \E a \in Applier :
          \/ Lock(a) \/ ListTables(a) \/ ListFails(a)
          \/ BuildFails(a) \/ Flush(a) \/ FlushFails(a)
    \/ ReaderStep

Spec == Init /\ [][Next]_vars

-----------------------------------------------------------------------------
TypeOK ==
    /\ DOMAIN table = DOMAIN NoTable
    /\ table.exists \in BOOLEAN /\ table.drops \in 0..MaxDrops
    /\ mutex \in Applier \cup {NoApplier}
    /\ pc \in [Applier -> {"idle", "list", "build"}]
    /\ \A a \in Applier : pc[a] # "idle" <=> mutex = a
    /\ want \in [Applier -> Ruleset \cup {<<>>}]
    /\ \A a \in Applier : pc[a] # "idle" => want[a] \in Ruleset
    /\ listed \in [Applier -> BOOLEAN]
    /\ installed \in Ruleset \cup {NoPolicy}
    /\ reader \in {"idle", "chains", "input", "output", "reported"}
    /\ status \in [healthy : BOOLEAN, installed : BOOLEAN, rules : Nat, drops : Nat]

(* What pod.FirewallRule says a rule lets in, in terms of its fields.      *)
Permits(r, packet) ==
    /\ r.direction = "ingress"
    /\ r.protocol \in {Unset, packet.proto}
    /\ (r.portMin # 0 \/ r.portMax # 0) =>
            r.portMin <= packet.dport /\ packet.dport <= r.portMax
    /\ r.cidr # Unset => packet.family = r.cidr.family /\ packet.saddr \in r.cidr.hosts

Permitted(rules, packet) ==
    packet.established \/ packet.lo \/ \E i \in DOMAIN rules : Permits(rules[i], packet)

(* At every moment the guest lets in exactly what the firewall of the last *)
(* successful Apply permits: applies that fail, at whatever step, leave    *)
(* the policy alone, and no packet ever meets half of a replacement.       *)
PolicyAsApplied ==
    \A packet \in Packet :
        Verdict(table, packet) = "accept" <=>
            installed = NoPolicy \/ Permitted(installed, packet)

(* What is dropped is counted: the uncounted drop of the chain's policy is *)
(* never reached.                                                          *)
EveryDropCounted == \A packet \in Packet : Verdict(table, packet) # "policy"

(* What the comments of FirewallRule say of a rule: a port of 0 is unset,  *)
(* and ports are ignored unless the protocol is tcp or udp.                *)
Documented(r, packet) ==
    /\ r.direction = "ingress"
    /\ r.protocol \in {Unset, packet.proto}
    /\ r.protocol \in {"tcp", "udp"} =>
            /\ r.portMin # 0 => r.portMin <= packet.dport
            /\ r.portMax # 0 => packet.dport <= r.portMax
    /\ r.cidr # Unset => packet.family = r.cidr.family /\ packet.saddr \in r.cidr.hosts

(* A firewall that Validate accepts lets in what the comments of its rules *)
(* say: the fields ApplyFirewall reads otherwise are those Validate has    *)
(* refused.                                                                *)
ValidatedAsDocumented ==
    (installed # NoPolicy /\ Valid(installed)) =>
        \A packet \in Packet :
            Verdict(table, packet) = "accept" <=>
                \/ packet.established \/ packet.lo
                \/ \E i \in DOMAIN installed : Documented(installed[i], packet)

(* A healthy status read while nobody changed the table gives its number   *)
(* of rules and a number of drops that was true at some moment of the      *)
(* read, though packets were dropped and dumps may fail meanwhile.         *)
StatusAccurate ==
    (reader = "reported" /\ status.healthy /\ status.installed /\ before # NoTable) =>
        /\ status.rules = Len(table.rules)
        /\ before.drops <= status.drops /\ status.drops <= table.drops

(* ReadFirewallStatus "returns a [[pod.FirewallStatus]] snapshot"          *)
(* (firewallstat_linux.go:14-15): the rules a healthy status counts are    *)
(* those of one firewall.  It does not hold: the chains are read one after *)
(* the other, and an Apply may come between.                               *)
StatusIsSnapshot ==
    (reader = "reported" /\ status.healthy /\ status.installed /\ installed # NoPolicy) =>
        \E rules \in Ruleset : Builds(rules) /\ status.rules = Len(Batch(rules))

(* "Counters survive table rebuilds" and an operator "sees monotonic       *)
(* counts" (firewall_linux.go:101-105): while there is a table its drops   *)
(* never decrease.  It does not hold: no counter object is declared, and   *)
(* the counter of the tail rule starts anew with every Apply.              *)
CountersMonotonic == [][table.exists /\ table'.exists => table.drops <= table'.drops]_vars

=============================================================================
