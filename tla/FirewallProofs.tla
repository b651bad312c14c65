--------------------------- MODULE FirewallProofs ---------------------------
(***************************************************************************)
(* Proofs about Firewall for every set of appliers, hosts and ports and    *)
(* every set of firewalls: its type invariant, that packets always meet    *)
(* exactly the policy of the last successful Apply, that this is what the  *)
(* documentation says of it, and that no drop goes uncounted.              *)
(***************************************************************************)
EXTENDS Firewall, SequenceTheorems, FiniteSetTheorems, WellFoundedInduction, TLAPS

Entries == {Accept(r) : r \in Rule} \cup {CtEstablishedAccept, IifAccept, TailDrop}

(* The table is whole, the rules of one Apply or none at all, because the  *)
(* mutex keeps what an applier has listed true until its batch is sent.    *)
Whole ==
    /\ table \in [exists : BOOLEAN, rules : Seq(Entries), drops : 0..MaxDrops]
    /\ table.exists <=> installed # NoPolicy
    /\ table.exists => table.rules = Batch(installed)
    /\ ~table.exists => table = NoTable

ListedFresh ==
    \A a \in Applier : pc[a] = "build" /\ table.exists => listed[a]

(* What the reader has collected so far, as long as nobody changed the     *)
(* table under it.                                                         *)
ReadSoFar ==
    before # NoTable =>
        /\ table.exists /\ before.drops \in Nat /\ before.drops <= table.drops
        /\ reader \in {"chains", "input"} => status.rules = 0 /\ status.drops = 0
        /\ reader = "output" =>
              /\ status.rules = Cardinality(Chain(table, "input"))
              /\ before.drops <= status.drops /\ status.drops <= table.drops

IInv == TypeOK /\ Whole /\ ListedFresh /\ ReadSoFar /\ StatusAccurate

-----------------------------------------------------------------------------
(* Any set of natural numbers that is not empty has a smallest one.        *)
LEMMA FirstIsLeast ==
  ASSUME NEW H \in SUBSET Nat, H # {}
  PROVE  First(H) \in H /\ \A j \in H : First(H) <= j
<1>1. PICK i \in H : \A j \in H : <<j, i>> \notin OpToRel(<, Nat)
  BY NatLessThanWellFounded, WFMin
<1>2. \A j \in H : ~(j < i)
  BY <1>1 DEF OpToRel
<1>3. \A j \in H : i <= j
  BY <1>2
<1> QED
  BY <1>3 DEF First

(* The rules of a batch: the two that are always there, one for each rule  *)
(* of the firewall, and the tail.                                          *)
LEMMA BatchShape ==
  ASSUME NEW rules \in Seq(Rule)
  PROVE  /\ Batch(rules) \in Seq(Entries)
         /\ Len(Batch(rules)) = Len(rules) + 3
         /\ Batch(rules)[1] = CtEstablishedAccept
         /\ Batch(rules)[2] = IifAccept
         /\ \A i \in DOMAIN rules : Batch(rules)[i + 2] = Accept(rules[i])
         /\ Batch(rules)[Len(rules) + 3] = TailDrop
<1> DEFINE middle == [i \in DOMAIN rules |-> Accept(rules[i])]
<1> DEFINE head == <<CtEstablishedAccept, IifAccept>>
<1>1. middle \in Seq(Entries) /\ Len(middle) = Len(rules)
  BY DEF Entries
<1>2. head \in Seq(Entries) /\ Len(head) = 2 /\ head[1] = CtEstablishedAccept /\ head[2] = IifAccept
  BY DEF Entries
<1>3. <<TailDrop>> \in Seq(Entries) /\ Len(<<TailDrop>>) = 1 /\ <<TailDrop>>[1] = TailDrop
  BY DEF Entries
<1>4. Batch(rules) = head \o middle \o <<TailDrop>>
  BY DEF Batch
<1>5. Len(rules) \in Nat /\ DOMAIN rules = 1..Len(rules)
  OBVIOUS
<1> HIDE DEF middle, head
<1>6. /\ head \o middle \in Seq(Entries) /\ Len(head \o middle) = Len(rules) + 2
      /\ \A i \in 1..(Len(rules) + 2) :
            (head \o middle)[i] = IF i <= 2 THEN head[i] ELSE middle[i - 2]
  <2>1. /\ head \o middle \in Seq(Entries) /\ Len(head \o middle) = Len(head) + Len(middle)
        /\ \A i \in 1..(Len(head) + Len(middle)) :
              (head \o middle)[i] = IF i <= Len(head) THEN head[i] ELSE middle[i - Len(head)]
    <3>1. head \in Seq(Entries) /\ middle \in Seq(Entries)
      BY <1>1, <1>2
    <3> HIDE DEF Entries
    <3> QED
      BY <3>1, ConcatProperties, Zenon
  <2>2. Len(head) = 2 /\ Len(middle) = Len(rules) /\ 2 + Len(rules) = Len(rules) + 2
    BY <1>1, <1>2, <1>5
  <2> QED
    BY <2>1, <2>2
<1>7. /\ Batch(rules) \in Seq(Entries) /\ Len(Batch(rules)) = Len(rules) + 3
      /\ \A i \in 1..(Len(rules) + 3) :
            Batch(rules)[i] = IF i <= Len(rules) + 2 THEN (head \o middle)[i]
                              ELSE <<TailDrop>>[i - (Len(rules) + 2)]
  BY <1>3, <1>4, <1>5, <1>6, ConcatProperties
<1>8. Batch(rules)[1] = CtEstablishedAccept /\ Batch(rules)[2] = IifAccept
  <2>1. \A i \in {1, 2} : /\ i \in 1..(Len(rules) + 2) /\ i \in 1..(Len(rules) + 3)
                         /\ i <= 2 /\ i <= Len(rules) + 2
    BY <1>5
  <2>2. \A i \in {1, 2} : Batch(rules)[i] = head[i]
    BY <1>6, <1>7, <2>1
  <2> QED
    BY <1>2, <2>2
<1>9. \A i \in DOMAIN rules : Batch(rules)[i + 2] = middle[i]
  <2> SUFFICES ASSUME NEW i \in 1..Len(rules) PROVE Batch(rules)[i + 2] = middle[i]
    BY <1>5
  <2>1. /\ i + 2 \in 1..(Len(rules) + 2) /\ i + 2 \in 1..(Len(rules) + 3)
        /\ ~(i + 2 <= 2) /\ (i + 2) - 2 = i /\ i + 2 <= Len(rules) + 2
    BY <1>5
  <2>2. Batch(rules)[i + 2] = (head \o middle)[i + 2]
    BY <1>7, <2>1
  <2> QED
    BY <1>6, <2>1, <2>2
<1>10. \A i \in DOMAIN rules : middle[i] = Accept(rules[i])
  BY DEF middle
<1>11. Batch(rules)[Len(rules) + 3] = TailDrop
  BY <1>3, <1>5, <1>7
<1> QED
  BY <1>7, <1>8, <1>9, <1>10, <1>11

(* What buildRuleExprs makes of a rule matches what the rule permits.      *)
LEMMA AcceptHits ==
  ASSUME NEW r \in Rule, NEW packet \in Packet
  PROVE  Permits(r, packet) <=> (Accept(r).chain = "input" /\ Hits(Accept(r), packet))
<1>0. /\ packet["family"] = packet.family /\ packet["saddr"] = packet.saddr
      /\ packet["proto"] = packet.proto /\ packet["dport"] = packet.dport
  OBVIOUS
<1>1. r.direction \in Direction /\ r.portMin \in Nat /\ r.portMax \in Nat /\ packet.dport \in Port
  BY ConstantsAreSound DEF Rule, Packet
<1>2. Accept(r).chain = "input" <=> r.direction = "ingress"
  BY <1>1 DEF Accept, Entry, Direction
<1>3. ASSUME r.direction = "ingress"
      PROVE  (\A m \in CidrExprs(r) : packet[m.field] \in m.values)
               <=> (r.cidr # Unset => packet.family = r.cidr.family /\ packet.saddr \in r.cidr.hosts)
  <2>1. CASE r.cidr = Unset
    BY <2>1 DEF CidrExprs
  <2>2. CASE r.cidr # Unset
    <3>1. CidrExprs(r) = {Match("family", {r.cidr.family}), Match("saddr", r.cidr.hosts)}
      BY <1>3, <2>2 DEF CidrExprs, AddrField
    <3> QED
      BY <1>0, <2>2, <3>1 DEF Match
  <2> QED
    BY <2>1, <2>2
<1>4. (\A m \in ProtocolExprs(r) : packet[m.field] \in m.values)
        <=> r.protocol \in {Unset, packet.proto}
  <2>1. CASE r.protocol = Unset
    BY <2>1 DEF ProtocolExprs
  <2>2. CASE r.protocol # Unset
    <3>1. ProtocolExprs(r) = {Match("proto", {r.protocol})}
      BY <2>2 DEF ProtocolExprs
    <3> QED
      BY <1>0, <2>2, <3>1 DEF Match
  <2> QED
    BY <2>1, <2>2
<1>5. (\A m \in PortExprs(r) : packet[m.field] \in m.values)
        <=> ((r.portMin # 0 \/ r.portMax # 0) =>
                r.portMin <= packet.dport /\ packet.dport <= r.portMax)
  <2> DEFINE between == {p \in Port : r.portMin <= p /\ p <= r.portMax}
  <2>1. CASE r.portMin = 0 /\ r.portMax = 0
    BY <2>1 DEF PortExprs
  <2>2. CASE r.portMin # 0 \/ r.portMax # 0
    <3>1. PortExprs(r) = {Match("dport", between)}
      BY <1>1, <2>2 DEF PortExprs
    <3>2. (\A m \in PortExprs(r) : packet[m.field] \in m.values) <=> packet.dport \in between
      BY <1>0, <3>1 DEF Match
    <3> QED
      BY <1>1, <2>2, <3>2
  <2> QED
    BY <1>1, <2>1, <2>2
<1>6. Hits(Accept(r), packet) <=> \A m \in RuleExprs(r) : packet[m.field] \in m.values
  BY DEF Hits, Accept, Entry
<1>7. Hits(Accept(r), packet) <=>
        /\ \A m \in CidrExprs(r) : packet[m.field] \in m.values
        /\ \A m \in ProtocolExprs(r) : packet[m.field] \in m.values
        /\ \A m \in PortExprs(r) : packet[m.field] \in m.values
  BY <1>6 DEF RuleExprs
<1> QED
  BY <1>2, <1>3, <1>4, <1>5, <1>7 DEF Permits

(* A packet that meets a whole table is accepted if its firewall permits   *)
(* it, and is otherwise dropped by the tail rule.                          *)
LEMMA WholeVerdict ==
  ASSUME NEW rules \in Seq(Rule), NEW packet \in Packet, NEW t,
         t.exists = TRUE, t.rules = Batch(rules)
  PROVE  Verdict(t, packet) = IF Permitted(rules, packet) THEN "accept" ELSE "drop"
<1> DEFINE n == Len(rules)
<1> DEFINE H == Hit(t, packet)
<1>1. n \in Nat /\ DOMAIN rules = 1..n /\ DOMAIN t.rules = 1..(n + 3)
  BY BatchShape
<1>2. t.rules[n + 3] = TailDrop /\ n + 3 \in H
  <2>1. t.rules[n + 3] = TailDrop /\ n + 3 \in DOMAIN t.rules
    BY <1>1, BatchShape
  <2> QED
    BY <2>1 DEF Hit, Chain, Hits, TailDrop, Entry
<1>3. \A i \in 1..(n + 2) : t.rules[i].verdict = "accept"
  <2>1. \A i \in 1..n : t.rules[i + 2].verdict = "accept"
    <3>1. \A i \in 1..n : t.rules[i + 2] = Accept(rules[i])
      BY <1>1, BatchShape
    <3>2. \A r : Accept(r).verdict = "accept"
      BY DEF Accept, Entry
    <3> QED
      BY <3>1, <3>2
  <2>2. t.rules[1].verdict = "accept" /\ t.rules[2].verdict = "accept"
    BY BatchShape DEF CtEstablishedAccept, IifAccept, Entry
  <2>3. \A i \in 1..(n + 2) : i = 1 \/ i = 2 \/ (i - 2 \in 1..n /\ i = (i - 2) + 2)
    BY <1>1
  <2> QED
    BY <2>1, <2>2, <2>3
<1>4. Permitted(rules, packet) <=> \E i \in 1..(n + 2) : i \in H
  <2>1. 1 \in H <=> packet.established
    <3>1. t.rules[1] = CtEstablishedAccept /\ 1 \in DOMAIN t.rules
      BY <1>1, BatchShape
    <3>a. /\ CtEstablishedAccept.chain = "input"
          /\ CtEstablishedAccept.exprs = {Match("established", {TRUE})}
      BY DEF CtEstablishedAccept, Entry
    <3>b. /\ Match("established", {TRUE}).field = "established"
          /\ Match("established", {TRUE}).values = {TRUE}
      BY DEF Match
    <3>2. 1 \in H <=> Hits(CtEstablishedAccept, packet)
      BY <3>1, <3>a, Zenon DEF Hit, Chain
    <3>3. Hits(CtEstablishedAccept, packet) <=> packet["established"] \in {TRUE}
      BY <3>a, <3>b, Zenon DEF Hits
    <3>4. packet["established"] = packet.established /\ packet.established \in BOOLEAN
      BY DEF Packet
    <3> QED
      BY <3>2, <3>3, <3>4
  <2>2. 2 \in H <=> packet.lo
    <3>1. t.rules[2] = IifAccept /\ 2 \in DOMAIN t.rules
      BY <1>1, BatchShape
    <3>a. /\ IifAccept.chain = "input"
          /\ IifAccept.exprs = {Match("lo", {TRUE})}
      BY DEF IifAccept, Entry
    <3>b. /\ Match("lo", {TRUE}).field = "lo"
          /\ Match("lo", {TRUE}).values = {TRUE}
      BY DEF Match
    <3>2. 2 \in H <=> Hits(IifAccept, packet)
      BY <3>1, <3>a, Zenon DEF Hit, Chain
    <3>3. Hits(IifAccept, packet) <=> packet["lo"] \in {TRUE}
      BY <3>a, <3>b, Zenon DEF Hits
    <3>4. packet["lo"] = packet.lo /\ packet.lo \in BOOLEAN
      BY DEF Packet
    <3> QED
      BY <3>2, <3>3, <3>4
  <2>3. \A i \in 1..n : i + 2 \in H <=> Permits(rules[i], packet)
    <3> SUFFICES ASSUME NEW i \in 1..n PROVE i + 2 \in H <=> Permits(rules[i], packet)
      OBVIOUS
    <3>0. i \in DOMAIN rules /\ i + 2 \in 1..(n + 3)
      BY <1>1
    <3>1. t.rules[i + 2] = Accept(rules[i]) /\ i + 2 \in DOMAIN t.rules /\ rules[i] \in Rule
      BY <1>1, <3>0, BatchShape
    <3> QED
      BY <3>1, AcceptHits DEF Hit, Chain
  <2>4. (\E i \in 1..(n + 2) : i \in H) <=> (1 \in H \/ 2 \in H \/ \E i \in 1..n : i + 2 \in H)
    <3>1. \A i \in 1..(n + 2) : i = 1 \/ i = 2 \/ (i - 2 \in 1..n /\ i = (i - 2) + 2)
      BY <1>1
    <3>2. 1 \in 1..(n + 2) /\ 2 \in 1..(n + 2) /\ \A i \in 1..n : i + 2 \in 1..(n + 2)
      BY <1>1
    <3> HIDE DEF H
    <3> QED
      BY <3>1, <3>2
  <2> QED
    BY <1>1, <2>1, <2>2, <2>3, <2>4 DEF Permitted
<1>5. H \in SUBSET Nat /\ H # {} /\ H \subseteq 1..(n + 3)
  BY <1>1, <1>2 DEF Hit, Chain
<1>6. First(H) \in H /\ \A j \in H : First(H) <= j
  BY <1>5, FirstIsLeast
<1>7. Verdict(t, packet) = t.rules[First(H)].verdict
  BY <1>5 DEF Verdict
<1>8. TailDrop.verdict = "drop"
  BY DEF TailDrop, Entry
<1> HIDE DEF H
<1>9. CASE Permitted(rules, packet)
  <2>1. PICK i \in 1..(n + 2) : i \in H
    BY <1>4, <1>9
  <2>2. First(H) <= i /\ First(H) \in 1..(n + 3)
    BY <1>5, <1>6, <2>1
  <2>3. First(H) \in 1..(n + 2)
    BY <1>1, <2>1, <2>2
  <2> QED
    BY <1>3, <1>7, <1>9, <2>3
<1>10. CASE ~Permitted(rules, packet)
  <2>1. First(H) = n + 3
    <3>1. First(H) \in 1..(n + 3) /\ First(H) \notin 1..(n + 2)
      BY <1>4, <1>5, <1>6, <1>10
    <3> QED
      BY <1>1, <3>1
  <2> QED
    BY <1>2, <1>7, <1>8, <1>10, <2>1
<1> QED
  BY <1>9, <1>10

-----------------------------------------------------------------------------
(* A table of known entries has its rules in the two chains, in no third   *)
(* one and none in both.                                                   *)
LEMMA ChainsPartition ==
  ASSUME NEW t, t.rules \in Seq(Entries)
  PROVE  /\ Cardinality(Chain(t, "input")) \in Nat
         /\ Cardinality(Chain(t, "output")) \in Nat
         /\ Cardinality(Chain(t, "input")) + Cardinality(Chain(t, "output")) = Len(t.rules)
<1> DEFINE I == Chain(t, "input")
           O == Chain(t, "output")
<1>1. Len(t.rules) \in Nat /\ DOMAIN t.rules = 1..Len(t.rules)
  OBVIOUS
<1>2. \A e \in Entries : e.chain \in {"input", "output"}
  BY DEF Entries, Accept, CtEstablishedAccept, IifAccept, TailDrop, Entry
<1>3. \A i \in DOMAIN t.rules : t.rules[i] \in Entries
  BY <1>1
<1>4. I \cup O = 1..Len(t.rules) /\ I \cap O = {}
  BY <1>1, <1>2, <1>3 DEF Chain
<1>5. IsFiniteSet(1..Len(t.rules)) /\ Cardinality(1..Len(t.rules)) = Len(t.rules)
  BY <1>1, FS_Interval
<1>6. IsFiniteSet(I) /\ IsFiniteSet(O)
  BY <1>4, <1>5, FS_Subset
<1>7. Cardinality(I) \in Nat /\ Cardinality(O) \in Nat
  BY <1>6, FS_CardinalityType
<1>8. IsFiniteSet({}) /\ Cardinality({}) = 0
  BY FS_EmptySet
<1>9. Cardinality(I \cup O) = Cardinality(I) + Cardinality(O) - Cardinality(I \cap O)
  BY <1>6, FS_Union
<1> HIDE DEF I, O
<1>10. Cardinality(I \cup O) = Len(t.rules) /\ Cardinality(I \cap O) = 0
  BY <1>4, <1>5, <1>8, Zenon
<1>11. Cardinality(I) + Cardinality(O) = Len(t.rules)
  BY <1>1, <1>7, <1>9, <1>10
<1> QED
  BY <1>7, <1>11 DEF I, O

(* Initially there is no table, and nobody has listed or read one.         *)
LEMMA InitInvariant == Init => IInv
<1> SUFFICES ASSUME Init PROVE IInv
  OBVIOUS
<1> USE ConstantsAreSound
<1>1. TypeOK
  BY DEF Init, TypeOK, NoTable, Report
<1>2. Whole
  BY DEF Init, Whole, NoTable
<1>3. ListedFresh
  BY DEF Init, ListedFresh
<1>4. ReadSoFar /\ StatusAccurate
  BY DEF Init, ReadSoFar, StatusAccurate
<1> QED
  BY <1>1, <1>2, <1>3, <1>4 DEF IInv

(* A packet that is dropped leaves the rules alone and is counted.         *)
LEMMA PacketDroppedKeeps ==
  ASSUME IInv, PacketDropped
  PROVE  IInv'
<1> USE DEF IInv, PacketDropped, applyVars, readVars
<1>0. MaxDrops \in Nat
  BY ConstantsAreSound
<1>1. /\ table \in [exists : BOOLEAN, rules : Seq(Entries), drops : 0..MaxDrops]
      /\ table' = [table EXCEPT !.drops = table.drops + 1]
      /\ table.exists /\ table.drops < MaxDrops
  BY DEF Whole
<1>2. /\ table' \in [exists : BOOLEAN, rules : Seq(Entries), drops : 0..MaxDrops]
      /\ table'.exists /\ table'.rules = table.rules /\ table'.drops = table.drops + 1
      /\ table.drops \in Nat
  BY <1>0, <1>1
<1>3. Chain(table', "input") = Chain(table, "input")
  BY <1>2 DEF Chain
<1>4. TypeOK'
  BY <1>0, <1>1, <1>2 DEF TypeOK, NoTable
<1>5. Whole'
  BY <1>1, <1>2 DEF Whole
<1>6. ListedFresh'
  BY <1>1 DEF ListedFresh
<1>7. ReadSoFar'
  BY <1>2, <1>3 DEF ReadSoFar, TypeOK
<1>8. StatusAccurate'
  BY <1>2 DEF StatusAccurate, ReadSoFar, TypeOK
<1> QED
  BY <1>4, <1>5, <1>6, <1>7, <1>8

(* A flush from outside takes the table, the policy and the read with it.  *)
LEMMA ExternalFlushKeeps ==
  ASSUME IInv, ExternalFlush
  PROVE  IInv'
<1> USE DEF IInv, ExternalFlush, SetTable
<1>0. MaxDrops \in Nat /\ NoTable \in [exists : BOOLEAN, rules : Seq(Entries), drops : 0..MaxDrops]
  BY ConstantsAreSound DEF NoTable
<1>1. TypeOK'
  BY <1>0 DEF TypeOK, NoTable
<1>2. Whole'
  BY <1>0 DEF Whole, NoTable
<1>3. ListedFresh'
  BY DEF ListedFresh, NoTable
<1>4. ReadSoFar' /\ StatusAccurate'
  BY DEF ReadSoFar, StatusAccurate
<1> QED
  BY <1>1, <1>2, <1>3, <1>4

(* Taking the mutex and listing the tables: what was listed is true for as *)
(* long as the mutex is held, but for a flush from outside.                *)
LEMMA ListKeeps ==
  ASSUME IInv, NEW a \in Applier, Lock(a) \/ ListTables(a)
  PROVE  IInv'
<1> USE DEF IInv, readVars
<1>1. UNCHANGED <<table, installed, reader, status, before>>
  BY DEF Lock, ListTables
<1>2. TypeOK'
  <2>1. table.exists \in BOOLEAN
    BY DEF TypeOK
  <2>2. CASE Lock(a)
    BY <1>1, <2>2, ConstantsAreSound DEF TypeOK, Lock
  <2>3. CASE ListTables(a)
    BY <1>1, <2>1, <2>3, ConstantsAreSound DEF TypeOK, ListTables
  <2> QED
    BY <2>2, <2>3
<1>3. Whole' /\ ReadSoFar' /\ StatusAccurate'
  BY <1>1 DEF Whole, ReadSoFar, StatusAccurate, Chain
<1>4. ListedFresh'
  BY <1>1 DEF ListedFresh, Lock, ListTables, TypeOK
<1> QED
  BY <1>2, <1>3, <1>4

(* An apply that fails changes nothing that a packet or the reader sees.   *)
LEMMA FailureKeeps ==
  ASSUME IInv, NEW a \in Applier, ListFails(a) \/ BuildFails(a) \/ FlushFails(a)
  PROVE  IInv'
<1> USE DEF IInv, readVars
<1>1. UNCHANGED <<table, installed, reader, status, before>> /\ Return(a) /\ pc[a] # "idle"
  BY DEF ListFails, BuildFails, FlushFails
<1>2. TypeOK'
  BY <1>1, ConstantsAreSound DEF TypeOK, Return
<1>3. Whole' /\ ReadSoFar' /\ StatusAccurate'
  BY <1>1 DEF Whole, ReadSoFar, StatusAccurate, Chain
<1>4. ListedFresh'
  BY <1>1 DEF ListedFresh, Return, TypeOK
<1> QED
  BY <1>2, <1>3, <1>4

(* The batch replaces the table by that of one firewall: it deletes what   *)
(* was there, because what its applier listed is still true.               *)
LEMMA FlushKeeps ==
  ASSUME IInv, NEW a \in Applier, Flush(a)
  PROVE  IInv'
<1> USE DEF IInv
<1>0. /\ want[a] \in Ruleset /\ want[a] \in Seq(Rule) /\ want[a] # NoPolicy /\ MaxDrops \in Nat
      /\ Batch(want[a]) \in Seq(Entries)
  <2>1. pc[a] = "build"
    BY DEF Flush
  <2>2. want[a] \in Ruleset
    BY <2>1 DEF TypeOK
  <2>3. want[a] \in Seq(Rule) /\ want[a] # NoPolicy /\ MaxDrops \in Nat
    BY <2>2, ConstantsAreSound
  <2> QED
    BY <2>2, <2>3, BatchShape
<1>1. listed[a] \/ ~table.exists
  BY DEF Flush, ListedFresh
<1>2. table' = [EmptyTable EXCEPT !.rules = EmptyTable.rules \o Batch(want[a])]
  BY <1>1 DEF Flush, SetTable
<1>3. EmptyTable = [exists |-> TRUE, rules |-> <<>>, drops |-> 0]
  BY DEF EmptyTable
<1>4. <<>> \o Batch(want[a]) = Batch(want[a])
  BY <1>0, ConcatEmptySeq
<1>5. table' = [exists |-> TRUE, rules |-> Batch(want[a]), drops |-> 0]
  BY <1>2, <1>3, <1>4
<1>6. before' = NoTable /\ installed' = want[a] /\ Return(a) /\ UNCHANGED <<reader, status>>
  BY DEF Flush, SetTable
<1>7. pc[a] = "build"
  BY DEF Flush
<1>8. TypeOK'
  BY <1>0, <1>5, <1>6, <1>7, ConstantsAreSound DEF TypeOK, Return, NoTable
<1>9. Whole'
  BY <1>0, <1>5, <1>6 DEF Whole
<1>10. ListedFresh'
  BY <1>6, <1>7 DEF ListedFresh, Return, TypeOK
<1>11. ReadSoFar' /\ StatusAccurate'
  BY <1>6 DEF ReadSoFar, StatusAccurate
<1> QED
  BY <1>8, <1>9, <1>10, <1>11

(* What one more dump adds to a status.                                    *)
LEMMA StatusGrows ==
  ASSUME NEW s \in [healthy : BOOLEAN, installed : BOOLEAN, rules : Nat, drops : Nat], NEW x \in Nat, NEW y \in Nat,
         NEW r, r = [s EXCEPT !.rules = s.rules + x, !.drops = s.drops + y]
  PROVE  /\ r \in [healthy : BOOLEAN, installed : BOOLEAN, rules : Nat, drops : Nat]
         /\ r.rules = s.rules + x /\ r.drops = s.drops + y
<1>1. r.healthy = s.healthy /\ r.installed = s.installed /\ r.rules = s.rules + x /\ r.drops = s.drops + y
  OBVIOUS
<1>2. s.rules + x \in Nat /\ s.drops + y \in Nat
  OBVIOUS
<1> QED
  BY <1>1, <1>2

(* A step of the reader changes only what it has collected.                *)
LEMMA ReaderKeeps ==
  ASSUME IInv, ReaderStep
  PROVE  IInv'
<1> USE DEF IInv, applyVars
<1>0. UNCHANGED <<table, mutex, pc, want, listed, installed>>
  BY DEF ReaderStep, ReadTables, ReadChains, ReadInput, ReadOutput, ReadFails, Publish
<1>1. Whole' /\ ListedFresh'
  BY <1>0 DEF Whole, ListedFresh
<1>2. /\ table \in [exists : BOOLEAN, rules : Seq(Entries), drops : 0..MaxDrops]
      /\ MaxDrops \in Nat
      /\ ~table.exists => table = NoTable
      /\ status \in [healthy : BOOLEAN, installed : BOOLEAN, rules : Nat, drops : Nat]
  BY ConstantsAreSound DEF Whole, TypeOK
<1>3. table.drops \in Nat /\ table.exists \in BOOLEAN
  BY <1>2
<1>4. /\ Cardinality(Chain(table, "input")) \in Nat
      /\ Cardinality(Chain(table, "output")) \in Nat
      /\ Cardinality(Chain(table, "input")) + Cardinality(Chain(table, "output")) = Len(table.rules)
  BY <1>2, ChainsPartition
<1>5. Chain(table, "input")' = Chain(table, "input") /\ Len(table.rules)' = Len(table.rules)
  BY <1>0 DEF Chain
<1>6. SUFFICES /\ reader' \in {"idle", "chains", "input", "output", "reported"}
               /\ status' \in [healthy : BOOLEAN, installed : BOOLEAN, rules : Nat, drops : Nat]
               /\ ReadSoFar' /\ StatusAccurate'
  BY <1>0, <1>1 DEF TypeOK
<1>7. CASE ReadTables
  <2>1. /\ status' = [healthy |-> TRUE, installed |-> table.exists, rules |-> 0, drops |-> 0]
        /\ before' = table /\ table' = table
        /\ reader' = IF table.exists THEN "chains" ELSE "reported"
    BY <1>7 DEF ReadTables, Report
  <2>2. /\ status' \in [healthy : BOOLEAN, installed : BOOLEAN, rules : Nat, drops : Nat]
        /\ status'.installed = table.exists /\ status'.rules = 0 /\ status'.drops = 0
    BY <1>3, <2>1
  <2>3. ReadSoFar'
    <3>1. CASE table.exists
      BY <1>3, <2>1, <2>2, <3>1 DEF ReadSoFar
    <3>2. CASE ~table.exists
      BY <1>2, <2>1, <3>2 DEF ReadSoFar
    <3> QED
      BY <3>1, <3>2
  <2>4. StatusAccurate'
    BY <2>1, <2>2 DEF StatusAccurate
  <2> QED
    BY <2>1, <2>2, <2>3, <2>4
<1>8. CASE ReadChains
  BY <1>2, <1>3, <1>8 DEF ReadChains, ReadSoFar, StatusAccurate
<1>9. CASE ReadInput
  <2>1. /\ status' = [status EXCEPT !.rules = status.rules + Cardinality(Chain(table, "input")),
                                   !.drops = status.drops + table.drops]
        /\ reader = "input" /\ reader' = "output" /\ before' = before /\ table' = table
    BY <1>9 DEF ReadInput
  <2>2. /\ status' \in [healthy : BOOLEAN, installed : BOOLEAN, rules : Nat, drops : Nat]
        /\ status'.rules = status.rules + Cardinality(Chain(table, "input"))
        /\ status'.drops = status.drops + table.drops
    BY <1>2, <1>3, <1>4, <2>1, StatusGrows, Zenon
  <2>3. ReadSoFar'
    BY <1>3, <1>4, <1>5, <2>1, <2>2 DEF ReadSoFar
  <2> QED
    BY <2>1, <2>2, <2>3 DEF StatusAccurate
<1>10. CASE ReadOutput
  <2>1. /\ status' = [status EXCEPT !.rules = status.rules + Cardinality(Chain(table, "output"))]
        /\ reader = "output" /\ reader' = "reported" /\ before' = before /\ table' = table
    BY <1>10 DEF ReadOutput
  <2>2. /\ status' \in [healthy : BOOLEAN, installed : BOOLEAN, rules : Nat, drops : Nat]
        /\ status'.rules = status.rules + Cardinality(Chain(table, "output"))
        /\ status'.drops = status.drops
    <3> DEFINE c == Cardinality(Chain(table, "output"))
    <3>1. c \in Nat /\ status' = [status EXCEPT !.rules = status.rules + c]
      BY <1>4, <2>1
    <3> HIDE DEF c
    <3>2. /\ status'.healthy = status.healthy /\ status'.installed = status.installed
          /\ status'.rules = status.rules + c
          /\ status'.drops = status.drops /\ status.rules + c \in Nat
      BY <1>2, <3>1
    <3>3. status' \in [healthy : BOOLEAN, installed : BOOLEAN, rules : Nat, drops : Nat]
      BY <1>2, <3>1, <3>2
    <3> QED
      BY <3>2, <3>3 DEF c
  <2>3. StatusAccurate'
    BY <1>4, <1>5, <2>1, <2>2 DEF ReadSoFar, StatusAccurate
  <2> QED
    BY <2>1, <2>2, <2>3 DEF ReadSoFar
<1>11. CASE Publish
  BY <1>2, <1>5, <1>11 DEF Publish, ReadSoFar, StatusAccurate
<1>12. CASE ReadFails
  <2>1. /\ status' = [healthy |-> FALSE, installed |-> reader # "idle", rules |-> 0, drops |-> 0]
        /\ reader' = "reported" /\ before' = before /\ table' = table
    BY <1>12 DEF ReadFails, Report
  <2>2. status' \in [healthy : BOOLEAN, installed : BOOLEAN, rules : Nat, drops : Nat]
    BY <2>1
  <2>3. ReadSoFar' /\ StatusAccurate'
    BY <2>1 DEF ReadSoFar, StatusAccurate
  <2> QED
    BY <2>1, <2>2, <2>3
<1> QED
  BY <1>7, <1>8, <1>9, <1>10, <1>11, <1>12 DEF ReaderStep

(* Every step keeps the invariant, and so does one that changes nothing.   *)
LEMMA StepInvariant == IInv /\ [Next]_vars => IInv'
<1> SUFFICES ASSUME IInv, [Next]_vars PROVE IInv'
  OBVIOUS
<1>1. CASE UNCHANGED vars
  BY <1>1 DEF vars, applyVars, readVars, IInv, TypeOK, Whole, ListedFresh, ReadSoFar,
              StatusAccurate, Chain
<1>2. CASE Next
  BY <1>2, PacketDroppedKeeps, ExternalFlushKeeps, ListKeeps, FailureKeeps, FlushKeeps,
     ReaderKeeps DEF Next
<1> QED
  BY <1>1, <1>2

(* The invariant holds in every reachable state.                           *)
THEOREM FirewallInvariant == Spec => []IInv
  BY InitInvariant, StepInvariant, PTL DEF Spec

(* The state stays well typed: in particular one applier at a time is      *)
(* between the listing of the tables and the batch.                        *)
THEOREM FirewallTypeCorrect == Spec => []TypeOK
<1>1. IInv => TypeOK
  BY DEF IInv
<1> QED
  BY <1>1, FirewallInvariant, PTL

(* At every moment a packet meets the policy of the last successful Apply, *)
(* whole: whatever applies fail, and at whatever step.                     *)
THEOREM FirewallPolicyAsApplied == Spec => []PolicyAsApplied
<1>1. IInv => PolicyAsApplied
  <2> SUFFICES ASSUME IInv, NEW packet \in Packet
               PROVE  Verdict(table, packet) = "accept" <=>
                         installed = NoPolicy \/ Permitted(installed, packet)
    BY DEF PolicyAsApplied
  <2>1. CASE ~table.exists
    BY <2>1 DEF IInv, Whole, Verdict
  <2>2. CASE table.exists
    <3>1. /\ table.exists = TRUE /\ table.rules = Batch(installed)
          /\ installed # NoPolicy /\ installed \in Seq(Rule)
      BY <2>2, ConstantsAreSound DEF IInv, Whole, TypeOK
    <3>2. Verdict(table, packet) = IF Permitted(installed, packet) THEN "accept" ELSE "drop"
      BY <3>1, WholeVerdict
    <3> QED
      BY <3>1, <3>2
  <2> QED
    BY <2>1, <2>2
<1> QED
  BY <1>1, FirewallInvariant, PTL

(* Of a rule that Validate accepts, ApplyFirewall and its documentation    *)
(* have one reading.                                                       *)
LEMMA ValidRuleHasOneReading ==
  ASSUME NEW r \in Rule, ValidRule(r), NEW packet \in Packet
  PROVE  Permits(r, packet) <=> Documented(r, packet)
<1>0. r.portMin \in Port /\ r.portMax \in Port /\ packet.dport \in Port
  BY DEF Rule, Packet
<1>1. r.portMin \in Nat /\ r.portMax \in Nat /\ packet.dport \in Nat
  BY <1>0, ConstantsAreSound
<1>2. CASE r.protocol \in {"tcp", "udp"}
  BY <1>1, <1>2 DEF Permits, Documented, ValidRule
<1>3. CASE r.protocol \notin {"tcp", "udp"}
  <2>1. r.portMin = 0 /\ r.portMax = 0
    BY <1>1, <1>3 DEF ValidRule
  <2> QED
    BY <1>3, <2>1 DEF Permits, Documented
<1> QED
  BY <1>2, <1>3

(* Of a firewall that Validate accepts, packets meet what the comments of  *)
(* pod.FirewallRule say.                                                   *)
THEOREM FirewallValidatedAsDocumented == Spec => []ValidatedAsDocumented
<1>1. TypeOK /\ PolicyAsApplied => ValidatedAsDocumented
  <2> SUFFICES ASSUME TypeOK, PolicyAsApplied, installed # NoPolicy, Valid(installed),
                      NEW packet \in Packet
               PROVE  Verdict(table, packet) = "accept" <=>
                         \/ packet.established \/ packet.lo
                         \/ \E i \in DOMAIN installed : Documented(installed[i], packet)
    BY DEF ValidatedAsDocumented
  <2>1. installed \in Seq(Rule)
    BY ConstantsAreSound DEF TypeOK
  <2>2. \A i \in DOMAIN installed : installed[i] \in Rule /\ ValidRule(installed[i])
    BY <2>1 DEF Valid
  <2>3. \A i \in DOMAIN installed :
           Permits(installed[i], packet) <=> Documented(installed[i], packet)
    BY <2>2, ValidRuleHasOneReading
  <2>4. Verdict(table, packet) = "accept" <=> Permitted(installed, packet)
    BY DEF PolicyAsApplied
  <2> QED
    BY <2>3, <2>4 DEF Permitted
<1> QED
  BY <1>1, FirewallTypeCorrect, FirewallPolicyAsApplied, PTL

(* No packet is ever dropped by the policy of the chain, which counts      *)
(* nothing: the tail rule is always there to count it.                     *)
THEOREM FirewallCountsDrops == Spec => []EveryDropCounted
<1>1. IInv => EveryDropCounted
  <2> SUFFICES ASSUME IInv, NEW packet \in Packet PROVE Verdict(table, packet) # "policy"
    BY DEF EveryDropCounted
  <2>1. CASE ~table.exists
    BY <2>1 DEF Verdict
  <2>2. CASE table.exists
    <3>1. /\ table.exists = TRUE /\ table.rules = Batch(installed) /\ installed \in Seq(Rule)
      BY <2>2, ConstantsAreSound DEF IInv, Whole, TypeOK
    <3>2. Verdict(table, packet) = IF Permitted(installed, packet) THEN "accept" ELSE "drop"
      BY <3>1, WholeVerdict
    <3> QED
      BY <3>2
  <2> QED
    BY <2>1, <2>2
<1> QED
  BY <1>1, FirewallInvariant, PTL

(* A status read while nobody changed the table has its number of rules    *)
(* and a number of drops that was true during the read, though it is put   *)
(* together from dumps between which packets are dropped.                  *)
THEOREM FirewallStatusAccurate == Spec => []StatusAccurate
<1>1. IInv => StatusAccurate
  BY DEF IInv
<1> QED
  BY <1>1, FirewallInvariant, PTL
=============================================================================
