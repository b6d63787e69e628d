---------------------------- MODULE NetworkPlan ----------------------------
(***************************************************************************)
(* What an install works out before it deploys: which ranges collide and   *)
(* where the tunnel's addresses go (internal/tunnel/collisions.go,         *)
(* setup.AlignAddressesToVpnCidr, Validate), which subnets, route tables   *)
(* and hosted zone it uses (internal/awsops/discover.go), and which ports  *)
(* get a listener and a target group (setup.StackParameters).              *)
(*                                                                         *)
(* An address is a number of AddressBits bits, its last byte one of        *)
(* ByteBits; a range is its first address and the bits of its prefix.      *)
(* A hostname is the sequence of its labels, from the root.  Every         *)
(* property compares an algorithm with what it is for, over all the small  *)
(* inputs.                                                                 *)
(***************************************************************************)
EXTENDS Integers, Sequences, FiniteSetsExt, SequencesExt

CONSTANTS
  AddressBits, ByteBits,
  Subnets,     \* 1 .. n, in the order of their ids
  Zones,       \* of availability
  Tables,      \* of routes; the first is the VPC's main one
  Labels,
  PortNumbers,
  TLS,         \* the published port of the service itself
  WireGuard,   \* 51820
  Slots        \* MaxTcpPorts

ASSUME NetworkPlanAssumption ==
  /\ {AddressBits, ByteBits, Slots} \subseteq Nat
  /\ ByteBits >= 2 /\ ByteBits <= AddressBits
  /\ Subnets \subseteq Nat \ {0} /\ IsFiniteSet(Subnets)
  /\ Tables \subseteq Nat /\ 1 \in Tables
  /\ PortNumbers \subseteq Nat \ {0} /\ {TLS, WireGuard} \subseteq PortNumbers

-----------------------------------------------------------------------------
\* Ranges and addresses.

Addresses == 0 .. 2 ^ AddressBits - 1
Size(prefix) == 2 ^ (AddressBits - prefix)
Cidr(address, prefix) == [base |-> address - (address % Size(prefix)), prefix |-> prefix]
Cidrs == {Cidr(a, p) : a \in Addresses, p \in 0 .. AddressBits}

Holds(range, a) == a \div Size(range.prefix) = range.base \div Size(range.prefix)

Overlaps(left, right) == Holds(left, right.base) \/ Holds(right, left.base)

\* An address the Mac has, on a device that is up or not, loopback or not, and
\* a tunnel of its own or not.
Attachments == [address : Addresses, prefix : 0 .. AddressBits, up : BOOLEAN, loopback : BOOLEAN, ours : BOOLEAN]

LocalNetworks(attached) ==
  {Cidr(a.address, a.prefix) : a \in {a \in attached : a.up /\ ~a.loopback /\ ~a.ours}}

Collisions(claimed, local) == {c \in claimed : \E network \in local : Overlaps(c, network)}

\* The offset goes into the last byte, without a carry.
Nth(subnet, offset) ==
  LET byte == 2 ^ ByteBits IN subnet.base - (subnet.base % byte) + ((subnet.base + offset) % byte)

\* Mutant of Align: the addresses always go to the front.
AlignAlways(s) == [s EXCEPT !.gateway = Nth(s.subnet, 1), !.client = Nth(s.subnet, 2)]

\* AlignAddressesToVpnCidr: an address inside the subnet stays.
Align(s) ==
  [s EXCEPT !.gateway = IF Holds(s.subnet, @) THEN @ ELSE Nth(s.subnet, 1),
            !.client = IF Holds(s.subnet, @) THEN @ ELSE Nth(s.subnet, 2)]

\* Validate, of the addresses.
AddressesValid(s) ==
  /\ Holds(s.subnet, s.client)
  /\ Holds(s.subnet, s.gateway)
  /\ s.client # s.gateway

\* Two ranges overlap just if they share an address
\* (internal/tunnel/collisions.go:118, "Containment in either direction").
OverlapIsSharing ==
  \A left, right \in Cidrs :
    Overlaps(left, right) <=> \E a \in Addresses : Holds(left, a) /\ Holds(right, a)

\* A claim is refused just if the Mac is on a network, not a tunnel of ours, of
\* which the claim would take an address away: one that has the prefix of the
\* Mac's own there (collisions.go:92, "Overlap, not equality").
CollisionsAreReal ==
  \A claim \in Cidrs, on \in Attachments :
    Collisions({claim}, LocalNetworks({on})) # {} <=>
      /\ on.up /\ ~on.loopback /\ ~on.ours
      /\ \E a \in Addresses : Holds(claim, a) /\ a \div Size(on.prefix) = on.address \div Size(on.prefix)

Roomy == {c \in Cidrs : Size(c.prefix) >= 4}
Deployments == {s \in [subnet : Roomy, client : Addresses, gateway : Addresses] : AddressesValid(s)}

\* A deployment that is valid stays so in whatever subnet of four addresses or
\* more is chosen next, unless the one address that stays is where the other
\* has to go; and an address that is in the subnet is not moved,
\* so the second Mac keeps the one that is its own (settings.go:274).
AlignFollows ==
  \A s \in Deployments, next \in Roomy :
    LET moved == Align([s EXCEPT !.subnet = next]) IN
    /\ AddressesValid(moved) \/ s.client = Nth(next, 1) \/ s.gateway = Nth(next, 2)
    /\ Holds(next, s.client) => moved.client = s.client

-----------------------------------------------------------------------------
\* DiscoverNetwork.

\* A VPC: each subnet's zone, its explicit table or none (0), and the tables
\* with a default route to an internet gateway.
Vpcs == [zone : [Subnets -> Zones], table : [Subnets -> Tables \cup {0}], igw : SUBSET Tables]

Governing(vpc, subnet) == IF vpc.table[subnet] = 0 THEN 1 ELSE vpc.table[subnet]

Nowhere == [zones |-> [z \in Zones |-> 0], tables |-> [z \in Zones |-> 0]]

\* Mutant of Pick: the table of the first subnet of the zone is kept.
PickSubnetOnly(vpc, subnet, network) ==
  LET zone == vpc.zone[subnet]
      taken == network.zones[zone]
  IN  IF Governing(vpc, subnet) \notin vpc.igw \/ (taken # 0 /\ taken < subnet) THEN network
      ELSE [zones |-> [network.zones EXCEPT ![zone] = subnet],
            tables |-> [network.tables EXCEPT ![zone] = IF @ = 0 THEN Governing(vpc, subnet) ELSE @]]

\* One subnet listed: it is its zone's if it is public and none with a lower
\* id has come before.
Pick(vpc, subnet, network) ==
  LET zone == vpc.zone[subnet]
      taken == network.zones[zone]
  IN  IF Governing(vpc, subnet) \notin vpc.igw \/ (taken # 0 /\ taken < subnet) THEN network
      ELSE [zones |-> [network.zones EXCEPT ![zone] = subnet],
            tables |-> [network.tables EXCEPT ![zone] = Governing(vpc, subnet)]]

\* In the order the API lists them.
DiscoverNetwork(vpc, listed) ==
  FoldLeft(LAMBDA network, subnet : Pick(vpc, subnet, network), Nowhere, listed)

\* Whatever order the subnets are listed in, every zone that has a public one
\* gets the public one with the lowest id, with the table that governs it, so
\* the next deploy is a no-op (discover.go:90) and the tunnel's route is in a
\* table the load balancer's subnet uses.
DiscoveryIsStable ==
  \A vpc \in Vpcs, listed \in SetToSeqs(Subnets) :
    LET network == DiscoverNetwork(vpc, listed) IN
    \A zone \in Zones :
      LET public == {s \in Subnets : vpc.zone[s] = zone /\ Governing(vpc, s) \in vpc.igw} IN
      IF public = {} THEN network.zones[zone] = 0
      ELSE /\ network.zones[zone] = Min(public)
           /\ network.tables[zone] = Governing(vpc, Min(public))

-----------------------------------------------------------------------------
\* FindHostedZone.

Names == UNION {[1 .. n -> Labels] : n \in 1 .. 3}
ZoneLists == UNION {[1 .. n -> [name : Names, private : BOOLEAN]] : n \in 0 .. 2}

Better(wanted, zone, best) ==
  ~zone.private /\ IsPrefix(zone.name, wanted) /\ Len(zone.name) > Len(best)

FindHostedZone(wanted, listed) ==
  FoldLeft(LAMBDA best, zone : IF Better(wanted, zone, best) THEN zone.name ELSE best, <<>>, listed)

\* The zone a record goes into is the public one closest to its hostname: no
\* zone in between would answer for it instead (discover.go:194, "a record
\* that never resolves").
RecordResolves ==
  \A wanted \in Names, listed \in ZoneLists :
    LET best == FindHostedZone(wanted, listed)
        answers == {i \in DOMAIN listed : ~listed[i].private /\ IsPrefix(listed[i].name, wanted)}
    IN  IF answers = {} THEN best = <<>>
        ELSE /\ \E i \in answers : listed[i].name = best
             /\ \A i \in answers : Len(listed[i].name) <= Len(best)

-----------------------------------------------------------------------------
\* Ports.

Mapping == [local : PortNumbers, published : PortNumbers]
PortLists == UNION {[1 .. n -> Mapping] : n \in 0 .. Slots + 1}

\* portProblems.
PortsValid(ports) ==
  /\ Len(ports) <= Slots
  /\ \A i \in DOMAIN ports :
       /\ ports[i].published \notin {TLS, WireGuard}
       /\ \A j \in DOMAIN ports : ports[i].published = ports[j].published => i = j

\* The template's defaults: no slot is in use.
Unused == [slot \in 1 .. Slots |-> [port |-> 0, target |-> 1]]

\* StackParameters: every slot is sent, an unused one as 0.
StackParameters(ports) ==
  [slot \in 1 .. Slots |->
     IF slot \in DOMAIN ports THEN [port |-> ports[slot].published, target |-> ports[slot].local]
     ELSE Unused[slot]]

\* The stack's slots after a deploy over `before`: one that is not sent keeps
\* what it was.
SlotsUsed(before, ports) ==
  LET sent == StackParameters(ports) IN
  [slot \in 1 .. Slots |-> IF slot \in DOMAIN sent THEN sent[slot] ELSE before[slot]]

\* The template: a slot in use has a listener, a target group and an output
\* local:published=arn; here the arn is the slot's number.
Outputs(slots) ==
  {[key |-> [local |-> slots[i].target, published |-> slots[i].port], arn |-> i] :
     i \in {i \in 1 .. Slots : slots[i].port # 0}}

\* TcpTargetGroups, as RegisterWorkstation looks a mapping up.
GroupOf(outputs, mapping) == {o.arn : o \in {o \in outputs : o.key = mapping}}

\* After any two deploys, exactly the ports that were asked for the second time
\* are open, and this Mac registers its local port with the one target group
\* its published port's listener forwards to, also where two published ports
\* reach one local port (install.go:204 and :247).
PortsReachTheirGroups ==
  \A first, ports \in {p \in PortLists : PortsValid(p)} :
    LET slots == SlotsUsed(SlotsUsed(Unused, first), ports)
        outputs == Outputs(slots)
    IN  /\ {o.key.published : o \in outputs} = {ports[i].published : i \in DOMAIN ports}
        /\ \A i \in DOMAIN ports :
             \E arn \in 1 .. Slots :
               /\ GroupOf(outputs, ports[i]) = {arn}
               /\ slots[arn] = [port |-> ports[i].published, target |-> ports[i].local]
=============================================================================
