------------------------------- MODULE PortMap -------------------------------
(***************************************************************************)
(* HdmiPortMap of HdmiCecSinkImplementation.h: which device is plugged     *)
(* into an HDMI input and which devices are chained behind it.  A port     *)
(* keeps the logical address of its own device and, per level below it, a  *)
(* table that is indexed by one digit of the physical address only.        *)
(***************************************************************************)
EXTENDS Integers, Sequences

CONSTANTS
  Devices,  \* logical addresses of the other devices
  Ports,    \* HDMI inputs, by m_portID
  Addr      \* the physical address of each device, four digits

Unregistered == 15  \* LogicalAddress::UNREGISTERED

\* A physical address has no digit after its first zero.
PhysicalAddresses ==
  {pa \in [1..4 -> 0..15] : \A i, j \in 1..4 : i < j /\ pa[i] = 0 => pa[j] = 0}

\* The 15th input would share its first digit with F.F.F.F, which is no address.
ASSUME PortAssumption ==
  /\ Devices \subseteq 1..14 /\ Ports \subseteq 0..13
  /\ Addr \in [Devices -> PhysicalAddresses]

\* How many levels below the port's own device an address is.
Depth(pa) == IF pa[4] # 0 THEN 3 ELSE IF pa[3] # 0 THEN 2 ELSE IF pa[2] # 0 THEN 1 ELSE 0

\* The address above pa at a level; the whole of pa at its own.
Prefix(pa, level) == [i \in 1..4 |-> IF i <= level + 1 THEN pa[i] ELSE 0]

\* getByteValue(0) == m_portID + 1
Behind(p, pa) == pa[1] = p + 1

\* The places m_childsLogicalAddr that an address on this bus can name.
Slots == {s \in (1..3) \X (1..15) : \E d \in Devices : Addr[d][s[1] + 1] = s[2]}

SlotOf(pa) == <<Depth(pa), pa[Depth(pa) + 1]>>

LogicalAddresses == Devices \cup {Unregistered}

NewPort == [la |-> Unregistered, child |-> [s \in Slots |-> Unregistered]]

PortType == [la : LogicalAddresses, child : [Slots -> LogicalAddresses]]

\* Mutation: a chained device is noted whether the port's own device is known or not.
AddChildAnyway(p, port, d, pa) ==
  IF Depth(pa) > 0
    THEN IF Behind(p, pa) THEN [port EXCEPT !.child[SlotOf(pa)] = d] ELSE port
    ELSE IF port.la \in {Unregistered, d} /\ pa = <<p + 1, 0, 0, 0>> THEN [port EXCEPT !.la = d] ELSE port

\* addChild: a chained device is only noted once the port's own device is known.
AddChild(p, port, d, pa) ==
  IF port.la \notin {Unregistered, d}
    THEN IF Behind(p, pa) /\ Depth(pa) > 0 THEN [port EXCEPT !.child[SlotOf(pa)] = d] ELSE port
    ELSE IF pa = <<p + 1, 0, 0, 0>> THEN [port EXCEPT !.la = d] ELSE port

\* removeChild
RemoveChild(p, port, pa) ==
  IF port.la # Unregistered /\ Behind(p, pa) /\ Depth(pa) > 0
    THEN [port EXCEPT !.child[SlotOf(pa)] = Unregistered] ELSE port

\* The port's own device is forgotten.
Unplug(port) == [port EXCEPT !.la = Unregistered]

\* Mutation: from the port's own device down.
RouteDown(port, pa) ==
  IF port.la = Unregistered THEN << >>
  ELSE [n \in 1..Depth(pa) + 1 |->
          IF n = 1 THEN port.la ELSE port.child[<<n - 1, pa[n]>>]]

\* getRoute: from the device's own level up to the port's own device.
Route(port, pa) ==
  IF port.la = Unregistered THEN << >>
  ELSE [n \in 1..Depth(pa) + 1 |->
          LET level == Depth(pa) + 1 - n
          IN  IF level = 0 THEN port.la ELSE port.child[<<level, pa[level + 1]>>]]
-----------------------------------------------------------------------------
(* The reference: the tree of the physical addresses. *)

\* The addresses a signal from d passes on its way to the port.
Path(d) == [n \in 1..Depth(Addr[d]) + 1 |-> Prefix(Addr[d], Depth(Addr[d]) + 1 - n)]

\* The positions of the tree: the addresses of the devices and all those above them.
Nodes == UNION {{Prefix(Addr[d], level) : level \in 0..Depth(Addr[d])} : d \in Devices}

Roots == [n \in Nodes |-> Prefix(n, 0)]

\* Who the inputs' tables have at a position, if an input leads there.
Occupant(inputs, pa) ==
  LET p == pa[1] - 1
  IN  IF p \notin Ports THEN Unregistered
      ELSE IF Depth(pa) = 0 THEN inputs[p].la ELSE inputs[p].child[SlotOf(pa)]

\* No two addresses of the bus meet in a place of the table.
DistinctSlots ==
  \A d, e \in Devices :
    LET level == Depth(Addr[e])
    IN  level \in 1..Depth(Addr[d]) /\ Addr[d][1] = Addr[e][1]
          /\ Addr[d][level + 1] = Addr[e][level + 1]
        => Addr[e] = Prefix(Addr[d], level)
=============================================================================
