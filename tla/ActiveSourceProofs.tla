------------------------- MODULE ActiveSourceProofs -------------------------
(***************************************************************************)
(* Theorems about ActiveSource, for any bus, any inputs, any number of     *)
(* removing threads and any stimuli.                                       *)
(***************************************************************************)
EXTENDS ActiveSource, TLAPS

\* What an input holds stays a device or nothing, whatever place an address names.
LEMMA PortTyped ==
  ASSUME NEW p, NEW port \in PortType, NEW d \in Devices, NEW pa
  PROVE  /\ AddChild(p, port, d, pa) \in PortType
         /\ RemoveChild(p, port, pa) \in PortType
         /\ Unplug(RemoveChild(p, port, pa)) \in PortType
  BY DEF AddChild, RemoveChild, Unplug, PortType, LogicalAddresses

\* Neither the TV, before or after its address is allocated, nor no source is a device.
LEMMA NotDevices == Own \notin Devices /\ NoSource \notin Devices
  BY PortAssumption DEF Own, TV, Unregistered, NoSource

\* The receiver's steps in updateActiveSource and updateInActiveSource keep the types.
LEMMA FramesTyped ==
  ASSUME TypeOK,
         \/ \E d \in Sources : ReceiveActiveSource(d) \/ ReceiveInActiveSource(d)
         \/ \E d \in Devices : ReceiveReport(d)
         \/ ReceiveRequest \/ AddSender
         \/ SourceTest \/ SourceLower \/ SourceRaise \/ SourceTake \/ SourceWake
         \/ Withdraw \/ WithdrawQuit \/ Respond \/ Locate
  PROVE  TypeOK'
  <1>1. ASSUME NEW d \in Sources, ReceiveActiveSource(d) \/ ReceiveInActiveSource(d)
        PROVE  TypeOK'
    BY <1>1, SourceAssumption DEF TypeOK, ReceiveActiveSource, ReceiveInActiveSource, Receive,
       listVars, powerVars, removeVars, auxVars
  <1>2. ASSUME NEW d \in Devices, ReceiveReport(d)
        PROVE  TypeOK'
    BY <1>2 DEF TypeOK, ReceiveReport, Receive, listVars, powerVars, removeVars, auxVars
  <1>3. CASE ReceiveRequest \/ AddSender
    BY <1>3 DEF TypeOK, ReceiveRequest, Receive, AddSender, Nobody, allocated, Own,
       listVars, powerVars, removeVars, auxVars
  <1>4. CASE SourceTest \/ SourceLower \/ SourceRaise \/ SourceTake \/ SourceWake
    BY <1>4 DEF TypeOK, Outcomes, allocated, SourceTest, SourceLower, SourceRaise, SourceTake, SourceWake, Nobody,
       listVars, powerVars, removeVars, auxVars
  <1>5. CASE Withdraw \/ WithdrawQuit \/ Respond \/ Locate
    BY <1>5 DEF TypeOK, Withdraw, WithdrawQuit, Heed, Respond, Locate, allocated, Own, Nobody,
       listVars, powerVars, removeVars, auxVars
  <1>6. QED
    BY <1>1, <1>2, <1>3, <1>4, <1>5

\* The workers, the power events and the sessions keep the types.
LEMMA CallsTyped ==
  ASSUME TypeOK,
         \/ Api
         \/ \E d \in Devices : PollAdd(d)
         \/ PowerModeChanged \/ PowerStatus \/ PowerStandby
         \/ CECEnable \/ PollReadsPower \/ PollAllocated \/ CECDisable
  PROVE  TypeOK'
  <1>1. CASE Api
    BY <1>1 DEF TypeOK, Api, ApiClaim, ApiRoute, ApiTake, allocated, Own,
       listVars, powerVars, cecVars, removeVars, auxVars
  <1>2. CASE \E d \in Devices : PollAdd(d)
    BY <1>2 DEF TypeOK, PollAdd, powerVars, cecVars, removeVars, auxVars
  <1>3. CASE PowerModeChanged \/ PowerStatus \/ PowerStandby
    BY <1>3 DEF TypeOK, PowerModeChanged, PowerStatus, PowerStandby,
       allocated, listVars, cecVars, removeVars, auxVars
  <1>4. CASE CECEnable \/ PollReadsPower \/ PollAllocated
    BY <1>4 DEF TypeOK, CECEnable, PollReadsPower, PollAllocated, PowerModes,
       listVars, powerVars, cecVars, removeVars, auxVars
  <1>5. CASE CECDisable
    BY <1>5 DEF TypeOK, Outcomes, CECDisable, PowerModes, cecVars, removeVars
  <1>6. QED
    BY <1>1, <1>2, <1>3, <1>4, <1>5

\* Linking and removing keep the types of the port map.
LEMMA PortsTyped ==
  ASSUME TypeOK, Link \/ \E r \in Removers : Remover(r)
  PROVE  TypeOK'
  <1>1. CASE Link
    <2>1. sender \in Devices
      BY <1>1 DEF TypeOK, Link
    <2>2. ports' \in [Ports -> PortType]
      BY <1>1, <2>1, PortTyped DEF TypeOK, Link
    <2>3. QED
      BY <1>1, <2>2 DEF TypeOK, Link, Nobody, listVars, powerVars, removeVars, auxVars
  <1>2. ASSUME NEW r \in Removers, NEW d \in Devices, RemoveTest(r, d)
        PROVE  TypeOK'
    BY <1>2 DEF TypeOK, RemoveTest, listVars, powerVars, cecVars, removeVars, auxVars
  <1>3. ASSUME NEW r \in Removers, RemoveFromPorts(r)
        PROVE  TypeOK'
    <2>1. removing[r] \in Devices
      BY <1>3 DEF TypeOK, RemoveFromPorts
    <2>2. ports' \in [Ports -> PortType]
      BY <1>3, <2>1, PortTyped DEF TypeOK, RemoveFromPorts
    <2>3. QED
      BY <1>3, <2>1, <2>2 DEF TypeOK, RemoveFromPorts, listVars, powerVars, cecVars, removeVars, auxVars
  <1>4. ASSUME NEW r \in Removers, RemoveClear(r)
        PROVE  TypeOK'
    BY <1>4 DEF TypeOK, RemoveClear, Nobody, powerVars, cecVars, auxVars
  <1>5. QED
    BY <1>1, <1>2, <1>3, <1>4 DEF Remover

\* Every field keeps its type: no index of the device list leaves it but the unlocked
\* second reading of m_currentActiveSource.
THEOREM SourceTypeCorrect == Spec => []TypeOK
  <1>1. Init => TypeOK
    <2>1. NewPort \in PortType
      BY DEF NewPort, PortType, LogicalAddresses
    <2>2. QED
      BY <2>1 DEF Init, TypeOK, Outcomes, PowerModes
  <1>2. TypeOK /\ [Next]_vars => TypeOK'
    <2> SUFFICES ASSUME TypeOK, [Next]_vars PROVE TypeOK'
      OBVIOUS
    <2>1. CASE Next
      BY <2>1, FramesTyped, CallsTyped, PortsTyped DEF Next, Receiver
    <2>2. CASE UNCHANGED vars
      BY <2>2 DEF TypeOK, vars, listVars, powerVars, cecVars, removeVars, auxVars
    <2>3. QED
      BY <2>1, <2>2
  <1>3. QED
    BY <1>1, <1>2, PTL DEF Spec
-----------------------------------------------------------------------------
(* Who has claimed the source *)

\* Between the flag and the source a claim is already recorded.
Announced ==
  /\ active \subseteq announced
  /\ cecPc = "take" => sender \in announced
  /\ OnlyAnnouncedSources

LEMMA AnnouncedStep == TypeOK /\ Announced /\ [Next]_vars => Announced'
  <1> SUFFICES ASSUME TypeOK, Announced, [Next]_vars PROVE Announced'
    OBVIOUS
  <1> USE DEF TypeOK, Announced, OnlyAnnouncedSources, listVars, powerVars, cecVars, removeVars, auxVars
  <1>1. CASE Receiver
    <2>1. ASSUME NEW d \in Devices,
                 ReceiveActiveSource(d) \/ ReceiveInActiveSource(d) \/ ReceiveReport(d)
          PROVE  Announced'
      BY <2>1 DEF ReceiveActiveSource, ReceiveInActiveSource, ReceiveReport, Receive
    <2>2. CASE ReceiveRequest \/ AddSender \/ SourceTest
      BY <2>2 DEF ReceiveRequest, Receive, AddSender, SourceTest
    <2>3. CASE SourceLower \/ SourceRaise \/ SourceTake \/ SourceWake
      BY <2>3 DEF SourceLower, SourceRaise, SourceTake, SourceWake
    \* A source that takes back its claim stays current until the next step only.
    <2>4. CASE Withdraw \/ WithdrawQuit
      BY <2>4, NotDevices DEF Withdraw, WithdrawQuit, Heed, allocated
    <2>5. CASE Respond \/ Locate \/ Link
      BY <2>5, NotDevices DEF Respond, Locate, Link, allocated
    <2>6. QED
      BY <1>1, <2>1, <2>2, <2>3, <2>4, <2>5, SourceAssumption DEF Receiver
  \* Neither the TV nor no source is one of the other devices.
  <1>2. CASE Api \/ PowerModeChanged \/ PowerStatus \/ PowerStandby
    BY <1>2, NotDevices DEF Api, ApiClaim, ApiRoute, ApiTake,
       PowerModeChanged, PowerStatus, PowerStandby
  <1>3. CASE \E d \in Devices : PollAdd(d)
    BY <1>3 DEF PollAdd
  <1>4. ASSUME NEW r \in Removers, Remover(r) PROVE Announced'
    BY <1>4 DEF Remover, RemoveTest, RemoveFromPorts, RemoveClear
  <1>5. CASE CECEnable \/ PollReadsPower \/ PollAllocated \/ CECDisable
    BY <1>5 DEF CECEnable, PollReadsPower, PollAllocated, CECDisable
  <1>6. CASE UNCHANGED vars
    BY <1>6 DEF vars
  <1>7. QED
    BY <1>1, <1>2, <1>3, <1>4, <1>5, <1>6 DEF Next

\* A device that is flagged or current has claimed the source in the last message of it
\* that the TV heeded (updateActiveSource, updateInActiveSource).
THEOREM SourcesAreAnnounced == Spec => []OnlyAnnouncedSources
  <1>1. Init => Announced
    BY PortAssumption DEF Init, Announced, OnlyAnnouncedSources, NoSource
  <1>2. Announced => OnlyAnnouncedSources
    BY DEF Announced
  <1>3. QED
    BY <1>1, <1>2, SourceTypeCorrect, AnnouncedStep, PTL DEF Spec
-----------------------------------------------------------------------------
(* Standby *)

\* The source that the last announcement set, found awake, still holds.
Held == current \in active /\ told = "awake" /\ cecPc \notin {"take", "wake"}

\* Only in a session is a source found awake; one that is held is present, and when the
\* power goes down under it the event that resets it is on its way.
HeldInv ==
  /\ told = "awake" => session = "run"
  /\ cecPc = "wake" /\ current \in Devices => current = sender
  /\ Held => current \in present
  /\ Held /\ power = "STANDBY" /\ status = "STANDBY" => powerPc \in {"status", "standby"}

LEMMA HeldStep == TypeOK /\ HeldInv /\ [Next]_vars => HeldInv'
  <1> SUFFICES ASSUME TypeOK, HeldInv, [Next]_vars PROVE HeldInv'
    OBVIOUS
  <1> USE DEF TypeOK, HeldInv, Held, PowerModes, Outcomes, listVars, powerVars, cecVars, removeVars, auxVars
  <1>1. CASE Receiver
    <2>1. ASSUME NEW d \in Devices,
                 ReceiveActiveSource(d) \/ ReceiveInActiveSource(d) \/ ReceiveReport(d)
          PROVE  HeldInv'
      BY <2>1 DEF ReceiveActiveSource, ReceiveInActiveSource, ReceiveReport, Receive
    <2>2. CASE ReceiveRequest \/ AddSender \/ SourceTest
      BY <2>2 DEF ReceiveRequest, Receive, AddSender, SourceTest
    <2>3. CASE SourceLower \/ SourceRaise \/ SourceTake
      BY <2>3 DEF SourceLower, SourceRaise, SourceTake
    \* The announced device is the source now: whether it was awake is known.
    <2>4. CASE SourceWake
      BY <2>4 DEF SourceWake
    <2>5. CASE Withdraw \/ WithdrawQuit
      BY <2>5, NotDevices DEF Withdraw, WithdrawQuit, Heed
    <2>6. CASE Respond \/ Locate \/ Link
      BY <2>6, NotDevices DEF Respond, Locate, Link
    <2>7. QED
      BY <1>1, <2>1, <2>2, <2>3, <2>4, <2>5, <2>6, SourceAssumption DEF Receiver
  <1>2. CASE Api
    BY <1>2, NotDevices DEF Api, ApiClaim, ApiRoute, ApiTake
  \* The event writes the status and then resets the source.
  <1>3. CASE PowerModeChanged \/ PowerStatus \/ PowerStandby
    BY <1>3, NotDevices DEF PowerModeChanged, PowerStatus, PowerStandby, allocated
  <1>4. CASE \E d \in Devices : PollAdd(d)
    BY <1>4 DEF PollAdd
  <1>5. ASSUME NEW r \in Removers, Remover(r) PROVE HeldInv'
    BY <1>5 DEF Remover, RemoveTest, RemoveFromPorts, RemoveClear
  <1>6. CASE CECEnable \/ PollReadsPower \/ PollAllocated \/ CECDisable
    BY <1>6 DEF CECEnable, PollReadsPower, PollAllocated, CECDisable
  <1>7. CASE UNCHANGED vars
    BY <1>7 DEF vars
  <1>8. QED
    BY <1>1, <1>2, <1>3, <1>4, <1>5, <1>6, <1>7 DEF Next

\* A TV that knows it is in standby was told to wake up by the device it takes for its
\* source, if that was listed and the session set up when the handler looked
\* (updateActiveSource against onPowerModeChanged).
THEOREM StandbySourcesWake == Spec => []StandbySourceWakes
  <1>1. Init => HeldInv
    BY DEF Init, HeldInv, Held
  <1>2. TypeOK /\ HeldInv => StandbySourceWakes
    BY DEF TypeOK, Outcomes, HeldInv, Held, StandbySourceWakes
  <1>3. QED
    BY <1>1, <1>2, SourceTypeCorrect, HeldStep, PTL DEF Spec
-----------------------------------------------------------------------------
(* Routes *)

\* The port's own device has the address of the port, and a device of the table has an
\* address that names its place.
Anchored(p, port) ==
  /\ port.la # Unregistered => Addr[port.la] = <<p + 1, 0, 0, 0>>
  /\ \A s \in Slots :
       port.child[s] # Unregistered =>
         /\ Behind(p, Addr[port.child[s]]) /\ Depth(Addr[port.child[s]]) > 0
         /\ SlotOf(Addr[port.child[s]]) = s

\* addChild, removeChild and the removal of the port's own device keep every place.
LEMMA PortKeepsAnchors ==
  ASSUME NEW p \in Ports, NEW port \in PortType, NEW d \in Devices, Anchored(p, port)
  PROVE  /\ Anchored(p, AddChild(p, port, d, Addr[d]))
         /\ Anchored(p, Unplug(RemoveChild(p, port, Addr[d])))
  <1> DEFINE new == AddChild(p, port, d, Addr[d])
  <1>1. ASSUME new = [port EXCEPT !.child[SlotOf(Addr[d])] = d],
               Behind(p, Addr[d]), Depth(Addr[d]) > 0
        PROVE  Anchored(p, new)
    <2>1. new.la = port.la
      BY <1>1 DEF PortType
    <2>2. \A s \in Slots : new.child[s] = IF s = SlotOf(Addr[d]) THEN d ELSE port.child[s]
      BY <1>1 DEF PortType
    <2>3. QED
      BY <1>1, <2>1, <2>2 DEF Anchored
  <1>2. ASSUME new = [port EXCEPT !.la = d], Addr[d] = <<p + 1, 0, 0, 0>>
        PROVE  Anchored(p, new)
    <2>1. new.la = d /\ new.child = port.child
      BY <1>2 DEF PortType
    <2>2. QED
      BY <1>2, <2>1 DEF Anchored
  <1>3. Anchored(p, new)
    BY <1>1, <1>2 DEF AddChild
  <1>4. Anchored(p, RemoveChild(p, port, Addr[d])) /\ RemoveChild(p, port, Addr[d]) \in PortType
    BY PortTyped DEF Anchored, RemoveChild, PortType
  <1>5. Anchored(p, Unplug(RemoveChild(p, port, Addr[d])))
    BY <1>4 DEF Anchored, Unplug, PortType
  <1>6. QED
    BY <1>3, <1>5

\* Only a report's link and a removal write the port map.
LEMMA PortsChange ==
  ASSUME [Next]_vars
  PROVE  Link \/ (\E r \in Removers : RemoveFromPorts(r)) \/ UNCHANGED ports
  BY DEF Next, vars, Receiver, ReceiveActiveSource, ReceiveInActiveSource, ReceiveReport,
     ReceiveRequest, Receive, AddSender, SourceTest, SourceLower, SourceRaise, SourceTake, SourceWake,
     Withdraw, WithdrawQuit, Respond, Locate, Api, ApiClaim, ApiRoute, ApiTake,
     PollAdd, Remover, RemoveTest, RemoveClear, PowerModeChanged, PowerStatus, PowerStandby,
     CECEnable, PollReadsPower, PollAllocated, CECDisable

PortsAnchored == \A p \in Ports : Anchored(p, ports[p])

LEMMA AnchorStep == TypeOK /\ PortsAnchored /\ [Next]_vars => PortsAnchored'
  <1> SUFFICES ASSUME TypeOK, PortsAnchored, [Next]_vars PROVE PortsAnchored'
    OBVIOUS
  <1>1. CASE Link
    <2>1. sender \in Devices
      BY <1>1 DEF TypeOK, Link
    <2>2. QED
      BY <1>1, <2>1, PortKeepsAnchors DEF TypeOK, PortsAnchored, Link
  <1>2. ASSUME NEW r \in Removers, RemoveFromPorts(r) PROVE PortsAnchored'
    <2>1. removing[r] \in Devices
      BY <1>2 DEF TypeOK, RemoveFromPorts
    <2>2. QED
      BY <1>2, <2>1, PortKeepsAnchors DEF TypeOK, PortsAnchored, RemoveFromPorts
  <1>3. CASE UNCHANGED ports
    BY <1>3 DEF PortsAnchored
  <1>4. QED
    BY <1>1, <1>2, <1>3, PortsChange

\* A digit of a physical address above its depth is not zero.
LEMMA DigitsAboveDepth ==
  ASSUME NEW pa \in PhysicalAddresses, NEW level \in 1..Depth(pa)
  PROVE  level \in 1..3 /\ pa[level + 1] \in 1..15 /\ Depth(pa) \in 1..3
  BY DEF PhysicalAddresses, Depth

\* In an anchored port a route climbs the tree.
LEMMA RouteClimbs ==
  ASSUME DistinctSlots, NEW d \in Devices, NEW p \in Ports, NEW port \in PortType,
         Anchored(p, port), Behind(p, Addr[d]), NEW n \in DOMAIN Route(port, Addr[d]),
         Route(port, Addr[d])[n] # Unregistered
  PROVE  Addr[Route(port, Addr[d])[n]] = Path(d)[n]
  <1> DEFINE level == Depth(Addr[d]) + 1 - n
             slot  == <<level, Addr[d][level + 1]>>
  <1>1. Depth(Addr[d]) \in 0..3 /\ Addr[d] \in PhysicalAddresses
    BY PortAssumption DEF Depth
  <1>2. port.la # Unregistered /\ n \in 1..Depth(Addr[d]) + 1
    BY DEF Route
  <1>3. Route(port, Addr[d])[n] = IF level = 0 THEN port.la ELSE port.child[slot]
    BY <1>2 DEF Route
  <1>4. Path(d)[n] = Prefix(Addr[d], level)
    BY <1>2 DEF Path
  <1>5. CASE level = 0
    <2>1. Addr[port.la] = <<p + 1, 0, 0, 0>>
      BY <1>2 DEF Anchored
    <2>2. Prefix(Addr[d], 0) = <<p + 1, 0, 0, 0>>
      BY <1>1 DEF Prefix, Behind, PhysicalAddresses
    <2>3. QED
      BY <1>3, <1>4, <1>5, <2>1, <2>2
  <1>6. CASE level # 0
    <2>1. level \in 1..Depth(Addr[d])
      BY <1>1, <1>2, <1>6
    <2>2. level \in 1..3 /\ Addr[d][level + 1] \in 1..15
      BY <1>1, <2>1, DigitsAboveDepth
    <2>3. slot \in Slots
      BY <2>2 DEF Slots
    <2> DEFINE e == port.child[slot]
    <2>4. e \in Devices
      BY <1>3, <1>6, <2>3 DEF PortType, LogicalAddresses
    <2>5. Behind(p, Addr[e]) /\ SlotOf(Addr[e]) = slot
      BY <1>3, <1>6, <2>3 DEF Anchored
    <2>6. Depth(Addr[e]) = level /\ Addr[e][level + 1] = Addr[d][level + 1]
      BY <2>5 DEF SlotOf
    <2>7. Addr[d][1] = Addr[e][1]
      BY <2>5 DEF Behind
    <2>8. Addr[e] = Prefix(Addr[d], level)
      BY <2>1, <2>4, <2>6, <2>7 DEF DistinctSlots
    <2>9. QED
      BY <1>3, <1>4, <1>6, <2>8
  <1>7. QED
    BY <1>5, <1>6

\* Every device named in a route sits at that place of the tree of physical addresses
\* (HdmiPortMap, updateDeviceChain, removeDevice, getActiveRoute).
THEOREM RoutesLeadThroughParents == Spec => []RouteLeadsThroughParents
  <1>1. Init => PortsAnchored
    BY DEF Init, PortsAnchored, Anchored, NewPort
  <1>2. TypeOK /\ PortsAnchored => RouteLeadsThroughParents
    <2> SUFFICES ASSUME TypeOK, PortsAnchored, DistinctSlots, NEW d \in Devices,
                        NEW n \in DOMAIN RouteOf(d), RouteOf(d)[n] # Unregistered
                 PROVE  Addr[RouteOf(d)[n]] = Path(d)[n]
      BY DEF RouteLeadsThroughParents
    <2>1. CASE \E p \in Ports : Behind(p, Addr[d])
      <3>1. PICK p \in Ports : Behind(p, Addr[d]) /\ RouteOf(d) = Route(ports[p], Addr[d])
        BY <2>1 DEF RouteOf
      <3>2. QED
        BY <3>1, RouteClimbs DEF TypeOK, PortsAnchored
    <2>2. CASE ~\E p \in Ports : Behind(p, Addr[d])
      BY <2>2 DEF RouteOf
    <2>3. QED
      BY <2>1, <2>2
  <1>3. QED
    BY <1>1, <1>2, SourceTypeCorrect, AnchorStep, PTL DEF Spec
-----------------------------------------------------------------------------
(* The tree of the positions *)

TreeOf(inputs) == [n \in Nodes |-> Occupant(inputs, n)]

\* A prefix of an address is as deep as it is long and keeps the digits up to there.
LEMMA Prefixes ==
  ASSUME NEW pa \in PhysicalAddresses, NEW level \in 0..Depth(pa)
  PROVE  /\ Prefix(pa, level) \in PhysicalAddresses
         /\ Depth(Prefix(pa, level)) = level
         /\ Prefix(pa, level)[1] = pa[1]
         /\ Prefix(pa, level)[level + 1] = pa[level + 1]
         /\ Prefix(Prefix(pa, level), 0) = Prefix(pa, 0)
         /\ level = Depth(pa) => Prefix(pa, level) = pa
  <1> DEFINE pre == Prefix(pa, level)
  <1>1. Depth(pa) \in 0..3 /\ level \in 0..3
    BY DEF Depth
  <1>2. pre \in PhysicalAddresses
    BY <1>1 DEF Prefix, PhysicalAddresses
  <1>3. \A i \in 1..4 : pre[i] = IF i <= level + 1 THEN pa[i] ELSE 0
    BY DEF Prefix
  <1>4. level > 0 => pa[level + 1] # 0
    BY DigitsAboveDepth, <1>1
  <1>5. Depth(pre) = level
    BY <1>1, <1>3, <1>4 DEF Depth, PhysicalAddresses
  <1>6. Prefix(pre, 0) = Prefix(pa, 0)
    BY <1>1, <1>3 DEF Prefix
  <1>7. ASSUME level = Depth(pa) PROVE pre = pa
    <2>1. \A i \in 1..4 : i > level + 1 => pa[i] = 0
      BY <1>1, <1>7 DEF Depth, PhysicalAddresses
    <2>2. \A i \in 1..4 : pre[i] = pa[i]
      BY <1>3, <2>1, <1>1 DEF PhysicalAddresses
    <2>3. QED
      BY <1>2, <2>2 DEF PhysicalAddresses
  <1>8. QED
    BY <1>1, <1>2, <1>3, <1>5, <1>6, <1>7

\* Every device has a position, and so has every root; a position is an address.
LEMMA Positions ==
  /\ \A d \in Devices : Addr[d] \in Nodes
  /\ \A n \in Nodes : n \in PhysicalAddresses /\ Prefix(n, 0) \in Nodes
  <1>1. \A d \in Devices : Addr[d] \in PhysicalAddresses /\ Depth(Addr[d]) \in 0..3
    BY PortAssumption DEF Depth
  <1>2. ASSUME NEW d \in Devices PROVE Addr[d] \in Nodes
    BY <1>1, Prefixes DEF Nodes
  <1>3. ASSUME NEW n \in Nodes PROVE n \in PhysicalAddresses /\ Prefix(n, 0) \in Nodes
    <2>1. PICK d \in Devices : \E level \in 0..Depth(Addr[d]) : n = Prefix(Addr[d], level)
      BY DEF Nodes
    <2>2. Prefix(n, 0) = Prefix(Addr[d], 0) /\ 0 \in 0..Depth(Addr[d])
      BY <1>1, <2>1, Prefixes
    <2>3. QED
      BY <1>1, <2>1, <2>2, Prefixes DEF Nodes
  <1>4. QED
    BY <1>2, <1>3

\* Two positions behind one input share a place of its table only if they are one; the
\* position of an input's own device is the root of all that are behind it.
LEMMA PlacesAreDistinct ==
  ASSUME DistinctSlots, NEW n \in Nodes, NEW d \in Devices, n[1] = Addr[d][1]
  PROVE  /\ Depth(n) = 0 <=> n = Prefix(Addr[d], 0)
         /\ Depth(n) > 0 => SlotOf(n) \in Slots
         /\ Depth(n) > 0 /\ SlotOf(n) = SlotOf(Addr[d]) => n = Addr[d]
  <1>0. PICK e \in Devices : \E level \in 0..Depth(Addr[e]) : n = Prefix(Addr[e], level)
    BY DEF Nodes
  <1>1. PICK level \in 0..Depth(Addr[e]) : n = Prefix(Addr[e], level)
    BY <1>0
  <1>2. /\ Addr[e] \in PhysicalAddresses /\ Depth(Addr[e]) \in 0..3
        /\ Addr[d] \in PhysicalAddresses /\ Depth(Addr[d]) \in 0..3
    BY PortAssumption DEF Depth
  <1>3. Depth(n) = level /\ n[level + 1] = Addr[e][level + 1] /\ n[1] = Addr[e][1]
    BY <1>1, <1>2, Prefixes
  <1>4. Depth(n) = 0 => n = Prefix(Addr[d], 0)
    BY <1>1, <1>2, <1>3 DEF Prefix, PhysicalAddresses
  <1>5. Depth(Prefix(Addr[d], 0)) = 0
    BY <1>2, Prefixes
  <1>6. ASSUME level > 0 PROVE SlotOf(n) \in Slots
    <2>1. level \in 1..3 /\ Addr[e][level + 1] \in 1..15
      BY <1>2, <1>6, DigitsAboveDepth
    <2>2. QED
      BY <1>3, <2>1 DEF SlotOf, Slots
  <1>7. ASSUME level > 0, SlotOf(n) = SlotOf(Addr[d]) PROVE n = Addr[d]
    <2>1. Depth(Addr[d]) = level /\ Addr[d][level + 1] = Addr[e][level + 1]
      BY <1>3, <1>7 DEF SlotOf
    <2>2. level \in 1..Depth(Addr[e])
      BY <1>2, <1>7
    <2>3. QED
      BY <1>1, <1>3, <2>1, <2>2 DEF DistinctSlots
  <1>8. QED
    BY <1>3, <1>4, <1>5, <1>6, <1>7

\* addChild enters a device at its position of the tree: a root if it is free, another
\* position if its root is known to be another device.
LEMMA AddEnters ==
  ASSUME DistinctSlots, NEW inputs \in [Ports -> PortType], NEW d \in Devices,
         NEW new, new # inputs,
         new = [p \in Ports |-> IF Behind(p, Addr[d]) THEN AddChild(p, inputs[p], d, Addr[d]) ELSE inputs[p]]
  PROVE  LET root == Prefix(Addr[d], 0) IN
         /\ IF Addr[d] = root THEN Occupant(inputs, root) \in {Unregistered, d}
                              ELSE Occupant(inputs, root) \notin {Unregistered, d}
         /\ \A n \in Nodes : Occupant(new, n) = IF n = Addr[d] THEN d ELSE Occupant(inputs, n)
  <1> DEFINE root == Prefix(Addr[d], 0)
             p    == Addr[d][1] - 1
             port == inputs[p]
  <1>1. Addr[d] \in Nodes /\ root \in Nodes /\ Addr[d] \in PhysicalAddresses
    BY Positions
  <1>2. root[1] = Addr[d][1] /\ Depth(root) = 0 /\ Depth(Addr[d]) \in 0..3
    BY <1>1, Prefixes DEF Depth
  <1>3. \A q \in Ports : Behind(q, Addr[d]) <=> q = p
    BY <1>1, PortAssumption DEF Behind, PhysicalAddresses
  <1>4. /\ p \in Ports /\ port \in PortType
        /\ new = [inputs EXCEPT ![p] = AddChild(p, port, d, Addr[d])]
        /\ new[p] = AddChild(p, port, d, Addr[d]) /\ new[p] # port
    <2>1. new = [q \in Ports |-> IF q = p THEN AddChild(q, inputs[q], d, Addr[d]) ELSE inputs[q]]
      BY <1>3
    <2>2. p \in Ports /\ port \in PortType
      BY <2>1
    <2>3. new = [inputs EXCEPT ![p] = AddChild(p, port, d, Addr[d])]
      BY <2>1, <2>2
    <2>4. QED
      BY <2>2, <2>3
  <1>5. Occupant(inputs, root) = port.la
    BY <1>2, <1>4 DEF Occupant
  <1>6. root = <<p + 1, 0, 0, 0>>
    BY <1>1 DEF Prefix, PhysicalAddresses
  <1>7. \A n \in Nodes : n[1] # Addr[d][1] => Occupant(new, n) = Occupant(inputs, n) /\ n # Addr[d]
    BY <1>4, Positions DEF Occupant, PhysicalAddresses
  <1>8. \A n \in Nodes : n[1] = Addr[d][1] =>
          /\ Occupant(new, n) = IF Depth(n) = 0 THEN new[p].la ELSE new[p].child[SlotOf(n)]
          /\ Occupant(inputs, n) = IF Depth(n) = 0 THEN port.la ELSE port.child[SlotOf(n)]
    BY <1>4 DEF Occupant
  <1>9. \A n \in Nodes : Depth(n) = 0 \/ Depth(n) > 0
    BY DEF Depth
  \* A chained device takes its place of the table.
  <1>10. CASE Depth(Addr[d]) > 0
    <2>0. Addr[d] # <<p + 1, 0, 0, 0>>
      BY <1>2, <1>6, <1>10
    <2>1. /\ port.la \notin {Unregistered, d}
          /\ new[p] = [port EXCEPT !.child[SlotOf(Addr[d])] = d]
      BY <1>4, <2>0 DEF AddChild
    <2>2. SlotOf(Addr[d]) \in Slots
      BY <1>1, <1>10, PlacesAreDistinct
    <2>3. /\ new[p].la = port.la
          /\ \A s \in Slots : new[p].child[s] = IF s = SlotOf(Addr[d]) THEN d ELSE port.child[s]
      BY <1>4, <2>1, <2>2 DEF PortType
    <2>4. ASSUME NEW n \in Nodes, n[1] = Addr[d][1]
          PROVE  Occupant(new, n) = IF n = Addr[d] THEN d ELSE Occupant(inputs, n)
      BY <1>8, <1>9, <1>10, <2>3, <2>4, PlacesAreDistinct
    <2>5. QED
      BY <1>2, <1>5, <1>7, <1>10, <2>1, <2>4
  \* A device that is plugged into the input itself becomes its own.
  <1>11. CASE Depth(Addr[d]) = 0
    <2>1. Addr[d] = root
      BY <1>1, <1>11, PlacesAreDistinct
    <2>2. port.la \in {Unregistered, d} /\ new[p] = [port EXCEPT !.la = d]
      BY <1>4, <1>11 DEF AddChild
    <2>3. new[p].la = d /\ new[p].child = port.child
      BY <1>4, <2>2 DEF PortType
    <2>4. ASSUME NEW n \in Nodes, n[1] = Addr[d][1]
          PROVE  Occupant(new, n) = IF n = Addr[d] THEN d ELSE Occupant(inputs, n)
      BY <1>8, <2>1, <2>3, <2>4, PlacesAreDistinct
    <2>5. QED
      BY <1>5, <1>7, <2>1, <2>2, <2>4
  <1>12. QED
    BY <1>2, <1>10, <1>11

\* removeChild and the removal of the input's own device clear the position of a device
\* that leaves, if its root is known, and its root.
LEMMA RemoveLeaves ==
  ASSUME DistinctSlots, NEW inputs \in [Ports -> PortType], NEW d \in Devices,
         NEW new, new # inputs,
         new = [p \in Ports |-> IF Behind(p, Addr[d]) THEN Unplug(RemoveChild(p, inputs[p], Addr[d]))
                                ELSE inputs[p]]
  PROVE  LET root == Prefix(Addr[d], 0) IN
         \A n \in Nodes : Occupant(new, n) =
           IF n = root \/ (n = Addr[d] /\ Occupant(inputs, root) # Unregistered)
             THEN Unregistered ELSE Occupant(inputs, n)
  <1> DEFINE root == Prefix(Addr[d], 0)
             p    == Addr[d][1] - 1
             port == inputs[p]
  <1>1. Addr[d] \in Nodes /\ root \in Nodes /\ Addr[d] \in PhysicalAddresses
    BY Positions
  <1>2. root[1] = Addr[d][1] /\ Depth(root) = 0 /\ Depth(Addr[d]) \in 0..3
    BY <1>1, Prefixes DEF Depth
  <1>3. \A q \in Ports : Behind(q, Addr[d]) <=> q = p
    BY <1>1, PortAssumption DEF Behind, PhysicalAddresses
  <1>4. /\ p \in Ports /\ port \in PortType /\ Behind(p, Addr[d])
        /\ new = [inputs EXCEPT ![p] = Unplug(RemoveChild(p, port, Addr[d]))]
        /\ new[p] = Unplug(RemoveChild(p, port, Addr[d]))
    BY <1>3
  <1>5. Occupant(inputs, root) = port.la
    BY <1>2, <1>4 DEF Occupant
  <1>6. \A n \in Nodes : n[1] # Addr[d][1] =>
          Occupant(new, n) = Occupant(inputs, n) /\ n # Addr[d] /\ n # root
    BY <1>2, <1>4, Positions DEF Occupant, PhysicalAddresses
  <1>7. \A n \in Nodes : n[1] = Addr[d][1] =>
          /\ Occupant(new, n) = IF Depth(n) = 0 THEN new[p].la ELSE new[p].child[SlotOf(n)]
          /\ Occupant(inputs, n) = IF Depth(n) = 0 THEN port.la ELSE port.child[SlotOf(n)]
    BY <1>4 DEF Occupant
  <1>8. /\ new[p].la = Unregistered
        /\ \A s \in Slots : new[p].child[s] =
             IF port.la # Unregistered /\ Depth(Addr[d]) > 0 /\ s = SlotOf(Addr[d])
               THEN Unregistered ELSE port.child[s]
    <2>1. RemoveChild(p, port, Addr[d]) \in PortType
      BY <1>4, PortTyped
    <2>2. /\ new[p].la = Unregistered
          /\ new[p].child = RemoveChild(p, port, Addr[d]).child
      BY <1>4, <2>1 DEF Unplug, PortType
    <2>3. QED
      BY <1>4, <2>2 DEF RemoveChild, PortType
  <1>9. ASSUME NEW n \in Nodes, n[1] = Addr[d][1]
        PROVE  Occupant(new, n) =
                 IF n = root \/ (n = Addr[d] /\ Occupant(inputs, root) # Unregistered)
                   THEN Unregistered ELSE Occupant(inputs, n)
    <2>1. Depth(n) = 0 \/ Depth(n) > 0
      BY DEF Depth
    <2>2. CASE Depth(n) = 0
      BY <1>7, <1>8, <1>9, <2>2, PlacesAreDistinct
    <2>3. CASE Depth(n) > 0
      BY <1>2, <1>5, <1>7, <1>8, <1>9, <2>3, PlacesAreDistinct
    <2>4. QED
      BY <2>1, <2>2, <2>3
  <1>10. QED
    BY <1>6, <1>9

\* The digit-indexed tables of the inputs implement one table of the positions of the
\* tree (HdmiPortMap, updateDeviceChain, removeDevice): every report and removal, however
\* they interleave with the rest, enters or clears what Topology says.
THEOREM SourceImplementsTopology ==
  ASSUME DistinctSlots
  PROVE  Spec => ImplementsTopology /\ Tree!Spec
  <1>1. Init => Tree!Init
    <2> SUFFICES ASSUME Init, NEW n \in Nodes PROVE Occupant(ports, n) = Unregistered
      BY DEF Tree!Init
    <2>1. Depth(n) = 0 \/ SlotOf(n) \in Slots
      <3>1. PICK d \in Devices : \E level \in 0..Depth(Addr[d]) : n = Prefix(Addr[d], level)
        BY DEF Nodes
      <3>2. n[1] = Addr[d][1]
        BY <3>1 DEF Prefix
      <3>3. QED
        BY <3>2, PlacesAreDistinct DEF Depth
    <2>2. QED
      BY <2>1 DEF Init, Occupant, NewPort
  <1>2. TypeOK /\ [Next]_vars => [ports' # ports => Tree!Next]_ports
    <2> SUFFICES ASSUME TypeOK, [Next]_vars, ports' # ports PROVE Tree!Next
      OBVIOUS
    <2>1. CASE Link
      <3>1. sender \in Devices /\ Addr[sender] \in Nodes
        BY <2>1, Positions DEF TypeOK, Link
      <3>2. ports' = [p \in Ports |-> IF Behind(p, Addr[sender])
                                      THEN AddChild(p, ports[p], sender, Addr[sender]) ELSE ports[p]]
        BY <2>1 DEF TypeOK, Link
      <3> DEFINE root == Prefix(Addr[sender], 0)
      <3>3. /\ IF Addr[sender] = root THEN Occupant(ports, root) \in {Unregistered, sender}
                                      ELSE Occupant(ports, root) \notin {Unregistered, sender}
            /\ \A n \in Nodes : Occupant(ports', n) = IF n = Addr[sender] THEN sender ELSE Occupant(ports, n)
        BY <3>1, <3>2, AddEnters DEF TypeOK
      <3>4. Roots[Addr[sender]] = root /\ root \in Nodes
        BY <3>1, Positions DEF Roots
      <3>5. TreeOf(ports)' = [TreeOf(ports) EXCEPT ![Addr[sender]] = sender]
        BY <3>1, <3>3 DEF TreeOf
      <3>6. Tree!Enter(sender)
        BY <3>3, <3>4, <3>5 DEF Tree!Enter, TreeOf
      <3>7. QED
        BY <3>1, <3>6 DEF Tree!Next
    <2>2. ASSUME NEW r \in Removers, RemoveFromPorts(r) PROVE Tree!Next
      <3> DEFINE d    == removing[r]
                 root == Prefix(Addr[d], 0)
      <3>1. d \in Devices /\ Addr[d] \in Nodes
        BY <2>2, Positions DEF TypeOK, RemoveFromPorts
      <3>2. ports' = [p \in Ports |-> IF Behind(p, Addr[d])
                                      THEN Unplug(RemoveChild(p, ports[p], Addr[d])) ELSE ports[p]]
        BY <2>2 DEF TypeOK, RemoveFromPorts
      <3>3. \A n \in Nodes : Occupant(ports', n) =
              IF n = root \/ (n = Addr[d] /\ Occupant(ports, root) # Unregistered)
                THEN Unregistered ELSE Occupant(ports, n)
        BY <3>1, <3>2, RemoveLeaves DEF TypeOK
      <3>4. Roots[Addr[d]] = root /\ root \in Nodes
        BY <3>1, Positions DEF Roots
      <3>5. Tree!Leave(d)
        BY <3>3, <3>4 DEF Tree!Leave
      <3>6. QED
        BY <3>1, <3>5 DEF Tree!Next
    <2>3. QED
      BY <2>1, <2>2, PortsChange
  <1>3. [ports' # ports => Tree!Next]_ports => [Tree!Next]_[n \in Nodes |-> Occupant(ports, n)]
    OBVIOUS
  <1>4. QED
    BY <1>1, <1>2, <1>3, SourceTypeCorrect, PTL DEF Spec, ImplementsTopology, Tree!Spec

\* What the abstract table guarantees carries over: whoever a position names has the
\* address of that position.
THEOREM OccupantsArePlaced ==
  ASSUME DistinctSlots
  PROVE  Spec => []Tree!Placed
  <1> DEFINE tree == [n \in Nodes |-> Occupant(ports, n)]
  <1>1. Tree!Init => Tree!Placed
    BY DEF Tree!Init, Tree!Placed
  <1>2. Tree!Placed /\ [Tree!Next]_tree => Tree!Placed'
    <2> SUFFICES ASSUME Tree!Placed, [Tree!Next]_tree PROVE Tree!Placed'
      OBVIOUS
    <2>1. ASSUME NEW d \in Devices, Tree!Enter(d) PROVE Tree!Placed'
      <3>1. \A n \in Nodes : tree'[n] = IF n = Addr[d] THEN d ELSE tree[n]
        BY <2>1 DEF Tree!Enter
      <3>2. QED
        BY <3>1 DEF Tree!Placed
    <2>2. ASSUME NEW d \in Devices, Tree!Leave(d) PROVE Tree!Placed'
      <3>1. \A n \in Nodes : tree'[n] \in {Unregistered, tree[n]}
        BY <2>2 DEF Tree!Leave
      <3>2. QED
        BY <3>1 DEF Tree!Placed
    <2>3. CASE UNCHANGED tree
      BY <2>3 DEF Tree!Placed
    <2>4. QED
      BY <2>1, <2>2, <2>3 DEF Tree!Next
  <1>3. QED
    BY <1>1, <1>2, SourceImplementsTopology, PTL DEF Tree!Spec

\* getRoute reads the table of positions along the path of an address: a route is what
\* the tree says of the device and of everything above it, or nothing if the input's own
\* device is not known.
THEOREM RouteReadsTopology ==
  ASSUME DistinctSlots, TypeOK, NEW d \in Devices, RouteOf(d) # << >>
  PROVE  /\ DOMAIN RouteOf(d) = DOMAIN Path(d)
         /\ \A n \in DOMAIN Path(d) : Path(d)[n] \in Nodes /\ RouteOf(d)[n] = TreeOf(ports)[Path(d)[n]]
  <1>1. PICK p \in Ports : Behind(p, Addr[d]) /\ RouteOf(d) = Route(ports[p], Addr[d])
    BY DEF RouteOf
  <1>2. /\ Addr[d] \in PhysicalAddresses /\ Depth(Addr[d]) \in 0..3
        /\ p = Addr[d][1] - 1
    BY <1>1, PortAssumption DEF Depth, Behind, PhysicalAddresses
  <1>3. DOMAIN RouteOf(d) = 1..Depth(Addr[d]) + 1 /\ DOMAIN Path(d) = 1..Depth(Addr[d]) + 1
    BY <1>1 DEF Route, Path
  <1>4. ASSUME NEW n \in DOMAIN Path(d)
        PROVE  Path(d)[n] \in Nodes /\ RouteOf(d)[n] = TreeOf(ports)[Path(d)[n]]
    <2> DEFINE level == Depth(Addr[d]) + 1 - n
               node  == Prefix(Addr[d], level)
    <2>0. n \in 1..Depth(Addr[d]) + 1 /\ level \in 0..Depth(Addr[d])
      BY <1>2, <1>3
    <2>1. /\ Path(d)[n] = node
          /\ RouteOf(d)[n] = IF level = 0 THEN ports[p].la
                             ELSE ports[p].child[<<level, Addr[d][level + 1]>>]
      BY <1>1, <2>0 DEF Route, Path
    <2>2. node \in Nodes
      BY <2>0 DEF Nodes
    <2>3. Depth(node) = level /\ node[1] = Addr[d][1] /\ node[level + 1] = Addr[d][level + 1]
      BY <1>2, <2>0, Prefixes
    <2>4. Occupant(ports, node) = IF level = 0 THEN ports[p].la
                                  ELSE ports[p].child[<<level, Addr[d][level + 1]>>]
      BY <1>2, <2>3 DEF Occupant, SlotOf
    <2>5. QED
      BY <2>1, <2>2, <2>4 DEF TreeOf
  <1>5. QED
    BY <1>3, <1>4
=============================================================================
