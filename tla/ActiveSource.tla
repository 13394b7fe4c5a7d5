---------------------------- MODULE ActiveSource -----------------------------
(***************************************************************************)
(* Which device is the active source, and the way its signal takes to the  *)
(* TV: m_currentActiveSource, the devices' m_isActiveSource and addresses  *)
(* and the port map, as the receiver thread, a JSON-RPC worker, the poll   *)
(* and hot plug threads, power events, CECEnable and CECDisable change     *)
(* them.  None of it has a lock: every access to a shared field is a step, *)
(* and the fields that one handler writes into one device entry are one.   *)
(***************************************************************************)
EXTENDS PortMap

CONSTANTS
  Sources,   \* devices that claim to be the active source
  Removers,  \* threads that may be inside of removeDevice
  Stimuli    \* what the environment does

TV       == 0   \* the address the TV gets
NoSource == -1

ASSUME SourceAssumption ==
  /\ Sources \subseteq Devices
  /\ Stimuli \subseteq {"announce", "withdraw", "request", "report", "remove", "unplug",
                        "claim", "route", "power", "disable"}

PowerModes == {"ON", "STANDBY"}

\* To wake up; nothing, being awake; nothing, for the announcer was not in the list or
\* the session not set up when the handler looked, or there was no announcement.
Outcomes == {"woken", "awake", "unseen"}

VARIABLES
  present,         \* m_isDevicePresent
  located,         \* devices whose m_physicalAddr is not F.F.F.F
  active,          \* m_isActiveSource
  current,         \* m_currentActiveSource
  ports,           \* hdmiInputs
  power,           \* powerState
  status,          \* m_powerStatus of the TV's own entry
  powerPc,         \* where onPowerModeChanged is
  session,         \* CEC is off, or where the poll thread's POLL state is: it has yet to
                   \* read powerState, has read ON or STANDBY, or has set up the TV's entry
  cecPc, sender,   \* the receiver thread and the device whose frame it handles
  apiPc,           \* the worker in setActiveSource or setRoutingChange
  removing,        \* the device each thread removes
  unplugged,       \* the removers that are done with its port
  announced,       \* auxiliary: devices whose last message that was heeded claimed the source
  told             \* auxiliary: what the TV was told on this session's last announcement

listVars   == <<present, located, active>>
powerVars  == <<power, status, powerPc>>
cecVars    == <<cecPc, sender>>
removeVars == <<removing, unplugged>>
auxVars    == <<announced, told>>
vars ==
  <<listVars, current, ports, powerVars, session, cecVars, apiPc, removeVars, auxVars>>

Nobody == Unregistered

TypeOK ==
  /\ present \subseteq Devices /\ located \subseteq Devices /\ active \subseteq Devices
  /\ current \in Devices \cup {TV, Unregistered, NoSource}
  /\ ports \in [Ports -> PortType]
  /\ power \in PowerModes /\ status \in PowerModes /\ powerPc \in {"idle", "status", "standby"}
  /\ session \in {"off", "start", "run"} \cup PowerModes
  /\ cecPc \in {"idle", "addSource", "test", "lower", "raise", "take", "wake",
                "withdraw", "quit", "respond", "addReport", "locate", "link"}
  /\ sender \in Devices \cup {Nobody}
  /\ cecPc \notin {"idle", "quit", "respond"} => sender \in Devices
  /\ apiPc \in {"idle", "take"}
  /\ removing \in [Removers -> Devices \cup {Nobody}]
  /\ unplugged \subseteq {r \in Removers : removing[r] \in Devices}
  /\ announced \subseteq Devices /\ told \in Outcomes

\* m_logicalAddressAllocated # UNREGISTERED; cecEnableStatus says the same here.
allocated == session # "off"

\* m_logicalAddressAllocated
Own == IF allocated THEN TV ELSE Unregistered

\* Configure, with CEC switched off or about to start.
Init ==
  /\ present = {} /\ located = {} /\ active = {} /\ current = NoSource
  /\ ports = [p \in Ports |-> NewPort]
  /\ power \in PowerModes /\ status = "ON" /\ powerPc = "idle"
  /\ session = "off"
  /\ cecPc = "idle" /\ sender = Nobody /\ apiPc = "idle"
  /\ removing = [r \in Removers |-> Nobody] /\ unplugged = {}
  /\ announced = {} /\ told = "unseen"
-----------------------------------------------------------------------------
(* The receiver thread: one frame at a time, while the listener is attached. *)

Receive(stimulus, d, pc) ==
  /\ stimulus \in Stimuli /\ cecPc = "idle" /\ session = "run"
  /\ cecPc' = pc /\ sender' = d
  /\ UNCHANGED <<listVars, current, ports, powerVars, session, apiPc, removeVars, auxVars>>

\* process(ActiveSource) begins with addDevice.
ReceiveActiveSource(d) == Receive("announce", d, IF d \in present THEN "test" ELSE "addSource")

ReceiveInActiveSource(d) == Receive("withdraw", d, "withdraw")

\* process(ReportPhysicalAddress) as well.
ReceiveReport(d) == Receive("report", d, IF d \in present THEN "locate" ELSE "addReport")

\* RequestActiveSource: setActiveSource(true) answers only for the TV itself.
ReceiveRequest == Receive("request", Nobody, IF current = Own THEN "respond" ELSE "idle")

\* addDevice found the sender absent: its entry is written, even when the session has
\* ended since; if it ended before the test, nothing is.
AddSender ==
  /\ cecPc \in {"addSource", "addReport"}
  /\ cecPc' = IF cecPc = "addSource" THEN "test" ELSE "locate"
  /\ \/ present' = present \cup {sender}
     \/ ~allocated /\ UNCHANGED present
  /\ UNCHANGED <<located, active, current, ports, powerVars, session, sender, apiPc, removeVars, auxVars>>

\* Mutation: the sender is let go before its entry is written.
SourceTestForgets ==
  /\ cecPc = "test"
  /\ cecPc' = IF ~allocated THEN "idle" ELSE IF current # NoSource THEN "lower" ELSE "raise"
  /\ sender' = Nobody
  /\ UNCHANGED <<listVars, current, ports, powerVars, session, apiPc, removeVars, auxVars>>

\* updateActiveSource
SourceTest ==
  /\ cecPc = "test"
  /\ IF allocated
       THEN cecPc' = (IF current # NoSource THEN "lower" ELSE "raise") /\ UNCHANGED sender
       ELSE cecPc' = "idle" /\ sender' = Nobody
  /\ UNCHANGED <<listVars, current, ports, powerVars, session, apiPc, removeVars, auxVars>>

\* The current source is read again: if it is -1 by now, the write misses the list.
SourceLower ==
  /\ cecPc = "lower" /\ cecPc' = "raise"
  /\ active' = active \ {current}
  /\ UNCHANGED <<present, located, current, ports, powerVars, session, sender, apiPc, removeVars, auxVars>>

SourceRaise ==
  /\ cecPc = "raise" /\ cecPc' = "take"
  /\ active' = active \cup {sender} /\ located' = located \cup {sender}
  /\ announced' = announced \cup {sender}
  /\ UNCHANGED <<present, current, ports, powerVars, session, sender, apiPc, removeVars, told>>

SourceTake ==
  /\ cecPc = "take" /\ cecPc' = "wake"
  /\ current' = sender
  /\ UNCHANGED <<listVars, ports, powerVars, session, sender, apiPc, removeVars, auxVars>>

\* OnWakeupFromStandby is sent for a present device when the TV's entry says STANDBY;
\* outside of a session the entry is another one and says ON, whatever the power is.
SourceWake ==
  /\ cecPc = "wake" /\ cecPc' = "idle" /\ sender' = Nobody
  /\ told' = IF sender \notin present \/ session # "run" THEN "unseen"
             ELSE IF status = "STANDBY" THEN "woken" ELSE "awake"
  /\ UNCHANGED <<listVars, current, ports, powerVars, session, apiPc, removeVars, announced>>

\* Once the address is gone the message is dropped, and takes back nothing.
Heed ==
  IF allocated THEN active' = active \ {sender} /\ announced' = announced \ {sender}
               ELSE UNCHANGED <<active, announced>>

\* Mutation: only the device's own flag is taken back.
WithdrawFlag ==
  /\ cecPc = "withdraw" /\ cecPc' = "idle" /\ sender' = Nobody
  /\ Heed
  /\ UNCHANGED <<present, located, current, ports, powerVars, session, apiPc, removeVars, told>>

\* updateInActiveSource
Withdraw ==
  /\ cecPc = "withdraw"
  /\ Heed
  /\ cecPc' = (IF allocated /\ current = sender THEN "quit" ELSE "idle") /\ sender' = Nobody
  /\ UNCHANGED <<present, located, current, ports, powerVars, session, apiPc, removeVars, told>>

WithdrawQuit ==
  /\ cecPc = "quit" /\ cecPc' = "idle"
  /\ current' = NoSource
  /\ UNCHANGED <<listVars, ports, powerVars, session, sender, apiPc, removeVars, auxVars>>

\* setActiveSource(true), its message sent
Respond ==
  /\ cecPc = "respond" /\ cecPc' = "idle"
  /\ current' = Own
  /\ UNCHANGED <<listVars, ports, powerVars, session, sender, apiPc, removeVars, auxVars>>

Locate ==
  /\ cecPc = "locate" /\ cecPc' = "link"
  /\ located' = located \cup {sender}
  /\ UNCHANGED <<present, active, current, ports, powerVars, session, sender, apiPc, removeVars, auxVars>>

\* updateDeviceChain
Link ==
  /\ cecPc = "link" /\ cecPc' = "idle" /\ sender' = Nobody
  /\ ports' = [p \in Ports |->
                 IF allocated /\ sender \in present /\ Behind(p, Addr[sender])
                   THEN AddChild(p, ports[p], sender, Addr[sender]) ELSE ports[p]]
  /\ UNCHANGED <<listVars, current, powerVars, session, apiPc, removeVars, auxVars>>

Receiver ==
  \/ \E d \in Sources : ReceiveActiveSource(d) \/ ReceiveInActiveSource(d)
  \/ \E d \in Devices : ReceiveReport(d)
  \/ ReceiveRequest \/ AddSender
  \/ SourceTest \/ SourceLower \/ SourceRaise \/ SourceTake \/ SourceWake
  \/ Withdraw \/ WithdrawQuit \/ Respond \/ Locate \/ Link
-----------------------------------------------------------------------------
(* SetActiveSource and SetRoutingChange *)

ApiClaim ==
  /\ "claim" \in Stimuli /\ apiPc = "idle" /\ allocated /\ apiPc' = "take"
  /\ UNCHANGED <<listVars, current, ports, powerVars, session, cecVars, removeVars, auxVars>>

\* From the TV or from an input that exists, to the TV or to an input.
ApiRoute ==
  /\ "route" \in Stimuli /\ apiPc = "idle" /\ allocated /\ apiPc' \in {"take", "idle"}
  /\ current' \in {NoSource, current}
  /\ UNCHANGED <<listVars, ports, powerVars, session, cecVars, removeVars, auxVars>>

\* The TV is the source: setActiveSource after its message, setRoutingChange to the TV.
ApiTake ==
  /\ apiPc = "take" /\ apiPc' = "idle"
  /\ current' = Own
  /\ UNCHANGED <<listVars, ports, powerVars, session, cecVars, removeVars, auxVars>>

Api == ApiClaim \/ ApiRoute \/ ApiTake
-----------------------------------------------------------------------------
(* pingDevices and onHdmiHotPlug add and remove devices. *)

PollAdd(d) ==
  /\ "remove" \in Stimuli /\ session = "run" /\ d \notin present
  /\ present' = present \cup {d}
  /\ UNCHANGED <<located, active, current, ports, powerVars, session, cecVars, apiPc, removeVars, auxVars>>

\* Absent from the bus, or the device of a port that is unplugged.
RemoveTest(r, d) ==
  /\ removing[r] = Nobody /\ allocated /\ d \in present
  /\ \/ "remove" \in Stimuli /\ session = "run"
     \/ "unplug" \in Stimuli /\ \E p \in Ports : ports[p].la = d
  /\ removing' = [removing EXCEPT ![r] = d]
  /\ UNCHANGED <<listVars, current, ports, powerVars, session, cecVars, apiPc, unplugged, auxVars>>

\* The port the device is behind loses its own device, too.
RemoveFromPorts(r) ==
  /\ removing[r] # Nobody /\ r \notin unplugged
  /\ LET d == removing[r] IN
       ports' = [p \in Ports |->
                   IF d \in located /\ Behind(p, Addr[d])
                     THEN Unplug(RemoveChild(p, ports[p], Addr[d])) ELSE ports[p]]
  /\ unplugged' = unplugged \cup {r}
  /\ UNCHANGED <<listVars, current, powerVars, session, cecVars, apiPc, removing, auxVars>>

\* clear(); m_currentActiveSource stays.
RemoveClear(r) ==
  /\ r \in unplugged
  /\ LET d == removing[r] IN
       present' = present \ {d} /\ located' = located \ {d} /\ active' = active \ {d}
  /\ removing' = [removing EXCEPT ![r] = Nobody] /\ unplugged' = unplugged \ {r}
  /\ UNCHANGED <<current, ports, powerVars, session, cecVars, apiPc, auxVars>>

Remover(r) == RemoveFromPorts(r) \/ RemoveClear(r) \/ \E d \in Devices : RemoveTest(r, d)
-----------------------------------------------------------------------------
(* onPowerModeChanged *)

PowerModeChanged ==
  /\ "power" \in Stimuli /\ powerPc = "idle" /\ powerPc' = "status"
  /\ power' \in PowerModes
  /\ UNCHANGED <<listVars, current, ports, status, session, cecVars, apiPc, removeVars, auxVars>>

PowerStatus ==
  /\ powerPc = "status"
  /\ IF allocated
       THEN status' = power /\ powerPc' = IF power = "ON" THEN "idle" ELSE "standby"
       ELSE UNCHANGED status /\ powerPc' = "idle"
  /\ UNCHANGED <<listVars, current, ports, power, session, cecVars, apiPc, removeVars, auxVars>>

\* Mutation: the source is kept in standby.
PowerStandbyKept ==
  /\ powerPc = "standby" /\ powerPc' = "idle"
  /\ UNCHANGED <<listVars, current, ports, power, status, session, cecVars, apiPc, removeVars, auxVars>>

PowerStandby ==
  /\ powerPc = "standby" /\ powerPc' = "idle"
  /\ current' = NoSource
  /\ UNCHANGED <<listVars, ports, power, status, session, cecVars, apiPc, removeVars, auxVars>>
-----------------------------------------------------------------------------
(* CECEnable, the poll thread's POLL state, CECDisable *)

CECEnable ==
  /\ session = "off" /\ session' = "start"
  /\ UNCHANGED <<listVars, current, ports, powerVars, cecVars, apiPc, removeVars, auxVars>>

\* The TV's own entry is filled in: powerState is read, then stored as its power status.
PollReadsPower ==
  /\ session = "start" /\ session' = power
  /\ UNCHANGED <<listVars, current, ports, powerVars, cecVars, apiPc, removeVars, auxVars>>

PollAllocated ==
  /\ session \in PowerModes /\ session' = "run"
  /\ status' = session
  /\ UNCHANGED <<listVars, current, ports, power, powerPc, cecVars, apiPc, removeVars, auxVars>>

\* After the join: the present devices are cleared, with the TV's own entry if the POLL
\* state has been reached, though neither the ports nor the source.
CECDisable ==
  /\ "disable" \in Stimuli /\ session \in {"start", "run"} /\ session' = "off"
  /\ present' = {} /\ located' = located \ present /\ active' = active \ present
  /\ status' = IF session = "run" THEN "ON" ELSE status
  /\ told' = "unseen"
  /\ UNCHANGED <<current, ports, power, powerPc, cecVars, apiPc, removeVars, announced>>
-----------------------------------------------------------------------------
\* What getActiveRoute reads from the port map for d; its conditions on the device
\* entry, left out here, only withhold a route.
RouteOf(d) ==
  IF \E p \in Ports : Behind(p, Addr[d])
    THEN Route(ports[CHOOSE p \in Ports : Behind(p, Addr[d])], Addr[d]) ELSE << >>

Next ==
  \/ Receiver \/ Api
  \/ \E d \in Devices : PollAdd(d)
  \/ \E r \in Removers : Remover(r)
  \/ PowerModeChanged \/ PowerStatus \/ PowerStandby
  \/ CECEnable \/ PollReadsPower \/ PollAllocated \/ CECDisable

Spec == Init /\ [][Next]_vars
-----------------------------------------------------------------------------
(* Properties *)

Tree == INSTANCE Topology WITH
  Nodes <- Nodes, Site <- Addr, RootOf <- Roots, Nobody <- Unregistered,
  occupant <- [n \in Nodes |-> Occupant(ports, n)]

\* The tables of the inputs, indexed by one digit of an address per level, behave like
\* one table of the positions of the tree, on a bus with distinct slots (HdmiPortMap):
\* no report or removal touches a position that is neither the device's own nor its root.
ImplementsTopology == Tree!Init /\ [][ports' # ports => Tree!Next]_ports

\* Nobody is flagged or current but on its own word: the last message of the device
\* that the TV heeded claimed the source, however claims of the TV, removals, standby and
\* sessions cross its frames.  A withdrawal that CECDisable overtakes is not heeded, and
\* its device may stay the source of the next session.
OnlyAnnouncedSources ==
  \A d \in Devices : (d \in active \/ (current = d /\ cecPc # "quit")) => d \in announced

\* A TV that knows it is in standby has been told to wake up by the device it takes for
\* its source, unless that device was off the list, or this session not set up, when the
\* handler looked: it sets the source before it looks at the power status, and the power
\* event stores the power status before it resets the source.
StandbySourceWakes ==
  power = "STANDBY" /\ status = "STANDBY" /\ powerPc = "idle" /\ cecPc = "idle"
    /\ current \in active => told \in {"woken", "unseen"}

\* Every device named in a route sits at that place of the tree of physical addresses,
\* whatever was removed, plugged and reported again, as long as no two addresses share
\* a place of the port's tables.
RouteLeadsThroughParents ==
  DistinctSlots =>
    \A d \in Devices : \A n \in DOMAIN RouteOf(d) :
      RouteOf(d)[n] # Unregistered => Addr[RouteOf(d)[n]] = Path(d)[n]

\* "Maintains complete HDMI topology with physical address mapping": once all devices
\* have reported their address, the route of each names every device that is on it.
RouteIsComplete ==
  cecPc = "idle" /\ located = Devices /\ present = Devices =>
    \A d \in Devices : \A n \in DOMAIN Path(d) :
      \A e \in Devices : Addr[e] = Path(d)[n] => \E m \in DOMAIN RouteOf(d) : RouteOf(d)[m] = e
=============================================================================
