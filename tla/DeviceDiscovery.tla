-------------------------- MODULE DeviceDiscovery ---------------------------
(***************************************************************************)
(* The device list of HdmiCecSinkImplementation and the threads that keep  *)
(* it: threadRun, which pings the bus and asks each new device for what is *)
(* missing, with a timeout and retries; libcec's receiver thread, whose    *)
(* frame handlers add devices and fill in what they report; hot plug and   *)
(* power events; CECEnable and CECDisable.                                 *)
(*                                                                         *)
(* deviceList, m_numberOfDevices and m_pollNextState have no lock: the test *)
(* in addDevice and removeDevice, what it guards, the scan for a device to *)
(* ask, the request, and the parts of clear() are steps of their own.  A   *)
(* frame's update of its item and of the retry count is one step.          *)
(***************************************************************************)
EXTENDS Integers, FiniteSets

CONSTANTS
  Devices,   \* logical addresses of the other devices
  Items,     \* what a device is asked for, of AllItems
  Reported,  \* those that devices report; the others are refused or left unanswered
  MaxRetry,  \* HDMICECSINK_REQUEST_MAX_RETRY, 3 in the code
  CountBound, \* bound of the model: m_numberOfDevices stays within -CountBound..CountBound
  Stimuli    \* what the environment does

AllItems == {"PHYSICAL_ADDRESS", "OSD_NAME", "CEC_VERSION", "VENDOR_ID", "POWER_STATUS"}

ASSUME DiscoveryAssumption ==
  /\ Devices \subseteq 0..14 /\ IsFiniteSet(Devices)
  /\ Items \subseteq AllItems /\ Reported \subseteq Items
  /\ MaxRetry \in Nat /\ CountBound \in Nat
  /\ Stimuli \subseteq {"appear", "abort", "plug", "hotplug", "power",
                        "disable", "no_address", "throw", "ping_error"}

\* The items whose request is repeated; the others get a default on the first timeout.
Retried == {"PHYSICAL_ADDRESS", "OSD_NAME"}

\* A device reports only its physical address without being able to refuse to.
Refusable == Items \ {"PHYSICAL_ADDRESS"}

NoItem   == "NONE"
NoDevice == 15  \* LogicalAddress::UNREGISTERED

NoFrame  == <<NoDevice, NoItem>>

PollStates == {"POLL", "PING", "INFO", "UPDATE", "IDLE", "EXIT"}

VARIABLES
  plugged,       \* devices that acknowledge a ping
  present,       \* m_isDevicePresent
  known,         \* the m_is...Updated flags of each device that are set
  requested,     \* m_isRequested
  retry,         \* m_isRequestRetry
  asked,         \* auxiliary: requests sent for the item a device is asked for, since
                 \* it became the next one, the entry was reset or the session began
  count,         \* m_numberOfDevices
  pollPc,        \* where threadRun is
  pollState,     \* m_pollThreadState
  pollNext,      \* m_pollNextState
  probe,         \* devices pingDevices has yet to ping
  connected,     \* its answers
  disconnected,
  current,       \* logicalAddressRequested
  cecPc, frame,  \* the receiver thread and the frame it handles
  plugPc, port,  \* onHdmiHotPlug and the device it removes
  powerPc,       \* onPowerModeChanged is about to call for a ping
  asleep,        \* devicePowerState is deep sleep
  control,       \* CEC is off, on, or CECDisable joins the poll thread or clears the list
  leaving,       \* entries that it has yet to look at
  allocated,     \* m_logicalAddressAllocated is not UNREGISTERED
  listening      \* the frame listener is attached to the connection

deviceVars == <<present, known, requested, retry, asked, count>>
infoVars   == <<known, requested, retry, asked>>
pingVars   == <<probe, connected, disconnected>>
pollVars   == <<pollPc, pollState, current>>
cecVars    == <<cecPc, frame>>
plugVars   == <<plugPc, port>>
powerVars  == <<powerPc, asleep>>
ctlVars    == <<control, leaving, allocated, listening>>
vars       == <<plugged, deviceVars, pollVars, pollNext, pingVars, cecVars, plugVars, powerVars, ctlVars>>

TypeOK ==
  /\ plugged \subseteq Devices /\ present \subseteq Devices
  /\ known \in [Devices -> SUBSET Items]
  /\ requested \in [Devices -> Items \cup {NoItem}]
  /\ retry \in [Devices -> 0..MaxRetry]
  /\ asked \in [Devices -> Nat]
  /\ count \in -CountBound..CountBound
  /\ pollPc \in {"off", "top", "clear", "run", "ping", "remove", "removeCommit", "removeClear",
                 "removeFlags", "add", "addCommit", "ask", "elapse"}
  /\ pollState \in PollStates \cup {"NONE"} /\ pollNext \in {"NONE", "PING", "INFO"}
  /\ probe \subseteq Devices /\ connected \subseteq Devices /\ disconnected \subseteq Devices
  /\ current \in Devices \cup {NoDevice}
  /\ cecPc \in {"idle", "check", "commit", "update"}
  /\ frame \in (Devices \X (Items \cup {NoItem})) \cup {NoFrame}
  /\ plugPc \in {"idle", "check", "commit", "clear", "flags", "ping"} /\ port \in Devices \cup {NoDevice}
  /\ powerPc \in {"idle", "ping"} /\ asleep \in BOOLEAN
  /\ control \in {"off", "on", "join", "clear", "flags"} /\ leaving \subseteq Devices
  /\ allocated \in BOOLEAN /\ listening \in BOOLEAN

\* A smallest element: the list is walked in ascending order of address.
Least(S) == CHOOSE n \in S : \A m \in S : n <= m

\* requestType: the first item that is missing, in this order.
Order == <<"PHYSICAL_ADDRESS", "OSD_NAME", "CEC_VERSION", "VENDOR_ID", "POWER_STATUS">>

FirstMissing(updated) ==
  LET missing == Items \ updated
  IN  IF missing = {} THEN NoItem ELSE Order[Least({n \in DOMAIN Order : Order[n] \in missing})]

NextItem(d) == FirstMissing(known[d])

\* Present and not isAllUpdated().
Incomplete == {d \in present : known[d] # Items}

\* Configure and CECEnable: a fresh list, the poll thread about to allocate an address.
Init ==
  /\ plugged \in SUBSET Devices /\ present = {}
  /\ known = [d \in Devices |-> {}] /\ requested = [d \in Devices |-> NoItem]
  /\ retry = [d \in Devices |-> 0] /\ asked = [d \in Devices |-> 0] /\ count = 0
  /\ pollPc = "off" /\ pollState = "NONE" /\ pollNext = "NONE" /\ current = NoDevice
  /\ probe = {} /\ connected = {} /\ disconnected = {}
  /\ cecPc = "idle" /\ frame = NoFrame
  /\ plugPc = "idle" /\ port = NoDevice
  /\ powerPc = "idle" /\ asleep \in BOOLEAN /\ (asleep => "power" \in Stimuli)
  /\ control = "off" /\ leaving = {} /\ allocated = FALSE /\ listening = FALSE

Up(n)   == IF n < CountBound THEN n + 1 ELSE n
Down(n) == IF n > -CountBound THEN n - 1 ELSE n

\* addDevice and removeDevice act after their test, in a step of their own.
Add(d) == present' = present \cup {d} /\ count' = Up(count) /\ pollNext' = "INFO"

\* The flags of an entry change: the requests are counted anew when the item it is
\* asked for is another one.
Describe(d, updated) ==
  /\ known' = [known EXCEPT ![d] = updated]
  /\ asked' = IF FirstMissing(updated) = NextItem(d) THEN asked ELSE [asked EXCEPT ![d] = 0]

\* update()
Learn(d, i) == Describe(d, known[d] \cup {i})

\* removeDevice takes the device off the count and resets its retries; m_isRequested stays.
Uncount(d) ==
  /\ count' = Down(count)
  /\ retry' = [retry EXCEPT ![d] = 0]
  /\ asked' = [asked EXCEPT ![d] = 0]
  /\ UNCHANGED <<present, known, requested>>

\* clear() first makes the entry free for the next addDevice ...
Unlist(d) ==
  /\ present' = present \ {d}
  /\ UNCHANGED <<infoVars, count>>

\* Mutation: clear() leaves the flags of the items.
BlankNothing(d) == UNCHANGED deviceVars

\* ... and then takes back the flags, those of that next device included.
Blank(d) ==
  /\ Describe(d, {})
  /\ UNCHANGED <<present, requested, retry, count>>
-----------------------------------------------------------------------------
(* threadRun *)

\* Mutation: in deep sleep the exit flag is not looked at.
PollTopDeaf ==
  /\ pollPc = "top" /\ ~asleep
  /\ \/ control = "join" /\ pollPc' = "off" /\ current' = NoDevice /\ UNCHANGED pollState
     \/ control # "join" /\ pollNext = "NONE"
        /\ pollPc' = "run" /\ UNCHANGED <<pollState, current>>
     \/ control # "join" /\ pollNext # "NONE"
        /\ pollPc' = "clear" /\ pollState' = pollNext /\ UNCHANGED current
  /\ UNCHANGED <<plugged, deviceVars, pollNext, pingVars, cecVars, plugVars, powerVars, ctlVars>>

\* At the top of the loop: leave, sleep on in deep sleep, or take what was called for.
PollTop ==
  /\ pollPc = "top"
  /\ \/ control = "join" /\ pollPc' = "off" /\ current' = NoDevice /\ UNCHANGED pollState
     \/ control # "join" /\ ~asleep /\ pollNext = "NONE"
        /\ pollPc' = "run" /\ UNCHANGED <<pollState, current>>
     \/ control # "join" /\ ~asleep /\ pollNext # "NONE"
        /\ pollPc' = "clear" /\ pollState' = pollNext /\ UNCHANGED current
  /\ UNCHANGED <<plugged, deviceVars, pollNext, pingVars, cecVars, plugVars, powerVars, ctlVars>>

PollClearNext ==
  /\ pollPc = "clear" /\ pollPc' = "run"
  /\ pollNext' = "NONE"
  /\ UNCHANGED <<plugged, deviceVars, current, pollState, pingVars, cecVars, plugVars, powerVars, ctlVars>>

\* POLL: an address for the TV, the frame listener, a count of zero.  An exception on
\* the way ends the thread and leaves what was done, the address included.
PollAllocate ==
  /\ pollPc = "run" /\ pollState = "POLL" /\ pollPc' = "top"
  /\ \/ /\ allocated' = TRUE /\ listening' = TRUE
        /\ count' = 0
        /\ pollState' = "PING"
     \/ /\ "no_address" \in Stimuli
        /\ allocated' = FALSE /\ pollState' = "EXIT"
        /\ UNCHANGED <<listening, count>>
     \/ /\ "throw" \in Stimuli
        /\ allocated' = TRUE /\ pollState' = "EXIT"
        /\ \/ UNCHANGED <<listening, count>>
           \/ count' = 0 /\ listening' \in {listening, TRUE}
  /\ UNCHANGED <<plugged, present, infoVars, current, pollNext, pingVars, cecVars, plugVars, powerVars, control, leaving>>

\* The loop over the addresses goes on, or the results are acted on.
AfterPing(rest) == IF rest = {} THEN "remove" ELSE "ping"

PollStartPing ==
  /\ pollPc = "run" /\ pollState = "PING"
  /\ pollState' = "INFO"
  /\ probe' = (IF allocated THEN Devices ELSE {}) /\ connected' = {} /\ disconnected' = {}
  /\ pollPc' = AfterPing(probe')
  /\ UNCHANGED <<plugged, deviceVars, current, pollNext, cecVars, plugVars, powerVars, ctlVars>>

\* Mutation: a ping without an acknowledgement is not noted.
PollPingOnlyNew ==
  /\ pollPc = "ping"
  /\ LET d == Least(probe) IN
       /\ probe' = probe \ {d}
       /\ connected' = IF d \in plugged /\ d \notin present THEN connected \cup {d} ELSE connected
  /\ pollPc' = AfterPing(probe')
  /\ UNCHANGED <<plugged, deviceVars, current, pollState, pollNext, disconnected, cecVars, plugVars, powerVars, ctlVars>>

\* pingDevices: one ping after the other, compared with the list at once.
PollPing ==
  /\ pollPc = "ping"
  /\ LET d == Least(probe) IN
       /\ probe' = probe \ {d}
       /\ connected' = IF d \in plugged /\ d \notin present THEN connected \cup {d} ELSE connected
       /\ disconnected' = IF d \notin plugged /\ d \in present THEN disconnected \cup {d} ELSE disconnected
  /\ pollPc' = AfterPing(probe')
  /\ UNCHANGED <<plugged, deviceVars, current, pollState, pollNext, cecVars, plugVars, powerVars, ctlVars>>

\* A ping that ends in another exception tells nothing of the device.
PollPingFails ==
  /\ "ping_error" \in Stimuli
  /\ pollPc = "ping"
  /\ probe' = probe \ {Least(probe)}
  /\ pollPc' = AfterPing(probe')
  /\ UNCHANGED <<plugged, deviceVars, current, pollState, pollNext, connected, disconnected, cecVars, plugVars, powerVars, ctlVars>>

PollRemoveTest ==
  /\ pollPc = "remove" /\ disconnected # {}
  /\ IF allocated /\ Least(disconnected) \in present
       THEN pollPc' = "removeCommit" /\ UNCHANGED disconnected
       ELSE disconnected' = disconnected \ {Least(disconnected)} /\ UNCHANGED pollPc
  /\ UNCHANGED <<plugged, deviceVars, current, pollState, pollNext, probe, connected, cecVars, plugVars, powerVars, ctlVars>>

PollRemove ==
  /\ disconnected # {}
  /\ LET d == Least(disconnected)
     IN  \/ /\ pollPc = "removeCommit" /\ pollPc' = "removeClear"
            /\ Uncount(d) /\ UNCHANGED disconnected
         \/ /\ pollPc = "removeClear" /\ pollPc' = "removeFlags"
            /\ Unlist(d) /\ UNCHANGED disconnected
         \/ /\ pollPc = "removeFlags" /\ pollPc' = "remove"
            /\ Blank(d) /\ disconnected' = disconnected \ {d}
  /\ UNCHANGED <<plugged, current, pollState, pollNext, probe, connected, cecVars, plugVars, powerVars, ctlVars>>

\* Nobody new: ask on where something is missing, else look at the power status.
PollNoneNew ==
  /\ pollPc = "remove" /\ disconnected = {} /\ connected = {} /\ pollPc' = "top"
  /\ pollNext' = IF Incomplete # {} THEN "INFO" ELSE pollNext
  /\ pollState' = "UPDATE"
  /\ UNCHANGED <<plugged, deviceVars, current, pingVars, cecVars, plugVars, powerVars, ctlVars>>

PollAddTest ==
  /\ \/ pollPc = "remove" /\ disconnected = {}
     \/ pollPc = "add"
  /\ connected # {}
  /\ IF allocated /\ Least(connected) \notin present
       THEN pollPc' = "addCommit" /\ UNCHANGED connected
       ELSE pollPc' = "add" /\ connected' = connected \ {Least(connected)}
  /\ UNCHANGED <<plugged, deviceVars, current, pollState, pollNext, probe, disconnected, cecVars, plugVars, powerVars, ctlVars>>

PollAdd ==
  /\ pollPc = "addCommit" /\ pollPc' = "add"
  /\ Add(Least(connected))
  /\ connected' = connected \ {Least(connected)}
  /\ UNCHANGED <<plugged, infoVars, current, pollState, probe, disconnected, cecVars, plugVars, powerVars, ctlVars>>

PollAdded ==
  /\ pollPc = "add" /\ connected = {} /\ pollPc' = "top"
  /\ pollState' = "INFO"
  /\ UNCHANGED <<plugged, deviceVars, current, pollNext, pingVars, cecVars, plugVars, powerVars, ctlVars>>

\* INFO with nobody asked: the first listed device that lacks something, or idle.
PollScan ==
  /\ pollPc = "run" /\ pollState = "INFO" /\ current = NoDevice
  /\ IF Incomplete = {}
       THEN pollPc' = "top" /\ pollState' = "IDLE" /\ UNCHANGED current
       ELSE pollPc' = "ask" /\ current' = Least(Incomplete) /\ UNCHANGED pollState
  /\ UNCHANGED <<plugged, deviceVars, pollNext, pingVars, cecVars, plugVars, powerVars, ctlVars>>

\* request() looks again at what is missing, but not at whether the device is listed.
PollRequest ==
  /\ pollPc = "ask" /\ pollPc' = "top"
  /\ IF allocated
       THEN /\ requested' = [requested EXCEPT ![current] = NextItem(current)]
            /\ asked' = IF NextItem(current) = NoItem THEN asked ELSE [asked EXCEPT ![current] = @ + 1]
       ELSE UNCHANGED <<requested, asked>>
  /\ UNCHANGED <<plugged, present, known, retry, count, current, pollState, pollNext, pingVars, cecVars, plugVars, powerVars, ctlVars>>

\* Mutation: the device that was asked is not let go when its request is done.
PollStatusHeld ==
  /\ pollPc = "run" /\ pollState = "INFO" /\ current # NoDevice
  /\ \/ ~allocated /\ pollPc' = "top" /\ UNCHANGED requested
     \/ /\ allocated /\ requested[current] \in known[current] \cup {NoItem}
        /\ requested' = [requested EXCEPT ![current] = NoItem]
        /\ pollPc' = "top"
     \/ /\ allocated /\ requested[current] \notin known[current] \cup {NoItem}
        /\ pollPc' = "elapse" /\ UNCHANGED requested
  /\ UNCHANGED <<plugged, present, known, retry, asked, count, current, pollState, pollNext, pingVars, cecVars, plugVars, powerVars, ctlVars>>

\* requestStatus: without an address nothing is looked at; answered; or not yet.
PollStatus ==
  /\ pollPc = "run" /\ pollState = "INFO" /\ current # NoDevice
  /\ \/ ~allocated /\ pollPc' = "top" /\ UNCHANGED <<requested, current>>
     \/ /\ allocated /\ requested[current] \in known[current] \cup {NoItem}
        /\ requested' = [requested EXCEPT ![current] = NoItem]
        /\ current' = NoDevice
        /\ pollPc' = "top"
     \/ /\ allocated /\ requested[current] \notin known[current] \cup {NoItem}
        /\ pollPc' = "elapse" /\ UNCHANGED <<requested, current>>
  /\ UNCHANGED <<plugged, present, known, retry, asked, count, pollState, pollNext, pingVars, cecVars, plugVars, powerVars, ctlVars>>

PollWaits ==
  /\ pollPc = "elapse" /\ pollPc' = "top"
  /\ UNCHANGED <<plugged, deviceVars, current, pollState, pollNext, pingVars, cecVars, plugVars, powerVars, ctlVars>>

\* Mutation: a retry does not count.
PollElapsedUncounted ==
  /\ pollPc = "elapse" /\ pollPc' = "top"
  /\ IF requested[current] \in Retried /\ retry[current] < MaxRetry
       THEN UNCHANGED <<known, asked>>
       ELSE Learn(current, requested[current])
  /\ requested' = [requested EXCEPT ![current] = NoItem]
  /\ current' = NoDevice
  /\ UNCHANGED <<plugged, present, retry, count, pollState, pollNext, pingVars, cecVars, plugVars, powerVars, ctlVars>>

\* Mutation: the count is kept when the default is set.
PollElapsedKept ==
  /\ pollPc = "elapse" /\ pollPc' = "top"
  /\ IF requested[current] \in Retried
       THEN retry' = [retry EXCEPT ![current] = @ + 1] ELSE UNCHANGED retry
  /\ IF requested[current] \in Retried /\ retry[current] < MaxRetry
       THEN UNCHANGED <<known, asked>>
       ELSE Learn(current, requested[current])
  /\ requested' = [requested EXCEPT ![current] = NoItem]
  /\ current' = NoDevice
  /\ UNCHANGED <<plugged, present, count, pollState, pollNext, pingVars, cecVars, plugVars, powerVars, ctlVars>>

\* The request is older than 2 s: count a retry, or give up and set a default.
PollElapsed ==
  /\ pollPc = "elapse" /\ pollPc' = "top"
  /\ LET d == current
         i == requested[current]
     IN  IF i \in Retried /\ retry[d] < MaxRetry
           THEN /\ retry' = [retry EXCEPT ![d] = @ + 1]
                /\ UNCHANGED <<known, asked>>
           ELSE /\ Learn(d, i)
                /\ retry' = IF i \in Retried THEN [retry EXCEPT ![d] = 0] ELSE retry
  /\ requested' = [requested EXCEPT ![current] = NoItem]
  /\ current' = NoDevice
  /\ UNCHANGED <<plugged, present, count, pollState, pollNext, pingVars, cecVars, plugVars, powerVars, ctlVars>>

\* UPDATE: a power status older than a minute is asked for again.
PollUpdate ==
  /\ pollPc = "run" /\ pollState = "UPDATE" /\ pollPc' = "top"
  /\ \E old \in SUBSET {d \in present : "POWER_STATUS" \in known[d]} :
       /\ known' = [d \in Devices |-> IF d \in old THEN known[d] \ {"POWER_STATUS"} ELSE known[d]]
       /\ pollNext' = IF old # {} THEN "INFO" ELSE pollNext
  /\ pollState' = "IDLE"
  /\ UNCHANGED <<plugged, present, requested, retry, asked, count, current, pingVars, cecVars, plugVars, powerVars, ctlVars>>

PollIdle ==
  /\ pollPc = "run" /\ pollState = "IDLE" /\ pollPc' = "top"
  /\ pollState' = "PING"
  /\ UNCHANGED <<plugged, deviceVars, current, pollNext, pingVars, cecVars, plugVars, powerVars, ctlVars>>

PollExit ==
  /\ pollPc = "run" /\ pollState = "EXIT" /\ pollPc' = "off"
  /\ current' = NoDevice
  /\ UNCHANGED <<plugged, deviceVars, pollState, pollNext, pingVars, cecVars, plugVars, powerVars, ctlVars>>

PollThread ==
  \/ PollTop \/ PollClearNext \/ PollAllocate
  \/ PollStartPing \/ PollPing \/ PollPingFails
  \/ PollRemoveTest \/ PollRemove \/ PollNoneNew
  \/ PollAddTest \/ PollAdd \/ PollAdded
  \/ PollScan \/ PollRequest \/ PollStatus \/ PollWaits \/ PollElapsed
  \/ PollUpdate \/ PollIdle \/ PollExit
-----------------------------------------------------------------------------
(* The receiver thread: reports, frames that only show a device, refusals. *)

ReceiveReport ==
  /\ cecPc = "idle" /\ listening /\ cecPc' = "check"
  /\ \E d \in plugged : \/ \E i \in Reported : frame' = <<d, i>>
                        \/ "appear" \in Stimuli /\ frame' = <<d, NoItem>>
  /\ UNCHANGED <<plugged, deviceVars, pollVars, pollNext, pingVars, plugVars, powerVars, ctlVars>>

FrameTest ==
  /\ cecPc = "check"
  /\ cecPc' = IF allocated /\ frame[1] \notin present THEN "commit" ELSE "update"
  /\ UNCHANGED <<plugged, deviceVars, pollVars, pollNext, pingVars, frame, plugVars, powerVars, ctlVars>>

FrameAdd ==
  /\ cecPc = "commit" /\ cecPc' = "update"
  /\ Add(frame[1])
  /\ UNCHANGED <<plugged, infoVars, pollVars, pingVars, frame, plugVars, powerVars, ctlVars>>

\* The retry count starts again when the answer meets its request.
FrameUpdate ==
  /\ cecPc = "update" /\ cecPc' = "idle" /\ frame' = NoFrame
  /\ LET d == frame[1]
         i == frame[2]
     IN  IF i = NoItem THEN UNCHANGED <<known, retry, asked>>
         ELSE /\ Learn(d, i)
              /\ retry' = IF i \in Retried /\ requested[d] = i THEN [retry EXCEPT ![d] = 0] ELSE retry
  /\ UNCHANGED <<plugged, present, requested, count, pollVars, pollNext, pingVars, plugVars, powerVars, ctlVars>>

\* FeatureAbort for an unrecognised request sets a default and adds nobody.
ReceiveAbort ==
  /\ "abort" \in Stimuli /\ cecPc = "idle" /\ listening
  /\ \E d \in plugged, i \in Refusable : Learn(d, i)
  /\ UNCHANGED <<plugged, present, requested, retry, count, pollVars, pollNext, pingVars, cecVars, plugVars, powerVars, ctlVars>>

Receiver == FrameTest \/ FrameAdd \/ FrameUpdate
-----------------------------------------------------------------------------
(* onHdmiHotPlug and onPowerModeChanged *)

HotPlug ==
  /\ "hotplug" \in Stimuli /\ plugPc = "idle"
  /\ \/ plugPc' = "ping" /\ UNCHANGED port
     \/ \E d \in Devices : plugPc' = "check" /\ port' = d
  /\ UNCHANGED <<plugged, deviceVars, pollVars, pollNext, pingVars, cecVars, powerVars, ctlVars>>

PortTest ==
  /\ plugPc = "check"
  /\ plugPc' = IF allocated /\ port \in present THEN "commit" ELSE "ping"
  /\ UNCHANGED <<plugged, deviceVars, pollVars, pollNext, pingVars, cecVars, port, powerVars, ctlVars>>

PortRemove ==
  /\ \/ plugPc = "commit" /\ plugPc' = "clear" /\ Uncount(port)
     \/ plugPc = "clear" /\ plugPc' = "flags" /\ Unlist(port)
     \/ plugPc = "flags" /\ plugPc' = "ping" /\ Blank(port)
  /\ UNCHANGED <<plugged, pollVars, pollNext, pingVars, cecVars, port, powerVars, ctlVars>>

PortPing ==
  /\ plugPc = "ping" /\ plugPc' = "idle" /\ port' = NoDevice
  /\ pollNext' = IF control = "on" THEN "PING" ELSE pollNext
  /\ UNCHANGED <<plugged, deviceVars, pollVars, pingVars, cecVars, powerVars, ctlVars>>

PowerModeChanged ==
  /\ "power" \in Stimuli /\ powerPc = "idle"
  /\ asleep' \in BOOLEAN /\ powerPc' = "ping"
  /\ UNCHANGED <<plugged, deviceVars, pollVars, pollNext, pingVars, cecVars, plugVars, ctlVars>>

PowerPing ==
  /\ powerPc = "ping" /\ powerPc' = "idle"
  /\ pollNext' = IF control = "on" /\ allocated THEN "PING" ELSE pollNext
  /\ UNCHANGED <<plugged, deviceVars, pollVars, pingVars, cecVars, plugVars, asleep, ctlVars>>
-----------------------------------------------------------------------------
(* CECEnable and CECDisable, which m_enableMutex keeps apart *)

CECEnable ==
  /\ control = "off"
  /\ control' = "on"
  /\ allocated' \in IF "no_address" \in Stimuli THEN BOOLEAN ELSE {TRUE}
  /\ pollPc' = "top" /\ pollState' = "POLL" /\ pollNext' = "NONE"
  /\ UNCHANGED <<plugged, deviceVars, current, pingVars, cecVars, plugVars, powerVars, leaving, listening>>

\* open() or addLogicalAddress() throws: no thread, no status, perhaps an address.
CECEnableFails ==
  /\ "throw" \in Stimuli /\ control = "off"
  /\ allocated' \in {allocated, TRUE}
  /\ UNCHANGED <<plugged, deviceVars, pollVars, pollNext, pingVars, cecVars, plugVars, powerVars, control, leaving, listening>>

CECDisable ==
  /\ "disable" \in Stimuli /\ control = "on"
  /\ control' = "join"
  /\ UNCHANGED <<plugged, deviceVars, pollVars, pollNext, pingVars, cecVars, plugVars, powerVars, leaving, allocated, listening>>

\* After the join the connection and the address go.  The thread's requests end with it.
DisableReset ==
  /\ control = "join" /\ pollPc = "off"
  /\ control' = "clear" /\ leaving' = Devices
  /\ allocated' = FALSE /\ listening' = FALSE
  /\ pollState' = "NONE" /\ pollNext' = "NONE"
  /\ asked' = [d \in Devices |-> 0]
  /\ UNCHANGED <<plugged, present, known, requested, retry, count, pollPc, current, pingVars, cecVars, plugVars, powerVars>>

\* Every device that is present is cleared, though neither its request, nor its retry
\* count, nor the number of devices.
DisableClear ==
  /\ control = "clear" /\ leaving # {}
  /\ LET d == Least(leaving)
     IN  IF d \in present
           THEN control' = "flags" /\ Unlist(d) /\ UNCHANGED leaving
           ELSE leaving' = leaving \ {d} /\ UNCHANGED <<deviceVars, control>>
  /\ UNCHANGED <<plugged, pollVars, pollNext, pingVars, cecVars, plugVars, powerVars, allocated, listening>>

DisableFlags ==
  /\ control = "flags" /\ control' = "clear"
  /\ Blank(Least(leaving))
  /\ leaving' = leaving \ {Least(leaving)}
  /\ UNCHANGED <<plugged, pollVars, pollNext, pingVars, cecVars, plugVars, powerVars, allocated, listening>>

DisableDone ==
  /\ control = "clear" /\ leaving = {} /\ control' = "off"
  /\ UNCHANGED <<plugged, deviceVars, pollVars, pollNext, pingVars, cecVars, plugVars, powerVars, leaving, allocated, listening>>

CECDisabled == DisableReset \/ DisableClear \/ DisableFlags \/ DisableDone

\* Devices come and go on the bus.
Replug ==
  /\ "plug" \in Stimuli
  /\ plugged' \in {plugged \cup {d} : d \in Devices} \cup {plugged \ {d} : d \in Devices}
  /\ UNCHANGED <<deviceVars, pollVars, pollNext, pingVars, cecVars, plugVars, powerVars, ctlVars>>
-----------------------------------------------------------------------------
Environment ==
  \/ ReceiveReport \/ ReceiveAbort \/ HotPlug \/ PowerModeChanged
  \/ CECEnable \/ CECEnableFails \/ CECDisable \/ Replug

Events == PortTest \/ PortRemove \/ PortPing

Next == PollThread \/ Receiver \/ Events \/ PowerPing \/ CECDisabled \/ Environment

\* A thread that can go on does; a request that stays without an answer is in the end
\* older than its limit; and a device that is pinged again and again is not met by
\* another exception each time.
Fairness ==
  /\ WF_vars(PollThread) /\ SF_vars(PollElapsed)
  /\ \A d \in Devices : SF_vars(pollPc = "ping" /\ d = Least(probe) /\ PollPing)
  /\ WF_vars(Receiver) /\ WF_vars(Events) /\ WF_vars(PowerPing) /\ WF_vars(CECDisabled)

Spec == Init /\ [][Next]_vars
FairSpec == Spec /\ Fairness
-----------------------------------------------------------------------------
(* Properties *)

\* However answers, timeouts, removals and sessions cross, a device is asked for the
\* same item at most once more than the retries allow before the item is settled, or
\* the entry or the session begins anew.
RequestsBounded == \A d \in Devices : asked[d] <= MaxRetry + 1

\* clear() has made the entry free and is about to take back its flags.
Clearing(d) ==
  \/ pollPc = "removeFlags" /\ d = Least(disconnected)
  \/ plugPc = "flags" /\ d = port
  \/ control = "flags" /\ d = Least(leaving)

\* The entry of an address where no device is holds what some device reported.
FilledWhileAbsent(d) == d \notin present /\ known[d] # {} /\ ~Clearing(d)

\* The entry of a device that has left, or whose session has ended, does not describe
\* the next device at its address, whatever removals on two threads, re-adding and
\* sessions cross: an absent device's entry is filled only by a refusal, which adds
\* nobody, or by the report or the timeout of that very device, when it was removed
\* meanwhile or the TV has no address.
OnlyLateStepsFillAbsent ==
  [][\A d \in Devices : ~FilledWhileAbsent(d) /\ FilledWhileAbsent(d)' =>
       \/ ReceiveAbort
       \/ FrameUpdate /\ frame[1] = d
       \/ PollElapsed /\ current = d]_vars

\* CEC runs awake with an address and its poll thread, and no event but frames comes in.
Calm ==
  /\ control = "on" /\ allocated /\ pollPc # "off"
  /\ ~asleep /\ plugPc = "idle" /\ powerPc = "idle"

Described(d) == d \in present /\ known[d] = Items

\* A device that stays on the bus is in the list, with every item settled, again and
\* again: whether it answers or not, and whatever was under way when it came.
Discovery == \A d \in Devices : <>[](Calm /\ d \in plugged) => []<>Described(d)

\* A device that stays away, so that its pings are in the end not acknowledged, leaves
\* the list for good.
StaleIsRemoved == \A d \in Devices : <>[](Calm /\ d \notin plugged) => <>[](d \notin present)

\* CECDisable's join of the poll thread ends, in deep sleep and after the thread has
\* left by itself too.
JoinCompletes == control = "join" ~> control = "off"

\* "Number of connected devices othethan own device", when nobody is changing the list.
CountIsRight ==
  listening /\ cecPc # "update" /\ plugPc = "idle" /\ pollPc \in {"top", "run"}
    => count = Cardinality(present)

\* "Monitors incoming CEC frames via FrameListener": the listener is attached soon
\* after CEC is enabled.
ListensOnceAwake == <>[](Calm) => <>listening
=============================================================================
