------------------------ MODULE DeviceDiscoveryProofs ------------------------
(***************************************************************************)
(* Theorems about DeviceDiscovery for any set of devices, any items, any   *)
(* number of retries and any stimuli.                                      *)
(***************************************************************************)
EXTENDS DeviceDiscovery, TLAPS, WellFoundedInduction
-----------------------------------------------------------------------------
(* The order in which devices are served and items asked for *)

LEMMA LeastOfNats ==
  ASSUME NEW S \in SUBSET Nat, S # {}
  PROVE  Least(S) \in S /\ \A m \in S : Least(S) <= m
  <1> DEFINE less == {ss \in Nat \X Nat : ss[1] < ss[2]}
  <1>1. IsWellFoundedOn(less, Nat)
    BY NatLessThanWellFounded, Zenon DEF OpToRel
  <1>2. \A m, n \in Nat : m < n => <<m, n>> \in less
    OBVIOUS
  <1> HIDE DEF less
  <1>3. PICK n \in S : \A m \in S : ~(<<m, n>> \in less)
    BY <1>1, WFMin
  <1>4. ASSUME NEW m \in S PROVE n <= m
    <2>1. m \in Nat /\ n \in Nat
      OBVIOUS
    <2>2. ~(m < n)
      BY <1>2, <1>3, <2>1
    <2>3. QED
      BY <2>1, <2>2
  <1>5. QED
    BY <1>4 DEF Least

LEMMA LeastDevice ==
  ASSUME NEW S \in SUBSET Devices, S # {}
  PROVE  Least(S) \in S
  BY LeastOfNats, DiscoveryAssumption

\* requestType names the first missing item: the ones before it are not missing.
LEMMA FirstOfMissing ==
  ASSUME NEW updated, Items \ updated # {}
  PROVE  \E n \in 1..5 : /\ FirstMissing(updated) = Order[n] /\ Order[n] \in Items \ updated
                         /\ \A m \in 1..5 : Order[m] \in Items \ updated => n <= m
  <1> DEFINE places == {n \in DOMAIN Order : Order[n] \in Items \ updated}
  <1>1. DOMAIN Order = 1..5 /\ AllItems = {Order[n] : n \in 1..5}
    BY DEF Order, AllItems
  <1>2. places # {} /\ places \in SUBSET Nat
    BY <1>1, DiscoveryAssumption
  <1>3. Least(places) \in places /\ \A m \in places : Least(places) <= m
    BY <1>2, LeastOfNats
  <1>4. FirstMissing(updated) = Order[Least(places)]
    BY DEF FirstMissing
  <1>5. QED
    BY <1>1, <1>3, <1>4

LEMMA NextItemMissing ==
  ASSUME NEW d, NextItem(d) # NoItem
  PROVE  NextItem(d) \in Items \ known[d]
  <1>1. Items \ known[d] # {}
    BY DEF NextItem, FirstMissing
  <1>2. QED
    BY <1>1, FirstOfMissing DEF NextItem
-----------------------------------------------------------------------------
(* Types *)

\* What a thread has tested or chosen is there when its next step uses it.
Places ==
  /\ pollPc = "ping" => probe # {}
  /\ pollPc \in {"removeCommit", "removeClear", "removeFlags"} => disconnected # {}
  /\ pollPc = "addCommit" => connected # {}
  /\ pollPc = "ask" => current \in Devices
  /\ pollPc = "elapse" => current \in Devices /\ requested[current] \in Items
  /\ cecPc # "idle" => frame \in Devices \X (Items \cup {NoItem})
  /\ plugPc \in {"check", "commit", "clear", "flags"} => port \in Devices
  /\ control = "flags" => leaving # {}
  /\ control \in {"off", "clear", "flags"} => pollPc = "off"

TypeInv == TypeOK /\ Places

\* The flags of one entry change.
LEMMA DescribeTyped ==
  ASSUME TypeOK, NEW d \in Devices, NEW updated \in SUBSET Items, Describe(d, updated)
  PROVE  known' \in [Devices -> SUBSET Items] /\ asked' \in [Devices -> Nat]
  BY DEF TypeOK, Describe

LEMMA LearnTyped ==
  ASSUME TypeOK, NEW d \in Devices, NEW i \in Items, Learn(d, i)
  PROVE  known' \in [Devices -> SUBSET Items] /\ asked' \in [Devices -> Nat]
  <1>1. known[d] \cup {i} \in SUBSET Items
    BY DEF TypeOK
  <1>2. QED
    BY <1>1, DescribeTyped DEF Learn

\* Each part of removeDevice keeps the types of the entries.
LEMMA RemoveTyped ==
  ASSUME TypeOK, NEW d \in Devices, Uncount(d) \/ Unlist(d) \/ Blank(d)
  PROVE  /\ present' \subseteq Devices /\ known' \in [Devices -> SUBSET Items]
         /\ requested' = requested /\ retry' \in [Devices -> 0..MaxRetry]
         /\ asked' \in [Devices -> Nat] /\ count' \in -CountBound..CountBound
  <1>1. CASE Uncount(d)
    BY <1>1, DiscoveryAssumption DEF TypeOK, Uncount, Down
  <1>2. CASE Unlist(d)
    BY <1>2 DEF TypeOK, Unlist, infoVars
  <1>3. CASE Blank(d)
    <2>1. {} \in SUBSET Items
      OBVIOUS
    <2>2. known' \in [Devices -> SUBSET Items] /\ asked' \in [Devices -> Nat]
      BY <1>3, <2>1, DescribeTyped DEF Blank
    <2>3. QED
      BY <1>3, <2>2 DEF TypeOK, Blank
  <1>4. QED
    BY <1>1, <1>2, <1>3

LEMMA AddTyped ==
  ASSUME TypeOK, NEW d \in Devices, Add(d)
  PROVE  /\ present' \subseteq Devices /\ count' \in -CountBound..CountBound
         /\ pollNext' = "INFO"
  BY DiscoveryAssumption DEF TypeOK, Add, Up

\* The poll thread's steps outside of INFO keep the types.
LEMMA PingTyped ==
  ASSUME TypeInv,
         \/ PollTop \/ PollClearNext \/ PollAllocate
         \/ PollStartPing \/ PollPing \/ PollPingFails \/ PollRemoveTest \/ PollRemove \/ PollNoneNew
         \/ PollAddTest \/ PollAdd \/ PollAdded \/ PollUpdate \/ PollIdle \/ PollExit
  PROVE  TypeInv'
  <1> USE DEF TypeInv, TypeOK, Places, deviceVars, infoVars, pingVars, pollVars, cecVars,
          plugVars, powerVars, ctlVars, PollStates
  <1>1. CASE PollTop \/ PollClearNext \/ PollNoneNew \/ PollAdded
    BY <1>1 DEF PollTop, PollClearNext, PollNoneNew, PollAdded
  <1>2. CASE PollIdle \/ PollExit \/ PollAllocate \/ PollStartPing
    <2>1. CASE PollIdle
      BY <2>1 DEF PollIdle
    <2>3. CASE PollExit
      <3>1. pollPc' = "off" /\ current' = NoDevice /\ pollPc = "run"
            /\ UNCHANGED <<plugged, deviceVars, pollState, pollNext, pingVars, cecVars, plugVars,
                           powerVars, ctlVars>>
        BY <2>3 DEF PollExit
      <3>2. QED
        BY <3>1
    <2>4. CASE PollStartPing
      <3>1. pollPc' = IF probe' = {} THEN "remove" ELSE "ping"
        BY <2>4 DEF PollStartPing, AfterPing
      <3>2. probe' \subseteq Devices /\ connected' = {} /\ disconnected' = {} /\ pollState' = "INFO"
            /\ pollPc = "run"
            /\ UNCHANGED <<plugged, deviceVars, current, pollNext, cecVars, plugVars, powerVars, ctlVars>>
        BY <2>4 DEF PollStartPing
      <3>3. QED
        BY <3>1, <3>2
    <2>2. CASE PollAllocate
      <3>1. count' \in -CountBound..CountBound
        <4>1. count' = count \/ count' = 0
          BY <2>2 DEF PollAllocate
        <4>2. QED
          BY <4>1, DiscoveryAssumption
      <3>2. allocated' \in BOOLEAN /\ listening' \in BOOLEAN /\ control' = control
            /\ leaving' = leaving /\ control \notin {"off", "clear", "flags"}
        BY <2>2 DEF PollAllocate
      <3>3. pollState' \in PollStates /\ pollPc' = "top"
        BY <2>2 DEF PollAllocate
      <3>4. UNCHANGED <<plugged, present, infoVars, current, pollNext, pingVars, cecVars,
                        plugVars, powerVars>>
        BY <2>2 DEF PollAllocate
      <3>5. QED
        BY <3>1, <3>2, <3>3, <3>4
    <2>5. QED
      BY <1>2, <2>1, <2>2, <2>3, <2>4
  <1>3. CASE PollPing \/ PollPingFails
    <2>1. /\ probe' \subseteq Devices /\ connected' \subseteq Devices /\ disconnected' \subseteq Devices
          /\ pollPc' = AfterPing(probe') /\ pollPc = "ping"
      <3>1. Least(probe) \in Devices
        BY <1>3, LeastDevice DEF PollPing, PollPingFails
      <3>2. CASE PollPing
        BY <3>1, <3>2 DEF PollPing
      <3>3. CASE PollPingFails
        BY <3>1, <3>3 DEF PollPingFails
      <3> QED BY <1>3, <3>2, <3>3
    <2>2. UNCHANGED <<plugged, deviceVars, current, pollState, pollNext, cecVars, plugVars, powerVars, ctlVars>>
      BY <1>3 DEF PollPing, PollPingFails
    <2>3. QED
      BY <2>1, <2>2 DEF AfterPing
  <1>4. CASE PollRemoveTest
    BY <1>4 DEF PollRemoveTest
  <1>5. CASE PollRemove
    <2>1. Least(disconnected) \in Devices
      BY <1>5, LeastDevice DEF PollRemove
    <2>2. Uncount(Least(disconnected)) \/ Unlist(Least(disconnected)) \/ Blank(Least(disconnected))
      BY <1>5 DEF PollRemove
    <2>3. /\ pollPc' \in {"removeClear", "removeFlags", "remove"}
          /\ disconnected' \subseteq Devices /\ (pollPc' # "remove" => disconnected' = disconnected)
          /\ disconnected # {} /\ pollPc \in {"removeCommit", "removeClear", "removeFlags"}
          /\ UNCHANGED <<plugged, current, pollState, pollNext, probe, connected, cecVars, plugVars,
                         powerVars, ctlVars>>
      BY <1>5 DEF PollRemove
    <2>4. QED
      BY <2>1, <2>2, <2>3, RemoveTyped
  <1>6. CASE PollAddTest
    BY <1>6 DEF PollAddTest
  <1>7. CASE PollAdd
    <2>1. Least(connected) \in Devices
      BY <1>7, LeastDevice DEF PollAdd
    <2>2. QED
      BY <1>7, <2>1, AddTyped DEF PollAdd
  <1>8. CASE PollUpdate
    BY <1>8 DEF PollUpdate
  <1>9. QED
    BY <1>1, <1>2, <1>3, <1>4, <1>5, <1>6, <1>7, <1>8

\* request and requestStatus keep the types.
LEMMA RequestTyped ==
  ASSUME TypeInv, PollScan \/ PollRequest \/ PollStatus \/ PollWaits \/ PollElapsed
  PROVE  TypeInv'
  <1> USE DEF TypeInv, TypeOK, Places, deviceVars, infoVars, pingVars, pollVars, cecVars,
          plugVars, powerVars, ctlVars
  <1>0. CASE PollScan
    <2>1. CASE Incomplete = {}
      BY <1>0, <2>1 DEF PollScan, PollStates
    <2>2. CASE Incomplete # {}
      <3>1. Least(Incomplete) \in Devices
        BY <2>2, LeastDevice DEF Incomplete
      <3>2. QED
        BY <1>0, <2>2, <3>1 DEF PollScan
    <2>3. QED
      BY <2>1, <2>2
  <1>1. CASE PollRequest
    <2>1. current \in Devices /\ NextItem(current) \in Items \cup {NoItem}
      BY <1>1, NextItemMissing DEF PollRequest
    <2>2. /\ requested' \in [Devices -> Items \cup {NoItem}]
          /\ asked' \in [Devices -> Nat]
      BY <1>1, <2>1 DEF PollRequest
    <2>3. QED
      BY <1>1, <2>2 DEF PollRequest
  <1>2. CASE PollStatus
    <2>1. CASE ~allocated
      BY <1>2, <2>1 DEF PollStatus
    <2>2. CASE allocated
      BY <1>2, <2>2, DiscoveryAssumption DEF PollStatus, NoDevice
    <2>3. QED
      BY <2>1, <2>2
  <1>3. CASE PollWaits
    BY <1>3 DEF PollWaits
  <1>4. CASE PollElapsed
    <2>1. current \in Devices /\ requested[current] \in Items
      BY <1>4 DEF PollElapsed
    <2>2. known' \in [Devices -> SUBSET Items] /\ asked' \in [Devices -> Nat]
      BY <1>4, <2>1, LearnTyped DEF PollElapsed
    <2>3. retry' \in [Devices -> 0..MaxRetry]
      BY <1>4, <2>1, DiscoveryAssumption DEF PollElapsed
    <2>4. requested' \in [Devices -> Items \cup {NoItem}] /\ current' = NoDevice /\ pollPc' = "top"
      BY <1>4, <2>1 DEF PollElapsed
    <2>5. QED
      BY <1>4, <2>2, <2>3, <2>4 DEF PollElapsed
  <1>5. QED
    BY <1>0, <1>1, <1>2, <1>3, <1>4

\* Frames and refusals keep the types.
LEMMA FramesTyped ==
  ASSUME TypeInv, Receiver \/ ReceiveReport \/ ReceiveAbort
  PROVE  TypeInv'
  <1> USE DEF TypeInv, TypeOK, Places, deviceVars, infoVars, pingVars, pollVars, cecVars,
          plugVars, powerVars, ctlVars
  <1>1. CASE ReceiveReport
    BY <1>1, DiscoveryAssumption DEF ReceiveReport
  <1>2. CASE ReceiveAbort
    <2>1. PICK d \in plugged, i \in Items : Learn(d, i)
      BY <1>2 DEF ReceiveAbort, Refusable
    <2>2. QED
      BY <1>2, <2>1, LearnTyped DEF ReceiveAbort
  <1>3. CASE FrameTest
    BY <1>3 DEF FrameTest
  <1>4. CASE FrameAdd \/ FrameUpdate
    <2>1. frame[1] \in Devices /\ frame[2] \in Items \cup {NoItem}
      BY <1>4 DEF FrameAdd, FrameUpdate
    <2>2. CASE FrameAdd
      BY <2>1, <2>2, AddTyped DEF FrameAdd
    <2>3. CASE FrameUpdate
      <3>1. known' \in [Devices -> SUBSET Items] /\ asked' \in [Devices -> Nat]
        BY <2>1, <2>3, LearnTyped DEF FrameUpdate
      <3>2. retry' = retry \/ retry' = [retry EXCEPT ![frame[1]] = 0]
        BY <2>3 DEF FrameUpdate
      <3>3. retry' \in [Devices -> 0..MaxRetry]
        BY <3>2, DiscoveryAssumption
      <3>4. QED
        BY <2>3, <3>1, <3>3 DEF FrameUpdate
    <2>4. QED
      BY <1>4, <2>2, <2>3
  <1>5. QED
    BY <1>1, <1>2, <1>3, <1>4 DEF Receiver

\* Events and sessions keep the types.
LEMMA EventsTyped ==
  ASSUME TypeInv,
         \/ Events \/ PowerPing \/ CECDisabled
         \/ HotPlug \/ PowerModeChanged \/ CECEnable \/ CECEnableFails \/ CECDisable \/ Replug
  PROVE  TypeInv'
  <1> USE DEF TypeInv, TypeOK, Places, deviceVars, infoVars, pingVars, pollVars, cecVars,
          plugVars, powerVars, ctlVars
  <1>1. CASE PortTest \/ PortPing \/ PowerPing \/ HotPlug \/ PowerModeChanged
    BY <1>1 DEF PortTest, PortPing, PowerPing, HotPlug, PowerModeChanged
  <1>2. CASE PortRemove
    <2>1. port \in Devices
      BY <1>2 DEF PortRemove
    <2>2. Uncount(port) \/ Unlist(port) \/ Blank(port)
      BY <1>2 DEF PortRemove
    <2>3. /\ plugPc' \in {"clear", "flags", "ping"}
          /\ UNCHANGED <<plugged, pollVars, pollNext, pingVars, cecVars, port, powerVars, ctlVars>>
      BY <1>2 DEF PortRemove
    <2>4. QED
      BY <2>1, <2>2, <2>3, RemoveTyped
  <1>3. CASE CECEnable \/ CECEnableFails \/ CECDisable
    <2>1. CASE CECEnable
      <3>1. allocated' \in BOOLEAN /\ control' = "on" /\ pollPc' = "top" /\ pollState' = "POLL"
            /\ pollNext' = "NONE"
        BY <2>1 DEF CECEnable
      <3>2. UNCHANGED <<plugged, deviceVars, current, pingVars, cecVars, plugVars, powerVars, leaving, listening>>
        BY <2>1 DEF CECEnable
      <3>3. QED
        BY <3>1, <3>2 DEF PollStates
    <2>2. CASE CECEnableFails
      <3>1. allocated' \in BOOLEAN
        BY <2>2 DEF CECEnableFails
      <3>2. QED
        BY <2>2, <3>1 DEF CECEnableFails
    <2>3. CASE CECDisable
      BY <2>3 DEF CECDisable
    <2>4. QED
      BY <1>3, <2>1, <2>2, <2>3
  <1>4. CASE CECDisabled
    <2>1. CASE DisableReset
      <3>1. asked' \in [Devices -> Nat]
        BY <2>1 DEF DisableReset
      <3>2. QED
        BY <2>1, <3>1 DEF DisableReset
    <2>2. CASE DisableClear
      <3>1. Least(leaving) \in Devices
        BY <2>2, LeastDevice DEF DisableClear
      <3>2. CASE Least(leaving) \in present
        <4>1. Unlist(Least(leaving)) /\ control' = "flags" /\ leaving' = leaving /\ leaving # {}
          BY <2>2, <3>2 DEF DisableClear
        <4>2. QED
          BY <2>2, <3>1, <4>1, RemoveTyped DEF DisableClear
      <3>3. CASE Least(leaving) \notin present
        BY <2>2, <3>3 DEF DisableClear
      <3>4. QED
        BY <3>2, <3>3
    <2>3. CASE DisableFlags
      <3>1. Least(leaving) \in Devices
        BY <2>3, LeastDevice DEF DisableFlags
      <3>2. QED
        BY <2>3, <3>1, RemoveTyped DEF DisableFlags
    <2>4. CASE DisableDone
      BY <2>4 DEF DisableDone
    <2>5. QED
      BY <1>4, <2>1, <2>2, <2>3, <2>4 DEF CECDisabled
  <1>5. CASE Replug
    BY <1>5 DEF Replug
  <1>6. QED
    BY <1>1, <1>2, <1>3, <1>4, <1>5 DEF Events

LEMMA TypeStep == TypeInv /\ [Next]_vars => TypeInv'
  <1> SUFFICES ASSUME TypeInv, [Next]_vars PROVE TypeInv'
    OBVIOUS
  <1>1. CASE Next
    BY <1>1, PingTyped, RequestTyped, FramesTyped, EventsTyped DEF Next, PollThread, Environment
  <1>2. CASE UNCHANGED vars
    BY <1>2 DEF TypeInv, TypeOK, Places, vars, deviceVars, infoVars, pingVars, pollVars,
       cecVars, plugVars, powerVars, ctlVars
  <1>3. QED
    BY <1>1, <1>2

LEMMA TypeInvariant == Spec => []TypeInv
  <1>1. Init => TypeInv
    <2> SUFFICES ASSUME Init PROVE TypeInv
      OBVIOUS
    <2>1. count \in -CountBound..CountBound /\ retry \in [Devices -> 0..MaxRetry]
      BY DiscoveryAssumption DEF Init
    <2>2. asleep \in BOOLEAN /\ allocated \in BOOLEAN /\ listening \in BOOLEAN
          /\ leaving \subseteq Devices
      BY DEF Init
    <2>3. QED
      BY <2>1, <2>2 DEF Init, TypeInv, TypeOK, Places
  <1>2. QED
    BY <1>1, TypeStep, PTL DEF Spec

\* Every field keeps its type: the retry count stays within its maximum and no thread
\* chooses from an empty list (pingDevices, requestStatus, onHdmiHotPlug).
THEOREM DiscoveryTypeCorrect == Spec => []TypeOK
  <1>1. TypeInv => TypeOK
    BY DEF TypeInv
  <1>2. QED
    BY <1>1, TypeInvariant, PTL
-----------------------------------------------------------------------------
(* How often a device is asked *)

\* An answer to another item than the one a device is asked for does not change the latter.
LEMMA FirstKept ==
  ASSUME NEW updated, NEW i, i # FirstMissing(updated)
  PROVE  FirstMissing(updated \cup {i}) = FirstMissing(updated)
  <1>1. CASE Items \ updated = {}
    BY <1>1 DEF FirstMissing
  <1>2. CASE Items \ updated # {}
    <2>1. PICK n \in 1..5 : /\ FirstMissing(updated) = Order[n] /\ Order[n] \in Items \ updated
                            /\ \A m \in 1..5 : Order[m] \in Items \ updated => n <= m
      BY <1>2, FirstOfMissing
    <2>2. Order[n] \in Items \ (updated \cup {i})
      BY <2>1
    <2>3. PICK k \in 1..5 : /\ FirstMissing(updated \cup {i}) = Order[k]
                            /\ Order[k] \in Items \ (updated \cup {i})
                            /\ \A m \in 1..5 : Order[m] \in Items \ (updated \cup {i}) => k <= m
      BY <2>2, FirstOfMissing
    <2>4. n = k
      BY <2>1, <2>2, <2>3
    <2>5. QED
      BY <2>1, <2>3, <2>4
  <1>3. QED
    BY <1>1, <1>2

\* The power status is the last item: asking for it again does not overtake another.
LEMMA FirstStays ==
  ASSUME NEW updated, FirstMissing(updated) # NoItem
  PROVE  FirstMissing(updated \ {"POWER_STATUS"}) = FirstMissing(updated)
  <1>1. Items \ updated # {}
    BY DEF FirstMissing
  <1>2. PICK n \in 1..5 : /\ FirstMissing(updated) = Order[n] /\ Order[n] \in Items \ updated
                          /\ \A m \in 1..5 : Order[m] \in Items \ updated => n <= m
    BY <1>1, FirstOfMissing
  <1> DEFINE again == updated \ {"POWER_STATUS"}
  <1>3. Order[n] \in Items \ again
    BY <1>2
  <1>4. PICK k \in 1..5 : /\ FirstMissing(again) = Order[k] /\ Order[k] \in Items \ again
                          /\ \A m \in 1..5 : Order[m] \in Items \ again => k <= m
    BY <1>3, FirstOfMissing
  <1>5. k <= n
    BY <1>3, <1>4
  <1>6. CASE Order[k] = "POWER_STATUS"
    <2>1. k = 5
      BY <1>6 DEF Order
    <2>2. QED
      BY <1>2, <1>4, <1>5, <2>1
  <1>7. CASE Order[k] # "POWER_STATUS"
    <2>1. n <= k
      BY <1>2, <1>4, <1>7
    <2>2. QED
      BY <1>2, <1>4, <1>5, <2>1
  <1>8. QED
    BY <1>6, <1>7

\* Every request but the one that is under way was answered by a retry being counted;
\* requests are counted for the first missing item only, and within a session.
Slack(d) == pollPc = "off" \/ (d = current /\ pollPc # "ask" /\ requested[d] # NoItem)

AskedOf(d) ==
  /\ asked[d] <= retry[d] + (IF Slack(d) THEN 1 ELSE 0)
  /\ asked[d] # 0 => requested[d] \in {NextItem(d), NoItem} /\ NextItem(d) # NoItem
  /\ control \in {"off", "clear", "flags"} => asked[d] = 0

AskedInv == \A d \in Devices : AskedOf(d)

\* Nothing is counted: whatever is under way, the bound holds.
LEMMA UnaskedHolds ==
  ASSUME NEW d \in Devices, asked'[d] = 0, retry'[d] \in Nat
  PROVE  AskedOf(d)'
  BY DEF AskedOf

\* Steps that neither ask, nor learn, nor count a retry.
LEMMA OthersKeepAsked ==
  ASSUME AskedInv, UNCHANGED <<known, requested, retry, asked>>,
         control' \in {"off", "clear", "flags"} => control \in {"off", "clear", "flags"},
         pollPc' = "off" \/ (UNCHANGED current /\ pollPc # "off" /\ (pollPc' = "ask" => pollPc = "ask"))
                         \/ UNCHANGED <<pollPc, current>>,
         TypeOK
  PROVE  AskedInv'
  <1>1. ASSUME NEW d \in Devices PROVE AskedOf(d)'
    <2>1. AskedOf(d) /\ NextItem(d)' = NextItem(d)
      BY DEF AskedInv, NextItem
    <2>2. asked[d] \in Nat /\ retry[d] \in Nat
      BY DiscoveryAssumption DEF TypeOK
    <2>3. asked'[d] = asked[d] /\ retry'[d] = retry[d] /\ requested'[d] = requested[d]
      OBVIOUS
    <2>4. Slack(d) => Slack(d)'
      BY DEF Slack
    <2>5. QED
      BY <2>1, <2>2, <2>3, <2>4 DEF AskedOf
  <1>2. QED
    BY <1>1 DEF AskedInv
\* The flags of an entry change: its item is settled or stays the one asked for.
LEMMA DescribeKeepsNext ==
  ASSUME TypeOK, NEW d \in Devices, NEW updated, Describe(d, updated), NEW e \in Devices
  PROVE  asked'[e] = 0 \/ (asked'[e] = asked[e] /\ NextItem(e)' = NextItem(e))
  <1>1. CASE e # d
    BY <1>1 DEF TypeOK, Describe, NextItem
  <1>2. CASE e = d /\ FirstMissing(updated) = NextItem(d)
    BY <1>2 DEF TypeOK, Describe, NextItem
  <1>3. CASE e = d /\ FirstMissing(updated) # NextItem(d)
    BY <1>3 DEF TypeOK, Describe
  <1>4. QED
    BY <1>1, <1>2, <1>3

\* A flag that is set settles the item asked for, or is another one's.
LEMMA LearnKeepsNext ==
  ASSUME TypeOK, NEW d \in Devices, NEW i \in Items, Learn(d, i), asked'[d] # 0
  PROVE  i # NextItem(d)
  <1> SUFFICES ASSUME i = NextItem(d) PROVE FALSE
    OBVIOUS
  <1>1. FirstMissing(known[d] \cup {i}) # i
    <2>1. CASE Items \ (known[d] \cup {i}) = {}
      BY <2>1, DiscoveryAssumption DEF FirstMissing, NoItem, AllItems
    <2>2. CASE Items \ (known[d] \cup {i}) # {}
      BY <2>2, FirstOfMissing
    <2>3. QED
      BY <2>1, <2>2
  <1>2. QED
    BY <1>1 DEF Learn, Describe, TypeOK

\* A report or a refusal, in whatever order it meets requests and timeouts.
LEMMA AnswerKeepsAsked ==
  ASSUME TypeOK, AskedInv, NEW d \in Devices, NEW i \in Items, Learn(d, i),
         UNCHANGED <<requested, control, pollPc, current>>,
         retry' = retry \/ (retry' = [retry EXCEPT ![d] = 0] /\ requested[d] = i)
  PROVE  AskedInv'
  <1>1. ASSUME NEW e \in Devices PROVE AskedOf(e)'
    <2>0. retry'[e] \in Nat
      BY DiscoveryAssumption DEF TypeOK
    <2>1. CASE asked'[e] = 0
      BY <2>0, <2>1, UnaskedHolds
    <2>2. CASE asked'[e] # 0
      <3>1. asked'[e] = asked[e] /\ NextItem(e)' = NextItem(e)
        BY <2>2, DescribeKeepsNext DEF Learn
      <3>2. AskedOf(e)
        BY DEF AskedInv
      \* The item asked for is not i, or else the retries would not be reset.
      <3>3. retry'[e] = retry[e]
        <4>1. CASE e = d /\ requested[d] = i
          <5>1. i # NextItem(d)
            BY <2>2, <4>1, LearnKeepsNext
          <5>2. i = NoItem
            BY <2>2, <3>1, <3>2, <4>1, <5>1 DEF AskedOf
          <5>3. QED
            BY <5>2, DiscoveryAssumption DEF NoItem, AllItems
        <4>2. CASE ~(e = d /\ requested[d] = i)
          BY <4>2 DEF TypeOK
        <4>3. QED
          BY <4>1, <4>2
      <3>4. Slack(e)' = Slack(e)
        BY DEF Slack
      <3>5. QED
        BY <2>2, <3>1, <3>2, <3>3, <3>4 DEF AskedOf
    <2>3. QED
      BY <2>1, <2>2
  <1>2. QED
    BY <1>1 DEF AskedInv

\* The parts of a removal, whichever thread they are on.
LEMMA RemoveKeepsAsked ==
  ASSUME TypeOK, AskedInv, NEW d \in Devices, Uncount(d) \/ Unlist(d) \/ Blank(d),
         UNCHANGED current, pollPc' = pollPc \/ (pollPc \notin {"ask", "off"} /\ pollPc' # "ask"),
         control' \in {"off", "clear", "flags"} => control \in {"off", "clear", "flags"}
  PROVE  AskedInv'
  <1>1. ASSUME NEW e \in Devices PROVE AskedOf(e)'
    <2>1. AskedOf(e) /\ requested' = requested /\ asked[e] \in Nat /\ retry[e] \in Nat
      BY DiscoveryAssumption DEF AskedInv, TypeOK, Uncount, Unlist, Blank, infoVars
    <2>2. Slack(e) => Slack(e)'
      BY <2>1 DEF Slack
    <2>3. CASE asked'[e] = 0
      <3>1. retry'[e] \in Nat
        BY DiscoveryAssumption DEF TypeOK, Uncount, Unlist, Blank, infoVars
      <3>2. QED
        BY <2>3, <3>1, UnaskedHolds
    <2>4. CASE asked'[e] # 0
      <3>1. asked'[e] = asked[e] /\ NextItem(e)' = NextItem(e) /\ retry'[e] = retry[e]
        <4>1. CASE Uncount(d)
          BY <2>4, <4>1 DEF Uncount, TypeOK, NextItem
        <4>2. CASE Unlist(d)
          BY <4>2 DEF Unlist, infoVars, NextItem
        <4>3. CASE Blank(d)
          BY <2>4, <4>3, DescribeKeepsNext DEF Blank
        <4>4. QED
          BY <4>1, <4>2, <4>3
      <3>2. QED
        BY <2>1, <2>2, <3>1 DEF AskedOf
    <2>5. QED
      BY <2>3, <2>4
  <1>2. QED
    BY <1>1 DEF AskedInv

\* Whom the scan chooses has no request under way.
LEMMA ScanKeepsAsked ==
  ASSUME TypeInv, AskedInv, PollScan
  PROVE  AskedInv'
  <1>1. ASSUME NEW d \in Devices PROVE AskedOf(d)'
    <2>1. d # current /\ pollPc # "off"
      BY DiscoveryAssumption DEF PollScan, NoDevice
    <2>2. UNCHANGED <<known, requested, retry, asked, control>>
      BY DEF PollScan, deviceVars, ctlVars
    <2>3. AskedOf(d) /\ ~Slack(d) /\ NextItem(d)' = NextItem(d)
      BY <2>1, <2>2 DEF AskedInv, Slack, NextItem
    <2>4. asked[d] \in Nat /\ retry[d] \in Nat
      BY DiscoveryAssumption DEF TypeInv, TypeOK
    <2>5. asked[d] <= retry[d]
      BY <2>3, <2>4 DEF AskedOf
    <2>6. asked'[d] <= retry'[d] + (IF Slack(d)' THEN 1 ELSE 0)
      BY <2>2, <2>4, <2>5
    <2>7. QED
      BY <2>2, <2>3, <2>6 DEF AskedOf
  <1>2. QED
    BY <1>1 DEF AskedInv

\* A request is sent after every earlier one was counted as a retry.
LEMMA RequestKeepsAsked ==
  ASSUME TypeInv, AskedInv, PollRequest
  PROVE  AskedInv'
  <1>1. PICK d \in Devices : d = current /\ pollPc = "ask" /\ pollPc' = "top"
    BY DEF PollRequest, TypeInv, Places
  <1>2. control \notin {"off", "clear", "flags"} /\ UNCHANGED <<known, retry, control, current>>
    BY DEF PollRequest, TypeInv, Places, ctlVars
  <1>3. ASSUME NEW e \in Devices, UNCHANGED <<asked[e], requested[e]>> PROVE AskedOf(e)'
    <2>1. AskedOf(e) /\ NextItem(e)' = NextItem(e) /\ ~Slack(e)
      BY <1>1, <1>2 DEF AskedInv, NextItem, Slack
    <2>2. asked[e] \in Nat /\ retry[e] \in Nat
      BY DiscoveryAssumption DEF TypeInv, TypeOK
    <2>3. asked[e] <= retry[e]
      BY <2>1, <2>2 DEF AskedOf
    <2>4. asked'[e] <= retry'[e] + (IF Slack(e)' THEN 1 ELSE 0)
      BY <1>2, <1>3, <2>2, <2>3
    <2>5. QED
      BY <1>2, <1>3, <2>1, <2>4 DEF AskedOf
  <1>4. CASE ~allocated
    BY <1>3, <1>4 DEF PollRequest, AskedInv
  <1>5. CASE allocated
    <2>1. /\ requested' = [requested EXCEPT ![d] = NextItem(d)]
          /\ asked' = IF NextItem(d) = NoItem THEN asked ELSE [asked EXCEPT ![d] = @ + 1]
      BY <1>1, <1>5 DEF PollRequest
    <2>2. ASSUME NEW e \in Devices, e # d PROVE AskedOf(e)'
      <3>1. UNCHANGED <<asked[e], requested[e]>>
        BY <2>1, <2>2 DEF TypeInv, TypeOK
      <3>2. QED
        BY <1>3, <3>1
    <2>3. AskedOf(d)'
      <3>1. AskedOf(d) /\ ~Slack(d) /\ asked[d] \in Nat /\ retry[d] \in Nat
        BY <1>1, DiscoveryAssumption DEF AskedInv, Slack, TypeInv, TypeOK
      <3>2. asked[d] <= retry[d]
        BY <3>1 DEF AskedOf
      <3>3. requested'[d] = NextItem(d) /\ NextItem(d)' = NextItem(d)
        BY <1>2, <2>1 DEF TypeInv, TypeOK, NextItem
      <3>4. CASE NextItem(d) = NoItem
        <4>1. asked'[d] = 0
          BY <2>1, <3>1, <3>4 DEF AskedOf
        <4>2. QED
          BY <1>2, <3>1, <4>1, UnaskedHolds
      <3>5. CASE NextItem(d) # NoItem
        <4>1. asked'[d] = asked[d] + 1
          BY <2>1, <3>5 DEF TypeInv, TypeOK
        <4>2. Slack(d)'
          BY <1>1, <1>2, <3>3, <3>5 DEF Slack
        <4>3. QED
          BY <1>2, <3>1, <3>2, <3>3, <3>5, <4>1, <4>2 DEF AskedOf
      <3>6. QED
        BY <3>4, <3>5
    <2>4. QED
      BY <2>2, <2>3 DEF AskedInv
  <1>6. QED
    BY <1>4, <1>5

\* An answered request was settled: nothing is counted for it any more.
LEMMA StatusKeepsAsked ==
  ASSUME TypeInv, AskedInv, PollStatus
  PROVE  AskedInv'
  <1>0. TypeOK /\ pollPc = "run" /\ control \notin {"off", "clear", "flags"} /\ UNCHANGED control
    BY DEF PollStatus, TypeInv, Places, ctlVars
  <1>1. CASE ~allocated \/ requested[current] \notin known[current] \cup {NoItem}
    <2>1. UNCHANGED <<known, requested, retry, asked, current>> /\ pollPc' \in {"top", "elapse"}
      BY <1>1 DEF PollStatus
    <2>2. QED
      BY <1>0, <2>1, OthersKeepAsked
  <1>2. CASE allocated /\ requested[current] \in known[current] \cup {NoItem}
    <2>1. /\ requested' = [requested EXCEPT ![current] = NoItem] /\ current' = NoDevice
          /\ UNCHANGED <<known, retry, asked>>
      BY <1>2 DEF PollStatus
    <2>2. ASSUME NEW e \in Devices PROVE AskedOf(e)'
      <3>1. AskedOf(e) /\ NextItem(e)' = NextItem(e) /\ asked[e] \in Nat /\ retry[e] \in Nat
        BY <2>1, DiscoveryAssumption DEF AskedInv, NextItem, TypeInv, TypeOK
      <3>2. CASE e # current
        <4>1. asked[e] <= retry[e] /\ requested'[e] = requested[e]
          BY <1>0, <2>1, <3>1, <3>2 DEF AskedOf, Slack, TypeOK
        <4>2. asked'[e] <= retry'[e] + (IF Slack(e)' THEN 1 ELSE 0)
          BY <2>1, <3>1, <4>1
        <4>3. QED
          BY <1>0, <2>1, <3>1, <4>1, <4>2 DEF AskedOf
      <3>3. CASE e = current /\ requested[e] = NoItem
        <4>1. asked[e] <= retry[e] /\ requested'[e] = requested[e]
          BY <1>0, <2>1, <3>1, <3>3 DEF AskedOf, Slack, TypeOK
        <4>2. asked'[e] <= retry'[e] + (IF Slack(e)' THEN 1 ELSE 0)
          BY <2>1, <3>1, <4>1
        <4>3. QED
          BY <1>0, <2>1, <3>1, <4>1, <4>2 DEF AskedOf
      <3>4. CASE e = current /\ requested[e] # NoItem
        <4>1. requested[e] # NextItem(e)
          BY <1>2, <3>4, NextItemMissing
        <4>2. asked'[e] = 0 /\ retry'[e] \in Nat
          BY <2>1, <3>1, <3>4, <4>1 DEF AskedOf
        <4>3. QED
          BY <4>2, UnaskedHolds
      <3>5. QED
        BY <3>2, <3>3, <3>4
    <2>3. QED
      BY <2>2 DEF AskedInv
  <1>3. QED
    BY <1>1, <1>2

\* A timeout counts its request as a retry or settles the item.
LEMMA TimeoutKeepsAsked ==
  ASSUME TypeInv, AskedInv, PollElapsed
  PROVE  AskedInv'
  <1>1. PICK d \in Devices : d = current /\ requested[d] \in Items
    BY DEF PollElapsed, TypeInv, Places
  <1> DEFINE i == requested[d]
  <1>2. /\ current' = NoDevice /\ requested' = [requested EXCEPT ![d] = NoItem]
        /\ UNCHANGED control /\ control \notin {"off", "clear", "flags"} /\ pollPc = "elapse"
    BY <1>1 DEF PollElapsed, ctlVars, TypeInv, Places
  <1>3. retry' \in [Devices -> Nat]
    <2>1. retry' = retry \/ retry' = [retry EXCEPT ![d] = @ + 1] \/ retry' = [retry EXCEPT ![d] = 0]
      BY <1>1 DEF PollElapsed
    <2>2. retry \in [Devices -> Nat]
      BY DiscoveryAssumption DEF TypeInv, TypeOK
    <2>3. QED
      BY <1>1, <2>1, <2>2
  <1>4. ASSUME NEW e \in Devices, e # d PROVE AskedOf(e)'
    <2>1. retry'[e] = retry[e] /\ requested'[e] = requested[e]
      BY <1>1, <1>4 DEF PollElapsed, TypeInv, TypeOK
    <2>2. asked'[e] = asked[e] /\ known'[e] = known[e]
      BY <1>1, <1>4 DEF PollElapsed, Learn, Describe, TypeInv, TypeOK
    <2>3. AskedOf(e) /\ ~Slack(e) /\ asked[e] \in Nat /\ retry[e] \in Nat
      BY <1>1, <1>2, <1>4, DiscoveryAssumption DEF AskedInv, Slack, TypeInv, TypeOK
    <2>4. asked[e] <= retry[e]
      BY <2>3 DEF AskedOf
    <2>5. asked'[e] <= retry'[e] + (IF Slack(e)' THEN 1 ELSE 0)
      BY <2>1, <2>2, <2>3, <2>4
    <2>6. QED
      BY <1>2, <2>1, <2>2, <2>3, <2>5 DEF AskedOf, NextItem
  <1>5. AskedOf(d)'
    <2>1. AskedOf(d) /\ asked[d] \in Nat /\ retry[d] \in Nat
      BY DiscoveryAssumption DEF AskedInv, TypeInv, TypeOK
    <2>2. CASE i \in Retried /\ retry[d] < MaxRetry
      <3>1. retry'[d] = retry[d] + 1 /\ UNCHANGED <<known, asked>> /\ requested'[d] = NoItem
        BY <1>1, <1>2, <2>2 DEF PollElapsed, TypeInv, TypeOK
      <3>2. asked[d] <= retry[d] + 1
        BY <2>1 DEF AskedOf
      <3>3. asked'[d] <= retry'[d] + (IF Slack(d)' THEN 1 ELSE 0)
        BY <2>1, <3>1, <3>2
      <3>4. QED
        BY <1>2, <2>1, <3>1, <3>3 DEF AskedOf, NextItem
    <2>3. CASE ~(i \in Retried /\ retry[d] < MaxRetry)
      <3>1. Learn(d, i)
        BY <1>1, <2>3 DEF PollElapsed
      <3>2. asked'[d] = 0
        <4>1. SUFFICES ASSUME asked'[d] # 0 PROVE FALSE
          OBVIOUS
        <4>2. asked'[d] = asked[d] /\ i # NextItem(d)
          BY <1>1, <3>1, <4>1, DescribeKeepsNext, LearnKeepsNext DEF Learn, TypeInv
        <4>3. i = NoItem
          BY <2>1, <4>1, <4>2 DEF AskedOf
        <4>4. QED
          BY <1>1, <4>3, DiscoveryAssumption DEF NoItem, AllItems
      <3>3. QED
        BY <1>3, <3>2, UnaskedHolds
    <2>4. QED
      BY <2>2, <2>3
  <1>6. QED
    BY <1>4, <1>5 DEF AskedInv

\* Asking for the power status again does not change what an unsettled device is asked for.
LEMMA UpdateKeepsAsked ==
  ASSUME TypeInv, AskedInv, PollUpdate
  PROVE  AskedInv'
  <1>1. ASSUME NEW d \in Devices PROVE AskedOf(d)'
    <2>1. known'[d] = known[d] \/ known'[d] = known[d] \ {"POWER_STATUS"}
      BY DEF PollUpdate
    <2>2. NextItem(d) # NoItem => NextItem(d)' = NextItem(d)
      BY <2>1, FirstStays DEF NextItem
    <2>3. AskedOf(d) /\ UNCHANGED <<requested, retry, asked, current, control>>
      BY DEF AskedInv, PollUpdate, ctlVars
    <2>4. Slack(d) => Slack(d)'
      BY <2>3 DEF Slack, PollUpdate
    <2>5. asked[d] \in Nat /\ retry[d] \in Nat
      BY DiscoveryAssumption DEF TypeInv, TypeOK
    <2>6. QED
      BY <2>2, <2>3, <2>4, <2>5 DEF AskedOf
  <1>2. QED
    BY <1>1 DEF AskedInv

\* Without a session nobody is asked, so that the next one starts from zero.
LEMMA SessionKeepsAsked ==
  ASSUME TypeInv, AskedInv, CECEnable \/ CECEnableFails \/ CECDisable \/ CECDisabled
  PROVE  AskedInv'
  <1> TypeOK
    BY DEF TypeInv
  <1>1. CASE CECEnable \/ DisableReset
    <2>1. ASSUME NEW d \in Devices PROVE AskedOf(d)'
      <3>1. retry'[d] \in Nat
        <4>1. retry' = retry
          BY <1>1 DEF CECEnable, DisableReset, deviceVars
        <4>2. QED
          BY <4>1, DiscoveryAssumption DEF TypeOK
      <3>2. asked'[d] = 0
        <4>1. CASE CECEnable
          <5>1. AskedOf(d) /\ control = "off" /\ UNCHANGED asked
            BY <4>1 DEF CECEnable, deviceVars, AskedInv
          <5>2. QED
            BY <5>1 DEF AskedOf
        <4>2. CASE DisableReset
          BY <4>2 DEF DisableReset
        <4>3. QED
          BY <1>1, <4>1, <4>2
      <3>3. QED
        BY <3>1, <3>2, UnaskedHolds
    <2>2. QED
      BY <2>1 DEF AskedInv
  <1>2. CASE CECEnableFails \/ CECDisable \/ DisableDone
    <2>1. /\ UNCHANGED <<known, requested, retry, asked, pollPc, current>>
          /\ control' \in {"off", "clear", "flags"} => control \in {"off", "clear", "flags"}
      BY <1>2 DEF CECEnableFails, CECDisable, DisableDone, deviceVars, pollVars
    <2>2. QED
      BY <2>1, OthersKeepAsked
  <1>3. CASE DisableClear
    <2>1. control \in {"off", "clear", "flags"} /\ UNCHANGED <<pollPc, current>>
      BY <1>3 DEF DisableClear, pollVars
    <2>2. CASE Least(leaving) \in present
      <3>1. Unlist(Least(leaving)) /\ Least(leaving) \in Devices
        BY <1>3, <2>2 DEF DisableClear, TypeOK
      <3>2. QED
        BY <2>1, <3>1, RemoveKeepsAsked
    <2>3. CASE Least(leaving) \notin present
      <3>1. UNCHANGED <<known, requested, retry, asked>>
        BY <1>3, <2>3 DEF DisableClear, deviceVars
      <3>2. QED
        BY <2>1, <3>1, OthersKeepAsked
    <2>4. QED
      BY <2>2, <2>3
  <1>4. CASE DisableFlags
    <2>1. Least(leaving) \in Devices
      BY <1>4, LeastDevice DEF DisableFlags, TypeInv, TypeOK, Places
    <2>2. control \in {"off", "clear", "flags"} /\ UNCHANGED <<pollPc, current>> /\ Blank(Least(leaving))
      BY <1>4 DEF DisableFlags, pollVars
    <2>3. QED
      BY <2>1, <2>2, RemoveKeepsAsked
  <1>5. QED
    BY <1>1, <1>2, <1>3, <1>4 DEF CECDisabled

LEMMA AskedStep == TypeInv /\ AskedInv /\ [Next]_vars => AskedInv'
  <1> SUFFICES ASSUME TypeInv, AskedInv, [Next]_vars PROVE AskedInv'
    OBVIOUS
  <1> TypeOK
    BY DEF TypeInv
  <1>1. CASE \/ PollTop \/ PollClearNext \/ PollAllocate \/ PollStartPing \/ PollPing \/ PollPingFails
             \/ PollRemoveTest \/ PollNoneNew \/ PollAddTest \/ PollAdd \/ PollAdded \/ PollWaits
             \/ PollIdle \/ PollExit
    <2>1. UNCHANGED <<known, requested, retry, asked, control>> /\ pollPc # "off"
      BY <1>1 DEF PollTop, PollClearNext, PollAllocate, PollStartPing, PollPing, PollPingFails,
         PollRemoveTest, PollNoneNew, PollAddTest, PollAdd, PollAdded, PollWaits, PollIdle, PollExit,
         Add, deviceVars, infoVars, ctlVars
    <2>2. pollPc' = "off" \/ (UNCHANGED current /\ pollPc' # "ask")
      BY <1>1 DEF PollTop, PollClearNext, PollAllocate, PollStartPing, PollPing, PollPingFails, AfterPing,
         PollRemoveTest, PollNoneNew, PollAddTest, PollAdd, PollAdded, PollWaits, PollIdle, PollExit
    <2>3. QED
      BY <2>1, <2>2, OthersKeepAsked
  <1>2. CASE \/ ReceiveReport \/ FrameTest \/ FrameAdd \/ HotPlug \/ PortTest
             \/ PortPing \/ PowerModeChanged \/ PowerPing \/ Replug \/ UNCHANGED vars
    <2>1. UNCHANGED <<known, requested, retry, asked, pollPc, current, control>>
      BY <1>2 DEF ReceiveReport, FrameTest, FrameAdd, HotPlug, PortTest, PortPing, PowerModeChanged,
         PowerPing, Replug, Add, vars, deviceVars, infoVars, pollVars, ctlVars
    <2>2. QED
      BY <2>1, OthersKeepAsked
  <1>3. CASE PollRemove
    <2>1. Least(disconnected) \in Devices
      BY <1>3, LeastDevice DEF PollRemove, TypeInv, TypeOK, Places
    <2>2. Uncount(Least(disconnected)) \/ Unlist(Least(disconnected)) \/ Blank(Least(disconnected))
      BY <1>3 DEF PollRemove
    <2>3. pollPc \notin {"ask", "off"} /\ pollPc' # "ask" /\ UNCHANGED <<control, current>>
      BY <1>3 DEF PollRemove, ctlVars
    <2>4. QED
      BY <2>1, <2>2, <2>3, RemoveKeepsAsked
  <1>4. CASE PortRemove
    <2>1. port \in Devices
      BY <1>4 DEF PortRemove, TypeInv, Places
    <2>2. Uncount(port) \/ Unlist(port) \/ Blank(port)
      BY <1>4 DEF PortRemove
    <2>3. UNCHANGED <<control, pollPc, current>>
      BY <1>4 DEF PortRemove, ctlVars, pollVars
    <2>4. QED
      BY <2>1, <2>2, <2>3, RemoveKeepsAsked
  <1>5. CASE FrameUpdate
    <2>1. frame[1] \in Devices /\ frame[2] \in Items \cup {NoItem}
      BY <1>5 DEF FrameUpdate, TypeInv, Places
    <2>2. UNCHANGED <<requested, control, pollPc, current>>
      BY <1>5 DEF FrameUpdate, pollVars, ctlVars
    <2>3. CASE frame[2] = NoItem
      BY <1>5, <2>2, <2>3, OthersKeepAsked DEF FrameUpdate
    <2>4. CASE frame[2] # NoItem
      BY <1>5, <2>1, <2>2, <2>4, AnswerKeepsAsked DEF FrameUpdate
    <2>5. QED
      BY <2>3, <2>4
  <1>6. CASE ReceiveAbort
    <2>1. PICK d \in Devices, i \in Items : Learn(d, i)
      BY <1>6 DEF ReceiveAbort, Refusable, TypeOK
    <2>2. QED
      BY <1>6, <2>1, AnswerKeepsAsked DEF ReceiveAbort, pollVars, ctlVars
  <1>7. QED
    BY <1>1, <1>2, <1>3, <1>4, <1>5, <1>6, ScanKeepsAsked, RequestKeepsAsked, StatusKeepsAsked,
       TimeoutKeepsAsked, UpdateKeepsAsked, SessionKeepsAsked
       DEF Next, PollThread, Receiver, Events, Environment

\* However answers, timeouts, removals and sessions cross, a device is asked for the same
\* item at most once more than the retries allow (request, requestStatus, update).
THEOREM RequestsAreBounded == Spec => []RequestsBounded
  <1>1. Init => AskedInv
    BY DiscoveryAssumption DEF Init, AskedInv, AskedOf
  <1>2. TypeInv /\ AskedInv => RequestsBounded
    <2> SUFFICES ASSUME TypeInv, AskedInv, NEW d \in Devices PROVE asked[d] <= MaxRetry + 1
      BY DEF RequestsBounded
    <2>1. asked[d] \in Nat /\ retry[d] \in 0..MaxRetry /\ MaxRetry \in Nat
      BY DiscoveryAssumption DEF TypeInv, TypeOK
    <2>2. asked[d] <= retry[d] + 1
      BY <2>1 DEF AskedInv, AskedOf
    <2>3. QED
      BY <2>1, <2>2
  <1>3. QED
    BY <1>1, <1>2, TypeInvariant, AskedStep, PTL DEF Spec
-----------------------------------------------------------------------------
(* What an absent device's entry holds *)

\* A step that takes nobody off the list, learns nothing and keeps the removals under way
\* fills no entry.
LEMMA NothingLearned ==
  ASSUME TypeOK, NEW d \in Devices, present \subseteq present', known'[d] \subseteq known[d],
         Clearing(d) => Clearing(d)', FilledWhileAbsent(d)'
  PROVE  FilledWhileAbsent(d)
  BY DEF FilledWhileAbsent

\* update() of one entry does not touch the others.
LEMMA LearnFillsOne ==
  ASSUME TypeOK, NEW d \in Devices, NEW r \in Devices, NEW i, Learn(r, i), UNCHANGED present,
         Clearing(d) => Clearing(d)', d # r, FilledWhileAbsent(d)'
  PROVE  FilledWhileAbsent(d)
  BY DEF Learn, Describe, FilledWhileAbsent, TypeOK

\* A removal drops an entry from the list only to clear it in the next step ...
LEMMA UnlistClears ==
  ASSUME TypeOK, NEW d \in Devices, NEW r \in Devices, Unlist(r), Clearing(r)',
         Clearing(d) => Clearing(d)', FilledWhileAbsent(d)'
  PROVE  FilledWhileAbsent(d)
  <1>1. present' = present \ {r} /\ UNCHANGED known
    BY DEF Unlist, infoVars
  <1>2. d # r
    BY DEF FilledWhileAbsent
  <1>3. QED
    BY <1>1, <1>2 DEF FilledWhileAbsent

\* ... which empties this entry, and does not end the clearing of another.
LEMMA BlankLeavesClean ==
  ASSUME TypeOK, NEW d \in Devices, NEW r \in Devices, Blank(r),
         d # r /\ Clearing(d) => Clearing(d)', FilledWhileAbsent(d)'
  PROVE  FilledWhileAbsent(d)
  <1>1. known' = [known EXCEPT ![r] = {}] /\ UNCHANGED present
    BY DEF Blank, Describe
  <1>2. d # r
    BY <1>1 DEF FilledWhileAbsent, TypeOK
  <1>3. QED
    BY <1>1, <1>2 DEF FilledWhileAbsent, TypeOK

\* What removes on one thread leaves the removals on the others under way.
LEMMA RemovalsFill ==
  ASSUME TypeInv, NEW d \in Devices, FilledWhileAbsent(d)',
         PollRemove \/ PortRemove \/ DisableReset \/ DisableClear \/ DisableFlags \/ DisableDone
  PROVE  FilledWhileAbsent(d)
  <1> TypeOK
    BY DEF TypeInv
  <1> USE DEF deviceVars, infoVars
  <1>1. CASE PollRemove
    <2> DEFINE r == Least(disconnected)
    <2>1. r \in Devices /\ UNCHANGED <<plugPc, port, control, leaving>>
      BY <1>1, LeastDevice DEF PollRemove, TypeOK, plugVars, ctlVars
    <2>2. CASE Uncount(r) /\ pollPc = "removeCommit"
      BY <2>1, <2>2, NothingLearned DEF Uncount, Clearing
    <2>3. CASE Unlist(r) /\ pollPc = "removeClear" /\ pollPc' = "removeFlags" /\ UNCHANGED disconnected
      BY <2>1, <2>3, UnlistClears DEF Clearing
    <2>4. CASE Blank(r) /\ pollPc = "removeFlags"
      BY <2>1, <2>4, BlankLeavesClean DEF Clearing
    <2>5. QED
      BY <1>1, <2>2, <2>3, <2>4 DEF PollRemove
  <1>2. CASE PortRemove
    <2>1. port \in Devices /\ UNCHANGED <<pollPc, disconnected, port, control, leaving>>
      BY <1>2 DEF PortRemove, TypeInv, Places, pollVars, pingVars, ctlVars
    <2>2. CASE Uncount(port) /\ plugPc = "commit"
      BY <2>1, <2>2, NothingLearned DEF Uncount, Clearing
    <2>3. CASE Unlist(port) /\ plugPc = "clear" /\ plugPc' = "flags"
      BY <2>1, <2>3, UnlistClears DEF Clearing
    <2>4. CASE Blank(port) /\ plugPc = "flags"
      BY <2>1, <2>4, BlankLeavesClean DEF Clearing
    <2>5. QED
      BY <1>2, <2>2, <2>3, <2>4 DEF PortRemove
  <1>3. CASE DisableReset \/ DisableDone
    <2>1. UNCHANGED <<present, known, pollPc, disconnected, plugPc, port>> /\ control # "flags"
      BY <1>3 DEF DisableReset, DisableDone, pollVars, pingVars, plugVars
    <2>2. QED
      BY <2>1, NothingLearned DEF Clearing
  <1>4. CASE DisableClear
    <2>1. UNCHANGED <<pollPc, disconnected, plugPc, port>> /\ control = "clear"
      BY <1>4 DEF DisableClear, pollVars, pingVars, plugVars
    <2>2. Clearing(d) => Clearing(d)'
      BY <2>1 DEF Clearing
    <2>3. CASE Least(leaving) \in present
      <3>1. PICK r \in Devices : r = Least(leaving)
        BY <2>3 DEF TypeOK
      <3>2. Unlist(r) /\ control' = "flags" /\ UNCHANGED leaving
        BY <1>4, <2>3, <3>1 DEF DisableClear
      <3>3. Clearing(r)'
        BY <3>1, <3>2 DEF Clearing
      <3>4. QED
        BY <2>2, <3>2, <3>3, UnlistClears
    <2>4. CASE Least(leaving) \notin present
      <3>1. UNCHANGED <<present, known>>
        BY <1>4, <2>4 DEF DisableClear
      <3>2. QED
        BY <2>2, <3>1, NothingLearned
    <2>5. QED
      BY <2>3, <2>4
  <1>5. CASE DisableFlags
    <2>1. UNCHANGED <<pollPc, disconnected, plugPc, port>> /\ Blank(Least(leaving))
          /\ Least(leaving) \in Devices
      BY <1>5, LeastDevice DEF DisableFlags, TypeInv, TypeOK, Places, pollVars, pingVars, plugVars
    <2>2. QED
      BY <2>1, BlankLeavesClean DEF Clearing
  <1>6. QED
    BY <1>1, <1>2, <1>3, <1>4, <1>5

\* One step: what fills the entry of an absent device.
LEMMA FillStep ==
  ASSUME TypeInv, [Next]_vars, NEW d \in Devices, FilledWhileAbsent(d)', ~FilledWhileAbsent(d),
         ~ReceiveAbort
  PROVE  \/ FrameUpdate /\ frame[1] = d
         \/ PollElapsed /\ current = d
  <1> SUFFICES ASSUME ~(FrameUpdate /\ frame[1] = d), ~(PollElapsed /\ current = d) PROVE FALSE
    BY Zenon
  <1> TypeOK
    BY DEF TypeInv
  <1>a. ASSUME UNCHANGED known, present \subseteq present', Clearing(d) => Clearing(d)' PROVE FALSE
    BY <1>a, NothingLearned
  <1> USE DEF deviceVars, infoVars
  <1>1. CASE PollThread
    <2>1. ASSUME pollPc # "removeFlags", UNCHANGED <<cecVars, plugVars, control, leaving>>
          PROVE  Clearing(d) => Clearing(d)'
      BY <2>1 DEF Clearing, plugVars
    <2>2. CASE PollTop \/ PollClearNext \/ PollAllocate \/ PollStartPing \/ PollPing \/ PollPingFails
               \/ PollRemoveTest \/ PollNoneNew \/ PollAddTest \/ PollAdded
      BY <2>1, <2>2, <1>a DEF PollTop, PollClearNext, PollAllocate, PollStartPing, PollPing, PollPingFails,
                        PollRemoveTest, PollNoneNew, PollAddTest, PollAdded, ctlVars
    <2>3. CASE PollAdd
      BY <2>1, <2>3, <1>a DEF PollAdd, Add, ctlVars
    <2>4. CASE PollScan \/ PollRequest \/ PollStatus \/ PollWaits \/ PollIdle \/ PollExit
      BY <2>1, <2>4, <1>a DEF PollScan, PollRequest, PollStatus, PollWaits, PollIdle, PollExit, ctlVars
    <2>5. CASE PollElapsed
      <3>1. current \in Devices /\ current # d /\ UNCHANGED present
        BY <2>5 DEF PollElapsed, TypeInv, Places
      <3>2. UNCHANGED known \/ Learn(current, requested[current])
        BY <2>5 DEF PollElapsed
      <3>3. Clearing(d) => Clearing(d)'
        BY <2>1, <2>5 DEF PollElapsed, ctlVars
      <3>4. QED
        BY <3>1, <3>2, <3>3, <1>a, LearnFillsOne
    <2>6. CASE PollUpdate
      <3>1. known'[d] \subseteq known[d] /\ UNCHANGED present
        BY <2>6 DEF PollUpdate, TypeOK
      <3>2. Clearing(d) => Clearing(d)'
        BY <2>1, <2>6 DEF PollUpdate, ctlVars
      <3>3. QED
        BY <3>1, <3>2, NothingLearned
    <2>7. QED
      BY <1>1, <2>2, <2>3, <2>4, <2>5, <2>6, RemovalsFill DEF PollThread
  <1>2. CASE Receiver
    <2>1. Clearing(d) => Clearing(d)'
      BY <1>2 DEF Receiver, FrameTest, FrameAdd, FrameUpdate, Clearing, pollVars, pingVars, plugVars, ctlVars
    <2>2. CASE FrameTest \/ FrameAdd
      BY <2>1, <2>2, <1>a DEF FrameTest, FrameAdd, Add
    <2>3. CASE FrameUpdate
      <3>1. frame[1] \in Devices /\ frame[1] # d /\ UNCHANGED present
        BY <2>3 DEF FrameUpdate, TypeInv, Places
      <3>2. UNCHANGED known \/ Learn(frame[1], frame[2])
        BY <2>3 DEF FrameUpdate
      <3>3. QED
        BY <2>1, <3>1, <3>2, <1>a, LearnFillsOne
    <2>4. QED
      BY <1>2, <2>2, <2>3 DEF Receiver
  <1>3. CASE PortTest \/ PortPing
    <2>1. Clearing(d) => Clearing(d)'
      BY <1>3 DEF PortTest, PortPing, Clearing, pollVars, pingVars, ctlVars
    <2>2. QED
      BY <1>3, <2>1, <1>a DEF PortTest, PortPing
  <1>4. CASE PowerPing \/ Environment
    <2>1. UNCHANGED <<present, known>>
      BY <1>4 DEF PowerPing, Environment, ReceiveReport, HotPlug, PowerModeChanged, CECEnable,
                  CECEnableFails, CECDisable, Replug
    <2>2. Clearing(d) => Clearing(d)'
      <3>1. CASE CECEnable
        <4>1. /\ pollPc = "off" /\ pollPc' = "top" /\ control = "off" /\ control' = "on"
              /\ UNCHANGED <<plugPc, port>>
          BY <3>1 DEF CECEnable, TypeInv, Places, plugVars
        <4>2. QED
          BY <4>1 DEF Clearing
      <3>2. CASE CECDisable
        BY <3>2 DEF CECDisable, Clearing, pollVars, pingVars, plugVars
      <3>3. CASE HotPlug
        BY <3>3 DEF HotPlug, Clearing, pollVars, pingVars, ctlVars
      <3>4. CASE PowerPing \/ ReceiveReport \/ PowerModeChanged \/ CECEnableFails \/ Replug
        BY <3>4 DEF PowerPing, ReceiveReport, PowerModeChanged, CECEnableFails, Replug, Clearing,
                    pollVars, pingVars, plugVars, ctlVars
      <3>5. QED
        BY <1>4, <3>1, <3>2, <3>3, <3>4 DEF Environment
    <2>3. QED
      BY <2>1, <2>2, <1>a
  <1>5. CASE UNCHANGED vars
    BY <1>5, <1>a DEF vars, Clearing, pollVars, pingVars, plugVars, ctlVars
  <1>6. QED
    BY <1>1, <1>2, <1>3, <1>4, <1>5, RemovalsFill DEF Next, Events, CECDisabled

\* No removal, session end or other device's frame leaves a description behind at an
\* address without a device.
THEOREM AbsentEntriesStayClean == Spec => OnlyLateStepsFillAbsent
  <1>1. TypeInv /\ [Next]_vars =>
          [\A d \in Devices : ~FilledWhileAbsent(d) /\ FilledWhileAbsent(d)' =>
             \/ ReceiveAbort
             \/ FrameUpdate /\ frame[1] = d
             \/ PollElapsed /\ current = d]_vars
    BY FillStep
  <1>2. QED
    BY <1>1, TypeInvariant, PTL DEF Spec, OnlyLateStepsFillAbsent

=============================================================================
