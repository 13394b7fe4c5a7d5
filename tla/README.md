# Verification of the HDMI-CEC sink plugin

TLA+ models of `plugin/HdmiCecSinkImplementation.{h,cpp}`, the TLC runs that check
them and the TLAPS proofs about them. `I.cpp` and `I.h` below are those two files.

## The system

The plugin makes a TV the sink of an HDMI-CEC bus. One object,
`HdmiCecSinkImplementation`, holds all state; these threads share it:

| thread | what it does | where |
|---|---|---|
| JSON-RPC workers | `SetEnabled`, `SetupARCRouting`, `SendKeyPressEvent`, ... | I.cpp:1348-1742 |
| libcec receiver | one handler per frame, `HdmiCecSinkProcessor::process` | I.cpp:130-609 |
| `threadRun` | allocates an address, pings the bus, asks devices for what is missing | I.cpp:2759-3003 |
| `threadArcRouting` | sends the message that fits the ARC state | I.cpp:3563-3639 |
| `threadSendKeyEvent` | sends queued keys | I.cpp:3455-3551 |
| ARC timer, audio status timer | report a failure, ask for the audio status | I.cpp:1065, 3553 |
| power, hot plug and user settings events | I.cpp:964, 944, 953 | |
| the thread of the last `Release` | the destructor | I.cpp:657-748 |

| component | state | operations | correct when |
|---|---|---|---|
| ARC routing | `m_currentArcRoutingState`, the binary semaphore, `m_arcStartStopTimer`, `m_arcstarting` | `startArc`, `stopArc`, `Process_InitiateArc`, `Process_TerminateArc`, `updateArcState`, the timer, the routing thread | no state is lost by the semaphore; every request ends; `CECDisable` and the destructor end |
| device list and discovery | `deviceList[16]`, `m_numberOfDevices`, `m_pollThreadState`, `m_pollNextState` | `addDevice`, `removeDevice`, `request`, `requestStatus`, `pingDevices`, the reporting frames | devices on the bus are described, absent ones leave, requests are bounded, the thread can be joined |
| key events and audio status | `m_SendKeyQueue`, `m_sendKeyEventThreadRun`, three flags, `m_audioStatusDetectionTimer` | three JSON-RPC calls, the key thread, `Process_ReportAudioStatus_msg` | queued keys are sent; a volume key is followed by an audio status; resets are complete |
| active source and routing | `m_currentActiveSource`, `m_isActiveSource` | `updateActiveSource`, `updateInActiveSource`, `setActiveSource`, `setRoutingChange`, `getActiveRoute` | a device is a source only on its own word; the source of a TV in standby has waked it |
| HDMI port map | `hdmiInputs`, `m_deviceChain` | `addChild`, `removeChild`, `getRoute`, `CheckHdmiInState` | the route of a device leads through its parents and names all of them |
| lifecycle, notifications | `_instance`, `libcecInitStatus`, the notification list | `Configure`, the destructor, `Register`, `Unregister` | what was started is stopped; no listener is called after it left |
| settings, languages, latency, SAD, getters, plugin shell | | | formatting, I/O and framework glue |

What is hard in it: almost no state has a lock. `m_arcRoutingStateMutex` covers single
accesses to the ARC state, never a test with the write it guards; the device list and
`m_pollNextState` have no lock at all, nor have the active source and the port map;
`m_enableMutex` keeps `CECEnable` and `CECDisable` apart and is held while `CECDisable`
waits for two other threads. Timers race the answers they supervise, removals race
outstanding requests, and deep sleep takes every thread of the plugin off its condition
variable or semaphore. PROJECT.json lists these hazards line by line.

## Modules

| module | models |
|---|---|
| `ArcRouting` | the ARC control with every actor that touches it |
| `ArcMailbox` | what state, semaphore and routing thread promise together (abstract) |
| `ArcRoutingProofs` | the theorems about `ArcRouting` |
| `MCArcRouting` | its instances for TLC, with two API threads to choose from |
| `DeviceDiscovery` | the poll thread, the receiver thread, hot plug, power, `CECEnable`/`CECDisable` on the device list |
| `DeviceDiscoveryProofs` | the theorems about `DeviceDiscovery` |
| `MCDeviceDiscovery` | its instances for TLC |
| `KeyEvents` | the key queue, its thread and the detection of the audio status |
| `KeyEventsProofs` | the theorems about `KeyEvents` |
| `MCKeyEvents` | its instances for TLC |
| `PortMap` | what is plugged into an HDMI input and chained behind it; the tree of physical addresses as its reference |
| `Topology` | what the port map promises: who is at each position of the HDMI tree (abstract) |
| `ActiveSource` | the active source, the flags and addresses of the devices and the ports, under every thread that changes them (extends `PortMap`) |
| `ActiveSourceProofs` | the theorems about `ActiveSource` and `PortMap` |
| `MCActiveSource` | its instances for TLC, with a small bus |

### ArcRouting

A step is what a thread does between two points where another thread can be observed:
a critical section of `m_arcRoutingStateMutex` is one step, an access outside of it is a
step of its own. `pc[t]` names the place of thread `t` (`startWrite`, `stopTest`,
`disWait`, ...), so `startArc` is `StartCheck`, `StartWrite`, `StartSignal`, `StartFlag`,
`StartArm`. `stopArc` is called from four places; `Return(t)` leads back to the caller,
which is `CECDisable` exactly when the thread owns `m_enableMutex`.

- `CECEnable` is `EnableEnter`, which assigns the connection, `EnableOpen`, which opens it
  and starts the poll thread, and `EnableStatus`, which sets `cecEnableStatus`: frames,
  `startArc` and `stopArc` come in between. `EnableFails` is an exception on the way
  (3098-3106): the connection stays, without the status, and the next `CECEnable` assigns
  another one over it. `Init` has that outcome of `Configure` too, which catches the
  exception (844-853). An exception in `SetEnabled` is taken to end the call and no more.
  `CECDisable` goes the other way, `DisableOff` before `DisableConn`.
- `Attached`: frames come in while the poll thread has attached the frame listener, which a
  connection that failed to open never gets.
- `TimerExpires` / `TimerResets`: the callback notifies and then resets the state under the
  lock; in between it runs beside everybody else, and `stop()` does not wait for it. The
  timer itself (`tptimer.h`, not in the repository) is single-shot, as the code sets it up.
- `ReceiveFrame`: the receiver thread handles one frame at a time; the tests of the sender,
  of the ARC port and of the device's physical address decide only whether there is a
  frame to speak of and are abstracted.
- `ArcPortUnplugged`: `updateArcState` with the port disconnected; with the port connected
  it changes nothing.
- `Destroy` begins when no API call and no power event is under way (they hold a reference
  or have been unregistered); frames, timer and hot plug go on.
- `ArcSend` stands for the four messages; whether the connection still exists decides only
  whether the message goes out.

`power` is `devicePowerState`; `powerState`, which is always ON exactly when it is, is not
kept twice.

### DeviceDiscovery

`known[d]` is the set of `m_is...Updated` flags, without the device type, which is reported
together with the physical address. `requested`, `retry`, `present` and `count` are the
fields of the same meaning; `asked` is an auxiliary history: how often the item a device is
currently asked for has been asked. `pollState` and `pollNext` are the two state variables
of `threadRun`; `pollPc` is the place inside a round, so that the copy and the reset of
`m_pollNextState`, each ping, each test of `m_isDevicePresent` and the update it guards are
steps of their own. A frame is `check` (the test in `addDevice`), `commit`, `update`.
The update of an item and the reset of the retry count by the same frame is one step.
A removal is three steps after its test: `Uncount` (the count and the retries), `Unlist`
(`clear()` down to `m_isDevicePresent`) and `Blank` (the flags of the items), so that the
device can be added again, and report, before `clear()` is done. `CECDisable` clears one
device after the other in the last two. `m_isRequested` outlives all of it; `asked`
begins anew with the entry.

The poll thread's choice of a device to ask (`PollScan`, 2892-2902) and `request()`
(`PollRequest`) are two steps: a device that hot plug removes in between is asked although
it has left, and a device whose last item is reported in between is asked for nothing.
Three exceptions are modelled. `PollAllocate` ends the thread with the address set, and with
or without the listener (2822-2833); `PollPingFails` is a ping that ends in another
exception than CECNoAckException, which tells nothing of the device (2328-2333);
`CECEnableFails` leaves no thread, but perhaps an address (3098-3106).

`PollElapsed` is the timeout of 2 s: it may be taken whenever a request is outstanding,
`PollWaits` is the round in which it is not. `PollUpdate` chooses any set of devices whose
power status is older than 60 s. `Devices` leaves out the TV's own address. `CountBound`
bounds `m_numberOfDevices`; with 0 the count is not followed. `Reported` are the items that
devices report; the others are refused or time out. `no_address` stands for a bus on which
the TV gets no address, `throw` for the exceptions of the POLL state and of `CECEnable`,
`ping_error` for those of a ping.

### KeyEvents

The calls push and set `m_sendKeyEventThreadRun` under `m_sendKeyEventMutex` (`Enqueue`);
the thread's wait is the predicate of the condition variable. Everything else the thread
does is unlocked and so a step each: the tests of the exit flag and of the queue, the
clearing of the flag, the pop, the size test after a volume key, and every access to
`m_isAudioStatusInfoUpdated` (`info`), `m_audioStatusReceived` (`received`),
`m_audioStatusTimerStarted` (`started`) and the timer. The same four are written by
`Process_ReportAudioStatus_msg` (`Report...`), the timer's callback and, in the same order
in two places of the code, by `removeDevice` for the audio system and by `CECDisable`
(`Reset...(r)`, one `r` per thread that is in one of them). Keys are told apart as far as
the code does after sending: volume, mute, other, and those without a UI command. `left`
is an auxiliary variable: it records that the flag was cleared over a queued key, so that
`QueueIsServed` can say what is promised apart from that, and `OnlyClearStrands` that
nothing else leaves a key beside a lowered flag. The pop of the `std::queue` is one step:
what two threads inside of the container do to it is below the model, and the order of the
keys, which is the container's, is not checked.

### PortMap and ActiveSource

`PortMap` has operators only. A port is `la`, the logical address of its own device, and
`child`, the tables `m_childsLogicalAddr` of its three levels in one function, restricted
to the places that an address on the bus can name. `AddChild`, `RemoveChild`, `Unplug` and
`Route` are the methods of `HdmiPortMap`. `Path` and `DistinctSlots` are the reference: what
lies between a device and the TV according to the physical addresses alone. `Topology` is
the abstract port map: a table of `Nodes` (the positions of the tree) that devices enter and
leave. `Occupant` reads it off the ports, whose own table is indexed by level and one digit;
only the shapes that the code gives a guard appear in it: a chained device needs the device
of its input, an input is not taken over, and a removal forgets the input's device.

In `ActiveSource` every access to a shared field is a step; the fields that one handler
writes into one device entry are one step, and so is the walk over the ports, which other
threads do not observe in the middle in a way the properties tell apart (each address is
behind one port). `cecPc` is the place of the receiver thread: `updateActiveSource` is
`SourceTest`, `SourceLower`, `SourceRaise`, `SourceTake`, `SourceWake`;
`updateInActiveSource` is `Withdraw`, `WithdrawQuit`; ReportPhysicalAddress is
`ReceiveReport`, `Locate`, `Link`; when `addDevice` finds its sender absent, `AddSender` is
the write after the test. `apiPc` is the worker in `setActiveSource` or
`setRoutingChange` before it takes the source, `powerPc` the power event, `removing` and `unplugged` the threads in
`removeDevice` (poll, hot plug). `session` follows `CECEnable`, the poll thread's POLL state,
which reads `powerState` in one step and stores it in the TV's entry in another, and
`CECDisable`, whose join of the poll thread makes what follows one step. `located` are the
devices whose address is not F.F.F.F; a device keeps the address the bus gives it.
`announced` and `told` are histories. `announced` are the devices whose last message that
was heeded claimed the source: `Heed` is what a withdrawal does, and one whose handler
finds the address gone is dropped (2148-2151) and takes back nothing. `told` is what came of
the last announcement: `woken` when OnWakeupFromStandby was sent, `awake` when the TV's
power status said ON, and `unseen` when neither was looked at: the announcer was not on the
list at 2193, or the session was not set up. A handler that crosses sessions finds an entry
which is not the TV's, or not yet filled in by the poll thread's POLL state, and whose
status does not say how the TV is. A `CECEnable` that fails and a POLL state that throws are
left to `DeviceDiscovery`: here every session has its listener. Which devices the poll
thread pings is abstracted to any device being added or removed while the session runs;
`DeviceDiscovery` has the details.

## Runs

Each `.cfg` gives the set `Stimuli` of what the environment does, so that a run asks one
question with the actors that matter for it.

| run | instance | what it shows |
|---|---|---|
| `arc_safety` | 1 API thread, ON and deep sleep, all stimuli but destruction | type, `NoLostSignal`, `OnlyStandbyAnswerUnguards`, `OnlyLateAnswerSurvives`, refinement of `ArcMailbox` |
| `arc_live` | 2 API threads, which start ARC and switch CEC, timeouts, unplugging, failing `CECEnable` and the destructor, fair | `StatusMeansConnection`, `SignalledStateIsRead`, `ExitIsServed`, and `DisableCompletes` where no InitiateArc arrives; no deadlock check, since nothing runs after the destructor |
| `disc_safety` | 1 device, 2 retried items that it reports, 1 retry, hot plug, exceptions | type, `RequestsBounded`, `OnlyLateStepsFillAbsent` |
| `disc_live` | 1 device, 2 items, one of them retried and reported, 1 retry, exceptions, power, fair | `Discovery`, `StaleIsRemoved`, `JoinCompletes` |
| `key_events` | queue of 3 volume keys, 1 resetting thread and the destructor, all stimuli, fair | type, `ReceivedIsUpdated`, `OnlyClearStrands`, `QueueIsServed`, `VolumeIsFollowed`, `KeyThreadEnds`; no deadlock check, for the same reason |
| `source_safety` | an audio receiver (5, 1.0.0.0) and a player (4, 1.1.2.0) on one input, 1 removing thread, all stimuli | type, `OnlyAnnouncedSources`, `StandbySourceWakes`, `RouteLeadsThroughParents`, refinement of `Topology` |

Runs that refute what a comment or a document says of the program:

| run | property | what happens |
|---|---|---|
| `arc_disable_hangs` | `DisableCompletes` | InitiateArc, whose check of the setting came first, overwrites the termination `CECDisable` waits for; it spins for ever with `m_enableMutex` held |
| `arc_false_failure` | `FailureIsTrue` | the answer comes before the timer it should stop is started; a working ARC is reported as failed and reset |
| `disc_count` | `CountIsRight` | one device counted twice |
| `disc_deaf` | `ListensOnceAwake` | enabled in deep sleep, the frame listener is never attached |
| `key_left` | `NoKeyLeft` | a key queued between the empty test and the clearing of the flag waits beside a waiting thread |
| `route_incomplete` | `RouteIsComplete` | the report of a device behind the port's own device comes first and is dropped: its route is never complete, though all devices have reported |

Behaviour of the models that no run states as a property of its own: an InitiateArc in
standby stops the timer of a pending request and is dropped (I.cpp:3378, 3394; the one
exception in `OnlyStandbyAnswerUnguards`); an InitiateArc that was let in while the TV was
on is written after its power-off, and ARC stays up in standby (3382-3386; the exception in
`OnlyLateAnswerSurvives`), also over `CECDisable`, whose next `CECEnable` finds it; a timeout
of a request to a device that hot plug has removed marks a default as known in the cleared
entry (2694), as do a report that crosses the removal and any refusal (the exceptions in
`OnlyLateStepsFillAbsent`); a device that hot plug removes between the scan and the request
is asked after it has left (2897-2903); an exception in the POLL state ends the poll thread
and leaves the address, so that until the next `SetEnabled` devices are neither found nor
dropped by pings (2822); `CECEnable` that throws leaves a connection without the status,
over which the next one assigns another (3092-3117); a call for a ping between
the copy and the reset of `m_pollNextState` is forgotten (2785-2786); the key thread and the
detection timer set the audio status flags again after `CECDisable` has reset them (3534,
3556); a retry count that one item leaves behind makes the next one get its default after a
single request (2728). A withdrawal that `CECDisable` overtakes is dropped (2148), and its
device may be the source of the next session, having taken back its claim; an announcer
that a removal clears before 2193 becomes the source of a TV in standby without
OnWakeupFromStandby (the exceptions that `OnlyAnnouncedSources` and `StandbySourceWakes`
name). `m_currentActiveSource` survives `removeDevice` and `CECDisable`, so
that `GetActiveSource` describes a cleared device as the source (2551, 3200); several
devices stay flagged once the TV has been the source in between (2424), although one that
withdraws loses its flag; `removeDevice` forgets the port's own device whatever child of
the port leaves, which takes the routes of its siblings, and a child that leaves after the
port's own device keeps its place in the table (2526-2527); a power event between the poll
thread's read of `powerState` and its store leaves the TV's status ON in standby (2808). A
handler that tested `m_currentActiveSource` and reads it again may find -1 (2186); the model
takes the write as one that meets no device.

### Bounds

`arc_safety` has one API thread beside the power, receiver, timer and hot plug threads,
which all may be inside `stopArc` or a handler with it. The theorems have the same
properties for any number of API threads. In `arc_live`, two API threads suffice for two
threads inside the same unlocked window, one of them in `CECDisable` under `m_enableMutex`,
and for two that contend for that mutex, which is what `StatusMeansConnection` depends on;
the third party (timer, hot plug, destructor) is always there. That run has no power
events, so the TV is awake or in deep sleep from its first state on, and no frames. STANDBY and DEEP_SLEEP differ
only for the routing thread, ON and the others for requests, so the runs take ON with one
of them. The proofs drop all of these bounds. In `disc_safety` the items are the two
that are retried and share a retry count; version and vendor behave as an item that is not
retried, and the power status, which is one, is in `disc_live` beside one that is
retried: it is the item that `UPDATE` asks for again. One retry (three in the code) has
both sides of the boundary. Only one device is asked at a time and the others wait for it as they would for
a longer timeout, so one device shows the interleavings of its own answers, timeouts and
removals; `RequestsAreBounded` proves the bound for any number of devices. A key queue of
three is the shortest that is odd and longer than one after a pop, the case in which a
volume key gets no follow-up of its own. One kind of key suffices for the interleavings,
since the kinds differ only in what follows a key that was sent, and the volume key is the
kind that is followed; the run says nothing of the order of keys of different kinds. One
resetting thread is a removal or `CECDisable`, and the theorems
hold for any keys, queue and number of resetting threads. In `source_safety` the player is
two levels below the receiver, so that its route has a place in the middle that nobody
fills, and shares the port with it, so that either removal changes the other's route. Only
the player announces itself: with the TV, the withdrawal and the removal as its rivals
every branch of the handlers is taken, and the theorems cover any number of sources,
devices, inputs and removers. `route_incomplete` needs the reports only.

### Fairness

`Fairness` of `ArcRouting`: every thread that can take a step takes one (the scheduler), a
running timer expires. Nothing obliges the environment to call, answer, plug or sleep.
`Fairness` of `DeviceDiscovery`: the same for its threads, and strong fairness of
`PollElapsed`: the poll thread looks at an outstanding request every 500 ms and the clock
goes on, so a request that stays outstanding is in the end found older than 2 s. Strong
fairness is needed because the thread leaves the place of the test in between. For the same
reason it is assumed of the ping of each device that it ends, when it is tried again and
again, also with an answer or CECNoAckException: nothing in the code makes a device visible
whose pings fail otherwise for ever.
`Discovery` and `StaleIsRemoved` speak of a bus that is quiet for the device in question
(`Calm`: CEC on with an address and its poll thread, awake, no hot plug or power event under way) while frames
may still come; `DisableCompletes` of a time when `startArc` is no longer called;
`ExitIsServed` of an EXIT that neither the timer nor hot plug overwrites.
`Fairness` of `KeyEvents`: threads that can go on do and an active timer expires; keys,
reports, resets and power events need not come. `VolumeIsFollowed` holds for volume keys
only: a volume key that meets an odd queue of other keys gets no follow-up at all, which is
how the code thins out a burst and which the run therefore leaves out.

## Proofs

`ArcRoutingProofs` proves, for any finite or infinite set of API threads, any power modes
and any stimuli, from `ThreadAssumption` and `EnvironmentAssumption` (the threads are
distinct) only:

- `TypeCorrect`: `Spec => []TypeOK`, one lemma per group of actions.
- `NothingLost`: `Spec => []NoLostSignal`. A release is not in the same step as the write
  it announces, so the invariant speaks of all that is *under way*: the semaphore, the
  routing thread between `acquire` and its read, and every writer between its write and its
  release. With that the property is inductive relative to `TypeOK`: a write puts its thread
  into a signalling place, the release hands over to the semaphore, the acquire to the
  routing thread, the read makes `arcSeen` equal to the state, and every write without a
  signal writes TERMINATED.
- `GuardKept`: `Spec => OnlyStandbyAnswerUnguards`, by looking at every action that ends a
  guard: stopping a timer leaves a thread that will arm it again or write an answer.
- `StandbyKept`: `Spec => OnlyLateAnswerSurvives`. The power thread's way from the event to
  REQUEST_TERMINATION is excepted while it lasts (`StandbyPc`); `StandbyMove` says that no
  step of any thread that brings up neither ARC nor CEC leaves ARC up behind it, and the
  three places where the power thread can leave its way find ARC down or CEC disabled.
- `ConnectionIsOwned`: `Spec => []StatusMeansConnection`: the status is never set without a
  connection, while a connection without the status is what a failed `CECEnable` leaves.
  It is strengthened by `Ownership` (whoever is inside `CECEnable` or past `stopArc` in
  `CECDisable` owns `m_enableMutex`) and `Windows` (what has been written at each place
  inside of the two). Alone the property would be lost by a second thread in the other's
  window.
- `RefinesMailbox`: initial states map to initial states, every step to `Publish`,
  `Retire`, `Observe` or a stutter of `ArcMailbox`, with `fresh` mapped to `Underway`.

`KeyEventsProofs` proves, for any keys, any queue bound and any set of resetting threads,
from `KeyAssumption`:

- `KeyTypeCorrect`: `Spec => []TypeOK`. It needs that the queue is not empty where the
  thread pops, which holds because nobody else removes keys.
- `ReceivedUpdated`: `Spec => []ReceivedIsUpdated`. The property is about quiet states and
  not inductive; `Explained` says who is between two writes while the flags disagree: a
  report that has set `received` and not yet `info`, or a reset that has cleared `info` and
  not yet `received`. It depends on the order of these writes.
- `KeysStrandedByClear`: `Spec => []OnlyClearStrands`: a call raises the flag with every push,
  and what lowers it is the thread's clear, which records in `left` whether the queue was
  empty, or the thread's end.

`DeviceDiscoveryProofs` proves, for any finite set of devices, any items, any number of
retries and any stimuli, from `DiscoveryAssumption`:

- `DiscoveryTypeCorrect`: `Spec => []TypeOK`, strengthened by `Places`: a thread that is
  between the test and the last write of a removal or an addition names a device, a frame
  names one, and the poll thread is where a device is asked only with a device to ask.
- `RequestsAreBounded`: `Spec => []RequestsBounded`. `retry` bounds the timeouts, not the
  requests, and answers, removals and other threads' writes fall between; the invariant
  `AskedInv` says that the requests for the item a device is asked for are at most its
  retries, and one more where an answer may still be outstanding (`Slack`: the device that
  is asked now, or any once the thread has ended); where the first missing item is not the
  one last requested, and between two sessions, nothing is counted. It rests on
  the order in which items are asked for (`FirstOfMissing`, by well-founded induction from
  the library's `WFMin`).
- `AbsentEntriesStayClean`: `Spec => OnlyLateStepsFillAbsent`: `Unlist` makes an
  entry absent only for the thread that is about to `Blank` it (`UnlistClears`), which
  leaves it empty and the others alone (`BlankLeavesClean`), whichever of the three threads
  removes whatever device (`RemovalsFill`); an update touches one entry (`LearnFillsOne`).
  `Places` gives that the late step names the device it was about.

`ActiveSourceProofs` proves, for any devices, addresses, inputs, sources and removing
threads, from `PortAssumption` and `SourceAssumption`:

- `SourceTypeCorrect`: `Spec => []TypeOK`, with lemmas that the operators of `PortMap` keep
  the type of a port.
- `SourcesAreAnnounced`: `Spec => []OnlyAnnouncedSources`, with `Announced`: a device between
  its flag and its place as the source has claimed it. A withdrawal that is dropped changes
  neither side.
- `StandbySourcesWake`: `Spec => []StandbySourceWakes`, with `HeldInv`: a source whose
  announcement found the TV awake was set in this session, and if the power goes down under
  it, the event that will reset the source is on its way. It depends on the order of the
  writes in `updateActiveSource` and in `onPowerModeChanged`.
- `RoutesLeadThroughParents`: `Spec => []RouteLeadsThroughParents`, with `Anchored`: every
  entry of a port names a device whose address leads to that entry. The operators of
  `PortMap` keep that (`PortKeepsAnchors`), removals in any order included; `RouteClimbs`
  concludes that routes follow `Path`. The property assumes `DistinctSlots`: a place is
  named by its level and one digit, so 1.1.1.0 and 1.2.1.0 share one.
- `SourceImplementsTopology`: under `DistinctSlots`, `Spec => ImplementsTopology` and the whole
  specification of `Topology`. `AddEnters` and `RemoveLeaves` show what a method of
  `HdmiPortMap` does to the table of positions, `PlacesAreDistinct` that two positions never
  share a place of the code's table, and `PortsChange` that no other step changes the ports.
  The property that TLC checks leaves the steps aside that leave the ports alone, which map
  to stutters; the theorem has them too.
- `OccupantsArePlaced`: `Spec => []Tree!Placed`, proved of `Topology` and carried over by the
  refinement: nobody is ever at a position that is not its own.
- `RouteReadsTopology`: what `getRoute` returns is the table read along the path of the
  address, so that with the two theorems before it a route names the devices that are on the
  way and nobody else.

Only model-checked: the liveness properties (fairness and ENABLED are out of the prover's
reach): `SignalledStateIsRead`, `ExitIsServed`, `DisableCompletes`, `Discovery`,
`StaleIsRemoved`, `JoinCompletes`, `QueueIsServed`, `VolumeIsFollowed`, `KeyThreadEnds`; and
what the runs that expect a violation refute. Every invariant and every action property of
a passing run is a theorem.

## Plan

Done: ARC routing, discovery, keys and audio status, active source and port map, with their
theorems. Left:

1. `Lifecycle`: `Configure` and its failures, the destructor after the threads have ended,
   `Register` and `Unregister` against the threads that walk the notification list, and
   `libcecInitStatus` across sessions that fail half-way. Left out so far because the
   harm in it, walking a list while it changes and using a deleted connection, is undefined
   behaviour whose outcomes are outside of these models.
2. Physical addresses that change while a device stays on the bus: `addChild` does not
   remove the old place.
3. The composition of `DeviceDiscovery` and `ActiveSource`: which device the poll thread
   asks for its address before which, so that `RouteIsComplete` can be refuted from the
   order of the logical addresses alone.
4. An abstract device list that both of these modules implement. A list that devices enter
   and leave whole and are asked only while on it is not what the code keeps: removals take
   three unlocked steps, and a request may follow them.

## Not modelled

`Register`, `Unregister`, `Configure`'s failures and `libcecInitStatus` (see the plan);
`hdmiCecAudioDeviceConnected` and `m_audioDevicePowerStatusRequested`, which decide only
what getters answer and which notification is sent; a port's `m_isConnected` outside of
`ArcRouting`.

Message formats, logging, JSON, persistence, the language table, latency conversion, the
getters and the plugin shell: formatting, I/O or framework glue without interaction.

The CEC library, device settings, power manager and timer are outside of the repository and
appear as what the code does with them. Use after free of `smConnection` and data races on
single words are taken as atomic accesses in any order; the listeners' own behaviour is
left open.

A constant worth noting: the ARC comments speak of 3 seconds,
`HDMISINK_ARC_START_STOP_MAX_WAIT_MS` (I.cpp:55) is 4000; the models abstract the length.
