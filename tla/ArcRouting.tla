----------------------------- MODULE ArcRouting -----------------------------
(***************************************************************************)
(* The Audio Return Channel (ARC) control of HdmiCecSinkImplementation:    *)
(* the routing state shared by JSON-RPC calls, power events, CEC frames,   *)
(* hot plug, the start/stop timer, CECEnable/CECDisable and the destructor,*)
(* and the routing thread that a binary semaphore wakes to tell the audio  *)
(* system about the state it then reads.                                   *)
(*                                                                         *)
(* A step is what one thread does between two points where another thread *)
(* can be observed: a critical section of m_arcRoutingStateMutex is one    *)
(* step, an access outside of it is a step of its own.  pc[t] is where     *)
(* thread t is; a return leads back to the caller (Return).                *)
(***************************************************************************)
EXTENDS Naturals

CONSTANTS
  Api,         \* JSON-RPC worker threads
  Power,       \* the thread that delivers power mode changes
  Cec,         \* libcec's receiver thread, which runs the frame handlers
  Dtor,        \* the thread that drops the last reference
  NoThread,    \* m_enableMutex is free
  PowerModes,  \* power modes the TV goes through
  Stimuli      \* what the environment does

ASSUME ThreadAssumption ==
  /\ {Power, Cec, Dtor} \cap Api = {}
  /\ Power # Cec /\ Power # Dtor /\ Cec # Dtor
  /\ NoThread \notin Api \cup {Power, Cec, Dtor}

ASSUME EnvironmentAssumption ==
  /\ PowerModes \subseteq {"ON", "STANDBY", "DEEP_SLEEP"}
  /\ Stimuli \subseteq {"start", "stop", "enable", "disable", "power", "unplug",
                        "InitiateArc", "TerminateArc", "SystemAudioOff", "destroy", "throw"}

Threads == Api \cup {Power, Cec, Dtor}

ArcStates == {"REQUEST_INITIATION", "INITIATED", "REQUEST_TERMINATION", "TERMINATED", "EXIT"}

StartPc   == {"startCheck", "startWrite", "startSignal", "startFlag", "startArm"}
StopPc    == {"stopCheck", "stopTest", "stopWrite", "stopSignal", "stopFlag", "stopArm"}
EnablePc  == {"enable", "enOpen", "enStatus", "disable", "disWait", "disOff", "disConn", "disReset"}
HandlerPc == {"initTimer", "initPower", "initWrite", "termTimer", "termWrite", "sysAudioRead"}
ExitPc    == {"exitWrite", "exitSignal", "exitJoin", "destroyed"}
Pcs       == {"idle", "powerRead"} \cup StartPc \cup StopPc \cup EnablePc \cup HandlerPc \cup ExitPc

VARIABLES
  arcState,      \* m_currentArcRoutingState
  sem,           \* count_ of m_semSignaltoArcRoutingThread
  timer,         \* m_arcStartStopTimer is active
  expired,       \* its callback has notified the failure and is about to reset the state
  arcStarting,   \* m_arcstarting: the timer supervises an initiation
  power,         \* devicePowerState; powerState is ON exactly when this is
  setting,       \* cecSettingEnabled
  enabled,       \* cecEnableStatus
  conn,          \* smConnection is not null
  enableMutex,   \* owner of m_enableMutex
  pc,            \* where each thread is
  arcPc,         \* where threadArcRouting is
  arcSeen        \* its local currentArcRoutingState

timerVars == <<timer, expired, arcStarting>>
cecVars   == <<setting, enabled, conn, enableMutex>>
arcVars   == <<arcPc, arcSeen>>
vars      == <<arcState, sem, timerVars, power, cecVars, pc, arcVars>>

TypeOK ==
  /\ arcState \in ArcStates
  /\ sem \in 0..1
  /\ timer \in BOOLEAN /\ expired \in BOOLEAN /\ arcStarting \in BOOLEAN
  /\ power \in PowerModes
  /\ setting \in BOOLEAN /\ enabled \in BOOLEAN /\ conn \in BOOLEAN
  /\ enableMutex \in Threads \cup {NoThread}
  /\ pc \in [Threads -> Pcs]
  /\ arcPc \in {"loop", "acquire", "read", "send", "done"}
  /\ arcSeen \in ArcStates

\* Configure: TERMINATED, the semaphore taken once, the routing thread started and
\* CEC enabled when the stored setting says so, unless CECEnable throws: Configure
\* goes on, with a connection and without the status.
Init ==
  /\ arcState = "TERMINATED" /\ sem = 0
  /\ timer = FALSE /\ expired = FALSE /\ arcStarting = FALSE
  /\ power \in PowerModes
  /\ setting \in BOOLEAN /\ conn = setting
  /\ enabled \in (IF "throw" \in Stimuli THEN {setting, FALSE} ELSE {setting})
  /\ enableMutex = NoThread
  /\ pc = [t \in Threads |-> "idle"]
  /\ arcPc = "loop" /\ arcSeen = "TERMINATED"

Goto(t, from, to) == pc[t] = from /\ pc' = [pc EXCEPT ![t] = to]

\* Mutation: the count is not capped.
ReleaseUncapped == sem' = sem + 1

\* binary_semaphore::release(): the count saturates at 1.
Release == sem' = IF sem < 1 THEN sem + 1 ELSE sem

\* stopArc returns to CECDisable, which owns m_enableMutex, or to its other callers.
Return(t) == IF enableMutex = t THEN "disWait" ELSE "idle"

\* CECDisable returns to the destructor or to setEnabled.
AfterDisable(t) == IF t = Dtor THEN "exitWrite" ELSE "idle"

Alive == pc[Dtor] = "idle"
-----------------------------------------------------------------------------
(* startArc: SetupARCRouting(true). *)

StartCheck(t) ==
  /\ Goto(t, "startCheck", IF enabled THEN "startWrite" ELSE "idle")
  /\ UNCHANGED <<arcState, sem, timerVars, power, cecVars, arcVars>>

StartWrite(t) ==
  /\ Goto(t, "startWrite", "startSignal")
  /\ arcState' = "REQUEST_INITIATION"
  /\ UNCHANGED <<sem, timerVars, power, cecVars, arcVars>>

StartSignal(t) ==
  /\ Goto(t, "startSignal", "startFlag")
  /\ Release
  /\ UNCHANGED <<arcState, timerVars, power, cecVars, arcVars>>

StartFlag(t) ==
  /\ Goto(t, "startFlag", "startArm")
  /\ timer' = FALSE /\ arcStarting' = TRUE
  /\ UNCHANGED <<arcState, sem, expired, power, cecVars, arcVars>>

\* Mutation: the timer is stopped and not started again.
StartUnarmed(t) ==
  /\ Goto(t, "startArm", "idle")
  /\ UNCHANGED <<arcState, sem, timerVars, power, cecVars, arcVars>>

StartArm(t) ==
  /\ Goto(t, "startArm", "idle")
  /\ timer' = TRUE
  /\ UNCHANGED <<arcState, sem, expired, arcStarting, power, cecVars, arcVars>>

StartArc(t) == StartCheck(t) \/ StartWrite(t) \/ StartSignal(t) \/ StartFlag(t) \/ StartArm(t)
-----------------------------------------------------------------------------
(* stopArc: SetupARCRouting(false), power-off, SetSystemAudioMode(off), CECDisable. *)

StopCheck(t) ==
  /\ Goto(t, "stopCheck", IF enabled THEN "stopTest" ELSE Return(t))
  /\ UNCHANGED <<arcState, sem, timerVars, power, cecVars, arcVars>>

\* The test and the write are two critical sections.
StopTest(t) ==
  /\ Goto(t, "stopTest", IF arcState \in {"REQUEST_TERMINATION", "TERMINATED"}
                           THEN Return(t) ELSE "stopWrite")
  /\ UNCHANGED <<arcState, sem, timerVars, power, cecVars, arcVars>>

\* Mutation: requestArcTermination does not release the semaphore.
StopWriteUnsignalled(t) ==
  /\ Goto(t, "stopWrite", "stopFlag")
  /\ arcState' = "REQUEST_TERMINATION"
  /\ UNCHANGED <<sem, timerVars, power, cecVars, arcVars>>

StopWrite(t) ==
  /\ Goto(t, "stopWrite", "stopSignal")
  /\ arcState' = "REQUEST_TERMINATION"
  /\ UNCHANGED <<sem, timerVars, power, cecVars, arcVars>>

StopSignal(t) ==
  /\ Goto(t, "stopSignal", "stopFlag")
  /\ Release
  /\ UNCHANGED <<arcState, timerVars, power, cecVars, arcVars>>

StopFlag(t) ==
  /\ Goto(t, "stopFlag", "stopArm")
  /\ timer' = FALSE /\ arcStarting' = FALSE
  /\ UNCHANGED <<arcState, sem, expired, power, cecVars, arcVars>>

StopArm(t) ==
  /\ Goto(t, "stopArm", Return(t))
  /\ timer' = TRUE
  /\ UNCHANGED <<arcState, sem, expired, arcStarting, power, cecVars, arcVars>>

StopArc(t) == StopCheck(t) \/ StopTest(t) \/ StopWrite(t) \/ StopSignal(t) \/ StopFlag(t) \/ StopArm(t)
-----------------------------------------------------------------------------
(* SetupARCRouting and SetEnabled on an API thread. *)

SetupARCRouting(t) ==
  /\ Alive
  /\ \/ "start" \in Stimuli /\ Goto(t, "idle", "startCheck")
     \/ "stop" \in Stimuli /\ Goto(t, "idle", "stopCheck")
  /\ UNCHANGED <<arcState, sem, timerVars, power, cecVars, arcVars>>

\* setEnabled stores the setting before it waits for m_enableMutex.
SetEnabled(t) ==
  /\ Alive
  /\ \/ "enable" \in Stimuli /\ setting' = TRUE /\ Goto(t, "idle", "enable")
     \/ "disable" \in Stimuli /\ setting' = FALSE /\ Goto(t, "idle", "disable")
  /\ UNCHANGED <<arcState, sem, timerVars, power, enabled, conn, enableMutex, arcVars>>

\* Mutation: CECEnable does not take m_enableMutex.
EnableUnlocked(t) ==
  /\ \/ enabled /\ Goto(t, "enable", "idle") /\ UNCHANGED conn
     \/ ~enabled /\ Goto(t, "enable", "enOpen") /\ conn' = TRUE
  /\ UNCHANGED <<arcState, sem, timerVars, power, setting, enabled, enableMutex, arcVars>>

\* CECEnable holds m_enableMutex from its first line to its last.  The connection is
\* assigned first, over one that an earlier failure may have left.
EnableEnter(t) ==
  /\ enableMutex = NoThread
  /\ \/ enabled /\ Goto(t, "enable", "idle") /\ UNCHANGED <<conn, enableMutex>>
     \/ ~enabled /\ Goto(t, "enable", "enOpen") /\ conn' = TRUE /\ enableMutex' = t
  /\ UNCHANGED <<arcState, sem, timerVars, power, setting, enabled, arcVars>>

\* The connection is open, the TV's address registered and the poll thread started.
EnableOpen(t) ==
  /\ Goto(t, "enOpen", "enStatus")
  /\ UNCHANGED <<arcState, sem, timerVars, power, cecVars, arcVars>>

\* open() or addLogicalAddress() throws: the connection stays, without thread and status.
EnableFails(t) ==
  /\ "throw" \in Stimuli
  /\ Goto(t, "enOpen", "idle")
  /\ enableMutex' = NoThread
  /\ UNCHANGED <<arcState, sem, timerVars, power, setting, enabled, conn, arcVars>>

EnableStatus(t) ==
  /\ Goto(t, "enStatus", "idle")
  /\ enabled' = TRUE
  /\ enableMutex' = NoThread
  /\ UNCHANGED <<arcState, sem, timerVars, power, setting, conn, arcVars>>

CECEnable(t) == EnableEnter(t) \/ EnableOpen(t) \/ EnableFails(t) \/ EnableStatus(t)

\* CECDisable takes m_enableMutex and reads the state without the state's mutex.
DisableEnter(t) ==
  /\ enableMutex = NoThread
  /\ \/ ~enabled /\ Goto(t, "disable", AfterDisable(t)) /\ UNCHANGED enableMutex
     \/ enabled /\ enableMutex' = t
        /\ Goto(t, "disable", IF arcState = "TERMINATED" THEN "disOff" ELSE "stopCheck")
  /\ UNCHANGED <<arcState, sem, timerVars, power, setting, enabled, conn, arcVars>>

\* while (m_currentArcRoutingState != ARC_STATE_ARC_TERMINATED) usleep(500000)
DisableWait(t) ==
  /\ arcState = "TERMINATED"
  /\ Goto(t, "disWait", "disOff")
  /\ UNCHANGED <<arcState, sem, timerVars, power, cecVars, arcVars>>

DisableOff(t) ==
  /\ Goto(t, "disOff", "disConn")
  /\ enabled' = FALSE
  /\ UNCHANGED <<arcState, sem, timerVars, power, setting, conn, enableMutex, arcVars>>

DisableConn(t) ==
  /\ Goto(t, "disConn", "disReset")
  /\ conn' = FALSE
  /\ UNCHANGED <<arcState, sem, timerVars, power, setting, enabled, enableMutex, arcVars>>

\* The reset is outside the state's mutex.
DisableReset(t) ==
  /\ Goto(t, "disReset", AfterDisable(t))
  /\ arcState' = "TERMINATED"
  /\ enableMutex' = NoThread
  /\ UNCHANGED <<sem, timerVars, power, setting, enabled, conn, arcVars>>

CECDisable(t) == DisableEnter(t) \/ DisableWait(t) \/ DisableOff(t) \/ DisableConn(t) \/ DisableReset(t)
-----------------------------------------------------------------------------
(* onPowerModeChanged *)

PowerModeChanged ==
  /\ "power" \in Stimuli /\ Alive
  /\ \E m \in PowerModes :
       /\ power' = m
       /\ Goto(Power, "idle", IF m = "ON" THEN "idle" ELSE "powerRead")
  /\ UNCHANGED <<arcState, sem, timerVars, cecVars, arcVars>>

\* Mutation: only an initiation that is still pending is stopped.
PowerOffStopsRequest ==
  /\ Goto(Power, "powerRead", IF arcState = "REQUEST_INITIATION" THEN "stopCheck" ELSE "idle")
  /\ UNCHANGED <<arcState, sem, timerVars, power, cecVars, arcVars>>

PowerOffStopsArc ==
  /\ Goto(Power, "powerRead", IF arcState \in {"REQUEST_INITIATION", "INITIATED"}
                                THEN "stopCheck" ELSE "idle")
  /\ UNCHANGED <<arcState, sem, timerVars, power, cecVars, arcVars>>
-----------------------------------------------------------------------------
(* Frames from the audio system, handled one at a time on the receiver thread. *)

\* The poll thread attaches the frame listener; a connection whose CECEnable failed has none.
Attached == conn /\ (enabled \/ \E t \in Threads : pc[t] \in {"enStatus", "disConn"})

\* Process_InitiateArc and SetSystemAudioMode look at the setting before all else.
ReceiveFrame ==
  /\ Attached
  /\ \/ "InitiateArc" \in Stimuli /\ Goto(Cec, "idle", IF setting THEN "initTimer" ELSE "idle")
     \/ "TerminateArc" \in Stimuli /\ Goto(Cec, "idle", "termTimer")
     \/ "SystemAudioOff" \in Stimuli /\ Goto(Cec, "idle", IF setting THEN "sysAudioRead" ELSE "idle")
  /\ UNCHANGED <<arcState, sem, timerVars, power, cecVars, arcVars>>

InitiateStopTimer ==
  /\ Goto(Cec, "initTimer", "initPower")
  /\ timer' = FALSE
  /\ UNCHANGED <<arcState, sem, expired, arcStarting, power, cecVars, arcVars>>

\* The power state is read before the lock is taken.
InitiateReadPower ==
  /\ power = "ON"
  /\ Goto(Cec, "initPower", "initWrite")
  /\ UNCHANGED <<arcState, sem, timerVars, power, cecVars, arcVars>>

\* In standby the frame is dropped, though the timer has been stopped for it.
InitiateInStandby ==
  /\ power # "ON"
  /\ Goto(Cec, "initPower", "idle")
  /\ UNCHANGED <<arcState, sem, timerVars, power, cecVars, arcVars>>

InitiateWrite ==
  /\ Goto(Cec, "initWrite", "idle")
  /\ arcState' = "INITIATED"
  /\ Release
  /\ UNCHANGED <<timerVars, power, cecVars, arcVars>>

TerminateStopTimer ==
  /\ Goto(Cec, "termTimer", "termWrite")
  /\ timer' = FALSE
  /\ UNCHANGED <<arcState, sem, expired, arcStarting, power, cecVars, arcVars>>

TerminateWrite ==
  /\ Goto(Cec, "termWrite", "idle")
  /\ arcState' = "TERMINATED"
  /\ Release
  /\ UNCHANGED <<timerVars, power, cecVars, arcVars>>

SystemAudioOff ==
  /\ Goto(Cec, "sysAudioRead", IF arcState = "INITIATED" THEN "stopCheck" ELSE "idle")
  /\ UNCHANGED <<arcState, sem, timerVars, power, cecVars, arcVars>>
-----------------------------------------------------------------------------
(* The start/stop timer and hot plug. *)

\* The single-shot timer fires; its callback reports the failure ...
TimerExpires ==
  /\ timer /\ ~expired /\ pc[Dtor] # "destroyed"
  /\ timer' = FALSE /\ expired' = TRUE
  /\ UNCHANGED <<arcState, sem, arcStarting, power, cecVars, pc, arcVars>>

\* Mutation: the callback only reports.
TimerReportsOnly ==
  /\ expired /\ pc[Dtor] # "destroyed"
  /\ expired' = FALSE
  /\ UNCHANGED <<arcState, sem, timer, arcStarting, power, cecVars, pc, arcVars>>

\* ... and then resets the state under the lock, without a signal.
TimerResets ==
  /\ expired /\ pc[Dtor] # "destroyed"
  /\ expired' = FALSE
  /\ arcState' = "TERMINATED"
  /\ UNCHANGED <<sem, timer, arcStarting, power, cecVars, pc, arcVars>>

\* updateArcState when the ARC port has lost its cable: no signal, the timer goes on.
ArcPortUnplugged ==
  /\ "unplug" \in Stimuli /\ pc[Dtor] # "destroyed"
  /\ arcState' = "TERMINATED"
  /\ UNCHANGED <<sem, timerVars, power, cecVars, pc, arcVars>>
-----------------------------------------------------------------------------
(* threadArcRouting *)

\* Mutation: the deep sleep branch does not look at the state.
ArcLoopDeaf ==
  /\ arcPc = "loop" /\ power # "DEEP_SLEEP"
  /\ arcPc' = "acquire"
  /\ UNCHANGED <<arcState, sem, timerVars, power, cecVars, pc, arcSeen>>

\* In deep sleep the semaphore is not looked at and only EXIT ends the loop.
ArcLoop ==
  /\ arcPc = "loop"
  /\ IF power # "DEEP_SLEEP" THEN arcPc' = "acquire"
     ELSE arcState = "EXIT" /\ arcPc' = "done"
  /\ UNCHANGED <<arcState, sem, timerVars, power, cecVars, pc, arcSeen>>

\* Mutation: the copy read in an earlier round is used again.
ArcAcquireUnread ==
  /\ arcPc = "acquire" /\ sem > 0
  /\ sem' = sem - 1
  /\ arcPc' = "send"
  /\ UNCHANGED <<arcState, timerVars, power, cecVars, pc, arcSeen>>

ArcAcquire ==
  /\ arcPc = "acquire" /\ sem > 0
  /\ sem' = sem - 1
  /\ arcPc' = "read"
  /\ UNCHANGED <<arcState, timerVars, power, cecVars, pc, arcSeen>>

ArcRead ==
  /\ arcPc = "read"
  /\ arcSeen' = arcState
  /\ arcPc' = "send"
  /\ UNCHANGED <<arcState, sem, timerVars, power, cecVars, pc>>

\* The message that fits arcSeen goes out when there is a connection.
ArcSend ==
  /\ arcPc = "send"
  /\ arcPc' = IF arcSeen = "EXIT" THEN "done" ELSE "loop"
  /\ UNCHANGED <<arcState, sem, timerVars, power, cecVars, pc, arcSeen>>

ArcThread == ArcLoop \/ ArcAcquire \/ ArcRead \/ ArcSend
-----------------------------------------------------------------------------
(* The destructor: CECDisable, EXIT without the lock, release, join. *)

\* Power events are unregistered and no API call holds a reference any more.
Destroy ==
  /\ "destroy" \in Stimuli
  /\ \A t \in Api \cup {Power} : pc[t] = "idle"
  /\ Goto(Dtor, "idle", "disable")
  /\ UNCHANGED <<arcState, sem, timerVars, power, cecVars, arcVars>>

ExitWrite ==
  /\ Goto(Dtor, "exitWrite", "exitSignal")
  /\ arcState' = "EXIT"
  /\ UNCHANGED <<sem, timerVars, power, cecVars, arcVars>>

ExitSignal ==
  /\ Goto(Dtor, "exitSignal", "exitJoin")
  /\ Release
  /\ UNCHANGED <<arcState, timerVars, power, cecVars, arcVars>>

ExitJoin ==
  /\ arcPc = "done"
  /\ Goto(Dtor, "exitJoin", "destroyed")
  /\ UNCHANGED <<arcState, sem, timerVars, power, cecVars, arcVars>>
-----------------------------------------------------------------------------
Calls(t) == StartArc(t) \/ StopArc(t) \/ CECEnable(t) \/ CECDisable(t)

Handlers ==
  \/ InitiateStopTimer \/ InitiateReadPower \/ InitiateInStandby \/ InitiateWrite
  \/ TerminateStopTimer \/ TerminateWrite \/ SystemAudioOff

Exit == ExitWrite \/ ExitSignal \/ ExitJoin

Environment ==
  \/ \E t \in Api : SetupARCRouting(t) \/ SetEnabled(t)
  \/ PowerModeChanged \/ ReceiveFrame \/ ArcPortUnplugged \/ Destroy

Next ==
  \/ Environment
  \/ \E t \in Threads : Calls(t)
  \/ PowerOffStopsArc \/ Handlers
  \/ TimerExpires \/ TimerResets
  \/ ArcThread \/ Exit

\* Every thread that can go on does so and a timer that runs expires; nothing
\* obliges the environment to call, answer or plug anything.
Fairness ==
  /\ \A t \in Threads : WF_vars(Calls(t))
  /\ WF_vars(PowerOffStopsArc) /\ WF_vars(Handlers)
  /\ WF_vars(TimerExpires) /\ WF_vars(TimerResets)
  /\ WF_vars(ArcThread) /\ WF_vars(Exit)

Spec == Init /\ [][Next]_vars
FairSpec == Spec /\ Fairness
-----------------------------------------------------------------------------
(* Properties *)

Signalling == {"startSignal", "stopSignal", "exitSignal"}

\* A state is on its way to the routing thread: the semaphore is up, the thread
\* has taken it and is about to read, or a writer is about to release it.
Underway == sem = 1 \/ arcPc = "read" \/ \E t \in Threads : pc[t] \in Signalling

\* No state change that calls for a message is lost, though the binary semaphore
\* merges releases: when nothing is under way the routing thread has read the
\* present state.  TERMINATED is excepted, since the timer, hot plug and CECDisable
\* write it without a release.
NoLostSignal == ~Underway => arcState \in {arcSeen, "TERMINATED"}

Mailbox == INSTANCE ArcMailbox WITH States <- ArcStates, Retired <- "TERMINATED",
                                    cell <- arcState, seen <- arcSeen, fresh <- Underway

\* The state, the binary semaphore and the routing thread implement the mailbox.
ImplementsMailbox == Mailbox!Spec

Pending == arcState \in {"REQUEST_INITIATION", "REQUEST_TERMINATION"}

\* Somebody will end the pending request without an answer: the timer runs or its
\* callback does, the requester is about to arm it, or a handler that has stopped
\* it is about to write the state it was told.
GuardPc == {"startSignal", "startFlag", "startArm", "stopSignal", "stopFlag", "stopArm",
            "initPower", "initWrite", "termWrite"}
Guarded == timer \/ expired \/ \E t \in Threads : pc[t] \in GuardPc

\* stopArc and startArc promise a timeout for every request ("start a timer for
\* 3 sec to get the desired ARC_STATE_ARC_TERMINATED").
PendingIsGuarded == Pending => Guarded

\* A pending request is never left without its timeout, whatever requests, answers,
\* timeouts and hot plugs cross: the one step that can do it is an InitiateArc that
\* Process_InitiateArc drops in standby after it has stopped the timer.
OnlyStandbyAnswerUnguards ==
  [][PendingIsGuarded /\ ~PendingIsGuarded' => InitiateInStandby]_vars

\* arcStartStopTimerFunction reports that "Initiate ARC failed to get the
\* ARC_STATE_ARC_INITIATED state" only when that is so.
FailureIsTrue == [][TimerExpires /\ arcStarting => arcState # "INITIATED"]_vars

\* The TV is off, the handler of that power event is past its ARC part or has
\* found nothing to stop, and ARC is up on an enabled bus.
ArcUpInStandby ==
  /\ power # "ON" /\ enabled /\ arcState = "INITIATED"
  /\ pc[Power] \notin {"powerRead", "stopCheck", "stopTest", "stopWrite"}

\* onPowerModeChanged brings ARC down with the TV: whatever it crosses, ARC stays up
\* in standby only when Process_InitiateArc writes what it decided while the TV was
\* on, or when CECEnable completes over a state that such a write has left.
OnlyLateAnswerSurvives ==
  [][~ArcUpInStandby /\ ArcUpInStandby' => InitiateWrite \/ \E t \in Threads : EnableStatus(t)]_vars

\* However SetEnabled calls on several threads, a CECEnable that fails half-way and
\* the destructor cross, no connection is deleted under a status that says enabled: the
\* status is never set without one.  (The reverse is not true of the code: a CECEnable
\* that throws leaves a connection without the status.)
StatusMeansConnection == enabled => conn

Unread == arcState \notin {arcSeen, "TERMINATED"}

\* Outside of deep sleep the routing thread catches up with the state: what it has
\* not read yet does not stay unread.
SignalledStateIsRead == Unread ~> (~Unread \/ power = "DEEP_SLEEP")

\* The join in the destructor ends in every power mode when nobody overwrites EXIT.
ExitIsServed == <>[](arcState = "EXIT") => <>(pc[Dtor] = "destroyed")

StartingArc    == \E t \in Threads : pc[t] \in StartPc
DisableWaiting == \E t \in Threads : pc[t] = "disWait"

\* CECDisable does not spin for ever on a state that nobody will make TERMINATED,
\* once startArc is no longer called.
DisableCompletes == <>[]~StartingArc => (DisableWaiting ~> ~DisableWaiting)
=============================================================================
