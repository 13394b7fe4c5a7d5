-------------------------- MODULE ArcRoutingProofs --------------------------
(* Theorems about ArcRouting for any set of API threads, any power modes and *)
(* any subset of the environment's behaviour.                                *)
EXTENDS ArcRouting, TLAPS

\* The flags and the other variables are typed by different provers.
Flags ==
  /\ timer \in BOOLEAN /\ expired \in BOOLEAN /\ arcStarting \in BOOLEAN
  /\ setting \in BOOLEAN /\ enabled \in BOOLEAN /\ conn \in BOOLEAN

Control ==
  /\ arcState \in ArcStates
  /\ sem \in 0..1
  /\ power \in PowerModes
  /\ enableMutex \in Threads \cup {NoThread}
  /\ pc \in [Threads -> Pcs]
  /\ arcPc \in {"loop", "acquire", "read", "send", "done"}
  /\ arcSeen \in ArcStates

LEMMA TypeParts == TypeOK <=> Flags /\ Control
BY Zenon DEF TypeOK, Flags, Control

LEMMA InitType == Init => TypeOK
<1> SUFFICES ASSUME Init PROVE TypeOK
  OBVIOUS
<1>1. Flags
  BY Zenon DEF Init, Flags
<1>2. Control
  BY DEF Init, Control, Pcs, ArcStates
<1> QED BY <1>1, <1>2, TypeParts

LEMMA StepFlags == Flags /\ [Next]_vars => Flags'
<1> SUFFICES ASSUME Flags, [Next]_vars PROVE Flags'
  OBVIOUS
<1> USE Zenon DEF Flags, timerVars, cecVars, arcVars
<1>1. ASSUME NEW t \in Threads, StartArc(t) PROVE Flags'
  BY <1>1 DEF StartArc, StartCheck, StartWrite, StartSignal, StartFlag, StartArm
<1>2. ASSUME NEW t \in Threads, StopArc(t) PROVE Flags'
  BY <1>2 DEF StopArc, StopCheck, StopTest, StopWrite, StopSignal, StopFlag, StopArm
<1>3. ASSUME NEW t \in Threads, CECEnable(t) \/ CECDisable(t) PROVE Flags'
  BY <1>3 DEF CECEnable, EnableEnter, EnableOpen, EnableFails, EnableStatus, CECDisable, DisableEnter, DisableWait, DisableOff, DisableConn, DisableReset
<1>4. CASE Environment
  BY <1>4 DEF Environment, SetupARCRouting, SetEnabled, PowerModeChanged, ReceiveFrame, ArcPortUnplugged, Destroy
<1>5. CASE PowerOffStopsArc \/ Handlers
  BY <1>5 DEF PowerOffStopsArc, Handlers, InitiateStopTimer, InitiateReadPower, InitiateInStandby,
              InitiateWrite, TerminateStopTimer, TerminateWrite, SystemAudioOff
<1>6. CASE TimerExpires \/ TimerResets \/ ArcThread \/ Exit
  BY <1>6 DEF TimerExpires, TimerResets, ArcThread, ArcLoop, ArcAcquire, ArcRead, ArcSend,
              Exit, ExitWrite, ExitSignal, ExitJoin
<1>7. CASE UNCHANGED vars
  BY <1>7 DEF vars
<1> QED BY <1>1, <1>2, <1>3, <1>4, <1>5, <1>6, <1>7 DEF Next, Calls

LEMMA StepControl == Control /\ [Next]_vars => Control'
<1> SUFFICES ASSUME Control, [Next]_vars PROVE Control'
  OBVIOUS
<1> USE DEF Control, Goto, Release, Return, AfterDisable, ArcStates, Pcs, StartPc, StopPc, EnablePc,
            HandlerPc, ExitPc, timerVars, cecVars, arcVars
<1>1. ASSUME NEW t \in Threads, StartArc(t) PROVE Control'
  BY <1>1 DEF StartArc, StartCheck, StartWrite, StartSignal, StartFlag, StartArm
<1>2. ASSUME NEW t \in Threads, StopArc(t) PROVE Control'
  BY <1>2 DEF StopArc, StopCheck, StopTest, StopWrite, StopSignal, StopFlag, StopArm
<1>3. ASSUME NEW t \in Threads, CECEnable(t) \/ CECDisable(t) PROVE Control'
  BY <1>3 DEF CECEnable, EnableEnter, EnableOpen, EnableFails, EnableStatus, CECDisable, DisableEnter, DisableWait, DisableOff, DisableConn, DisableReset
<1>4. CASE Environment
  BY <1>4 DEF Environment, SetupARCRouting, SetEnabled, PowerModeChanged, ReceiveFrame, ArcPortUnplugged, Destroy, Threads
<1>5. CASE PowerOffStopsArc \/ Handlers
  BY <1>5 DEF PowerOffStopsArc, Handlers, InitiateStopTimer, InitiateReadPower, InitiateInStandby,
              InitiateWrite, TerminateStopTimer, TerminateWrite, SystemAudioOff, Threads
<1>6. CASE TimerExpires \/ TimerResets \/ ArcThread \/ Exit
  BY <1>6 DEF TimerExpires, TimerResets, ArcThread, ArcLoop, ArcAcquire, ArcRead, ArcSend,
              Exit, ExitWrite, ExitSignal, ExitJoin, Threads
<1>7. CASE UNCHANGED vars
  BY <1>7 DEF vars
<1> QED BY <1>1, <1>2, <1>3, <1>4, <1>5, <1>6, <1>7 DEF Next, Calls

\* Every reachable state has the types TypeOK states.
THEOREM TypeCorrect == Spec => []TypeOK
<1>1. TypeOK /\ [Next]_vars => TypeOK'
  <2> SUFFICES ASSUME Flags, Control, [Next]_vars PROVE Flags' /\ Control'
    BY TypeParts DEF TypeOK, Flags, Control
  <2> QED BY StepFlags, StepControl
<1> QED BY InitType, <1>1, PTL DEF Spec
-----------------------------------------------------------------------------
(* The routing thread is told: refinement of ArcMailbox. *)

Idle == Mailbox!Next \/ UNCHANGED Mailbox!mailbox

\* A move of one thread that neither starts nor ends a signal, and leaves the
\* semaphore and the routing thread alone, leaves what is under way alone.
LEMMA QuietMove ==
  ASSUME Control, NEW t \in Threads, NEW from, NEW to, Goto(t, from, to),
         from \notin Signalling, to \notin Signalling, UNCHANGED <<sem, arcPc>>
  PROVE  Underway' <=> Underway
BY DEF Control, Goto, Underway

LEMMA StepMailbox == Control /\ [Next]_vars => [Mailbox!Next]_(Mailbox!mailbox)
<1> SUFFICES ASSUME Control, [Next]_vars PROVE Idle
  BY DEF Idle
<1>a. Underway \in BOOLEAN /\ Underway' \in BOOLEAN
  BY DEF Underway
<1>q. ASSUME Underway' <=> Underway, UNCHANGED <<arcState, arcSeen>> PROVE Idle
  BY <1>q DEF Idle, Mailbox!mailbox
<1>r. ASSUME Underway' <=> Underway, arcState' = "TERMINATED", UNCHANGED arcSeen PROVE Idle
  BY <1>r DEF Idle, Mailbox!Next, Mailbox!Retire
<1>p. ASSUME Underway', arcState' \in ArcStates, UNCHANGED arcSeen PROVE Idle
  BY <1>p, <1>a DEF Idle, Mailbox!Next, Mailbox!Publish
<1>1. ASSUME NEW t \in Threads, StartArc(t) PROVE Idle
  <2>1. CASE StartCheck(t)
    BY <2>1, <1>q, QuietMove DEF StartCheck, Signalling, arcVars
  <2>2. CASE StartWrite(t)
    BY <2>2, <1>p DEF StartWrite, Goto, Control, Signalling, Underway, ArcStates, arcVars
  <2>3. CASE StartSignal(t)
    BY <2>3, <1>q DEF StartSignal, Goto, Release, Control, Signalling, Underway, arcVars
  <2>4. CASE StartFlag(t)
    BY <2>4, <1>q, QuietMove DEF StartFlag, Signalling, arcVars
  <2>5. CASE StartArm(t)
    BY <2>5, <1>q, QuietMove DEF StartArm, Signalling, arcVars
  <2> QED BY <1>1, <2>1, <2>2, <2>3, <2>4, <2>5 DEF StartArc
<1>2. ASSUME NEW t \in Threads, StopArc(t) PROVE Idle
  <2>1. CASE StopCheck(t)
    BY <2>1, <1>q, QuietMove DEF StopCheck, Return, Signalling, arcVars
  <2>2. CASE StopTest(t)
    BY <2>2, <1>q, QuietMove DEF StopTest, Return, Signalling, arcVars
  <2>3. CASE StopWrite(t)
    BY <2>3, <1>p DEF StopWrite, Goto, Control, Signalling, Underway, ArcStates, arcVars
  <2>4. CASE StopSignal(t)
    BY <2>4, <1>q DEF StopSignal, Goto, Release, Control, Signalling, Underway, arcVars
  <2>5. CASE StopFlag(t)
    BY <2>5, <1>q, QuietMove DEF StopFlag, Signalling, arcVars
  <2>6. CASE StopArm(t)
    BY <2>6, <1>q, QuietMove DEF StopArm, Return, Signalling, arcVars
  <2> QED BY <1>2, <2>1, <2>2, <2>3, <2>4, <2>5, <2>6 DEF StopArc
<1>3. ASSUME NEW t \in Threads, CECEnable(t) \/ CECDisable(t) PROVE Idle
  <2>1. CASE CECEnable(t)
    BY <2>1, <1>q, QuietMove DEF CECEnable, EnableEnter, EnableOpen, EnableFails, EnableStatus, Signalling, arcVars
  <2>2. CASE DisableEnter(t)
    BY <2>2, <1>q, QuietMove DEF DisableEnter, AfterDisable, Signalling, arcVars
  <2>3. CASE DisableWait(t)
    BY <2>3, <1>q, QuietMove DEF DisableWait, Signalling, arcVars
  <2>4. CASE DisableOff(t)
    BY <2>4, <1>q, QuietMove DEF DisableOff, Signalling, arcVars
  <2>5. CASE DisableConn(t)
    BY <2>5, <1>q, QuietMove DEF DisableConn, Signalling, arcVars
  <2>6. CASE DisableReset(t)
    BY <2>6, <1>r, QuietMove DEF DisableReset, AfterDisable, Signalling, arcVars
  <2> QED BY <1>3, <2>1, <2>2, <2>3, <2>4, <2>5, <2>6 DEF CECDisable
<1>4. CASE Environment
  <2>1. ASSUME NEW t \in Api, SetupARCRouting(t) \/ SetEnabled(t) PROVE Idle
    BY <2>1, <1>q, QuietMove DEF SetupARCRouting, SetEnabled, Signalling, arcVars, Threads
  <2>2. CASE PowerModeChanged
    BY <2>2, <1>q, QuietMove DEF PowerModeChanged, Signalling, arcVars, Threads
  <2>3. CASE ReceiveFrame
    BY <2>3, <1>q, QuietMove DEF ReceiveFrame, Signalling, arcVars, Threads
  <2>4. CASE ArcPortUnplugged
    BY <2>4, <1>r DEF ArcPortUnplugged, Underway, arcVars
  <2>5. CASE Destroy
    BY <2>5, <1>q, QuietMove DEF Destroy, Signalling, arcVars, Threads
  <2> QED BY <1>4, <2>1, <2>2, <2>3, <2>4, <2>5 DEF Environment
<1>5. CASE PowerOffStopsArc \/ Handlers
  <2> Power \in Threads /\ Cec \in Threads
    BY DEF Threads
  <2>1. CASE PowerOffStopsArc
    BY <2>1, <1>q, QuietMove DEF PowerOffStopsArc, Signalling, arcVars
  <2>2. CASE InitiateStopTimer \/ InitiateReadPower \/ InitiateInStandby
    BY <2>2, <1>q, QuietMove DEF InitiateStopTimer, InitiateReadPower, InitiateInStandby, Signalling, arcVars
  <2>3. CASE InitiateWrite \/ TerminateWrite
    BY <2>3, <1>p DEF InitiateWrite, TerminateWrite, Release, Control, Underway, ArcStates, arcVars
  <2>4. CASE TerminateStopTimer \/ SystemAudioOff
    BY <2>4, <1>q, QuietMove DEF TerminateStopTimer, SystemAudioOff, Signalling, arcVars
  <2> QED BY <1>5, <2>1, <2>2, <2>3, <2>4 DEF Handlers
<1>6. CASE TimerExpires \/ TimerResets
  BY <1>6, <1>q, <1>r DEF TimerExpires, TimerResets, Underway, arcVars
<1>7. CASE ArcThread
  <2>1. CASE ArcLoop \/ ArcAcquire \/ ArcSend
    BY <2>1, <1>q DEF ArcLoop, ArcAcquire, ArcSend, Control, Underway
  <2>2. CASE ArcRead
    <3>1. Underway /\ arcSeen' = arcState /\ UNCHANGED arcState
      BY <2>2 DEF ArcRead, Underway
    <3> QED BY <3>1, <1>a DEF Idle, Mailbox!Next, Mailbox!Observe
  <2> QED BY <1>7, <2>1, <2>2 DEF ArcThread
<1>8. CASE Exit
  <2> Dtor \in Threads
    BY DEF Threads
  <2>1. CASE ExitWrite
    BY <2>1, <1>p DEF ExitWrite, Goto, Control, Signalling, Underway, ArcStates, arcVars
  <2>2. CASE ExitSignal
    BY <2>2, <1>q DEF ExitSignal, Goto, Release, Control, Signalling, Underway, arcVars
  <2>3. CASE ExitJoin
    BY <2>3, <1>q, QuietMove DEF ExitJoin, Signalling, arcVars
  <2> QED BY <1>8, <2>1, <2>2, <2>3 DEF Exit
<1>9. CASE UNCHANGED vars
  BY <1>9, <1>q DEF vars, arcVars, Underway
<1> QED BY <1>1, <1>2, <1>3, <1>4, <1>5, <1>6, <1>7, <1>8, <1>9 DEF Next, Calls

\* ArcRouting implements ArcMailbox: its writers publish or retire, the routing
\* thread observes, and every other step is a stutter.
THEOREM RefinesMailbox == Spec => ImplementsMailbox
<1>1. Init => Mailbox!Init
  BY DEF Init, Mailbox!Init, Underway, Signalling
<1>2. TypeOK => Control
  BY TypeParts
<1> QED BY <1>1, <1>2, StepMailbox, TypeCorrect, PTL DEF Spec, ImplementsMailbox, Mailbox!Spec

\* No state change that calls for a message is lost.
THEOREM NothingLost == Spec => []NoLostSignal
<1>1. Init => NoLostSignal
  BY DEF Init, NoLostSignal
<1>2. TypeOK /\ NoLostSignal /\ [Next]_vars => NoLostSignal'
  <2> SUFFICES ASSUME Control, NoLostSignal, [Next]_vars PROVE NoLostSignal'
    BY TypeParts
  <2>1. CASE Mailbox!Publish
    BY <2>1 DEF Mailbox!Publish, NoLostSignal
  <2>2. CASE Mailbox!Retire
    BY <2>2 DEF Mailbox!Retire, NoLostSignal
  <2>3. CASE Mailbox!Observe
    BY <2>3 DEF Mailbox!Observe, NoLostSignal
  <2>4. CASE UNCHANGED Mailbox!mailbox
    BY <2>4 DEF Mailbox!mailbox, NoLostSignal
  <2> QED BY <2>1, <2>2, <2>3, <2>4, StepMailbox DEF Mailbox!Next
<1> QED BY <1>1, <1>2, TypeCorrect, PTL DEF Spec
-----------------------------------------------------------------------------
(* A pending request keeps its timeout. *)

\* A move from a place that guards nothing, which neither makes a request nor
\* touches the timer, leaves every pending request guarded.
LEMMA UnrelatedMove ==
  ASSUME Control, PendingIsGuarded, NEW t \in Threads, NEW from, NEW to, Goto(t, from, to),
         from \notin GuardPc, Pending' => Pending, timer => timer', expired => expired'
  PROVE  PendingIsGuarded'
BY DEF Control, Goto, Guarded, PendingIsGuarded

\* A thread that arrives at a guarding place guards what is pending.
LEMMA GuardingMove ==
  ASSUME Control, NEW t \in Threads, NEW from, NEW to, Goto(t, from, to), to \in GuardPc
  PROVE  PendingIsGuarded'
BY DEF Control, Goto, Guarded, PendingIsGuarded

LEMMA StepGuard ==
  Control /\ PendingIsGuarded /\ [Next]_vars => PendingIsGuarded' \/ InitiateInStandby
<1> SUFFICES ASSUME Control, PendingIsGuarded, [Next]_vars, ~InitiateInStandby
             PROVE  PendingIsGuarded'
  OBVIOUS
<1>a. ASSUME timer' \/ expired' PROVE PendingIsGuarded'
  BY <1>a DEF PendingIsGuarded, Guarded
<1>b. ASSUME arcState' \in {"INITIATED", "TERMINATED", "EXIT"} PROVE PendingIsGuarded'
  BY <1>b DEF PendingIsGuarded, Pending
<1> USE DEF Pending, GuardPc, timerVars, cecVars, arcVars
<1>1. ASSUME NEW t \in Threads, StartArc(t) PROVE PendingIsGuarded'
  <2>1. CASE StartCheck(t)
    BY <2>1, UnrelatedMove DEF StartCheck
  <2>2. CASE StartWrite(t) \/ StartSignal(t) \/ StartFlag(t)
    BY <2>2, GuardingMove DEF StartWrite, StartSignal, StartFlag
  <2>3. CASE StartArm(t)
    BY <2>3, <1>a DEF StartArm
  <2> QED BY <1>1, <2>1, <2>2, <2>3 DEF StartArc
<1>2. ASSUME NEW t \in Threads, StopArc(t) PROVE PendingIsGuarded'
  <2>1. CASE StopCheck(t)
    BY <2>1, UnrelatedMove DEF StopCheck
  <2>2. CASE StopTest(t)
    BY <2>2, UnrelatedMove DEF StopTest
  <2>3. CASE StopWrite(t) \/ StopSignal(t) \/ StopFlag(t)
    BY <2>3, GuardingMove DEF StopWrite, StopSignal, StopFlag
  <2>4. CASE StopArm(t)
    BY <2>4, <1>a DEF StopArm
  <2> QED BY <1>2, <2>1, <2>2, <2>3, <2>4 DEF StopArc
<1>3. ASSUME NEW t \in Threads, CECEnable(t) \/ CECDisable(t) PROVE PendingIsGuarded'
  <2>1. CASE CECEnable(t)
    BY <2>1, UnrelatedMove DEF CECEnable, EnableEnter, EnableOpen, EnableFails, EnableStatus
  <2>2. CASE DisableEnter(t)
    BY <2>2, UnrelatedMove DEF DisableEnter
  <2>3. CASE DisableWait(t)
    BY <2>3, UnrelatedMove DEF DisableWait
  <2>4. CASE DisableOff(t)
    BY <2>4, UnrelatedMove DEF DisableOff
  <2>5. CASE DisableConn(t)
    BY <2>5, UnrelatedMove DEF DisableConn
  <2>6. CASE DisableReset(t)
    BY <2>6, <1>b DEF DisableReset
  <2> QED BY <1>3, <2>1, <2>2, <2>3, <2>4, <2>5, <2>6 DEF CECDisable
<1>4. CASE Environment
  <2> USE DEF Threads
  <2>1. ASSUME NEW t \in Api, SetupARCRouting(t) \/ SetEnabled(t) PROVE PendingIsGuarded'
    BY <2>1, UnrelatedMove DEF SetupARCRouting, SetEnabled
  <2>2. CASE PowerModeChanged
    BY <2>2, UnrelatedMove DEF PowerModeChanged
  <2>3. CASE ReceiveFrame
    BY <2>3, UnrelatedMove DEF ReceiveFrame
  <2>4. CASE ArcPortUnplugged
    BY <2>4, <1>b DEF ArcPortUnplugged
  <2>5. CASE Destroy
    BY <2>5, UnrelatedMove DEF Destroy
  <2> QED BY <1>4, <2>1, <2>2, <2>3, <2>4, <2>5 DEF Environment
<1>5. CASE PowerOffStopsArc \/ Handlers
  <2> Power \in Threads /\ Cec \in Threads
    BY DEF Threads
  <2>1. CASE PowerOffStopsArc
    BY <2>1, UnrelatedMove DEF PowerOffStopsArc
  <2>2. CASE InitiateStopTimer \/ InitiateReadPower \/ TerminateStopTimer
    BY <2>2, GuardingMove DEF InitiateStopTimer, InitiateReadPower, TerminateStopTimer
  <2>3. CASE InitiateWrite \/ TerminateWrite
    BY <2>3, <1>b DEF InitiateWrite, TerminateWrite
  <2>4. CASE SystemAudioOff
    BY <2>4, UnrelatedMove DEF SystemAudioOff
  <2> QED BY <1>5, <2>1, <2>2, <2>3, <2>4 DEF Handlers
<1>6. CASE TimerExpires \/ TimerResets
  BY <1>6, <1>a, <1>b DEF TimerExpires, TimerResets
<1>7. CASE ArcThread \/ UNCHANGED vars
  BY <1>7 DEF ArcThread, ArcLoop, ArcAcquire, ArcRead, ArcSend, vars, PendingIsGuarded, Guarded
<1>8. CASE Exit
  <2> Dtor \in Threads
    BY DEF Threads
  <2>1. CASE ExitWrite
    BY <2>1, <1>b DEF ExitWrite
  <2>2. CASE ExitSignal
    BY <2>2, UnrelatedMove DEF ExitSignal
  <2>3. CASE ExitJoin
    BY <2>3, UnrelatedMove DEF ExitJoin
  <2> QED BY <1>8, <2>1, <2>2, <2>3 DEF Exit
<1> QED BY <1>1, <1>2, <1>3, <1>4, <1>5, <1>6, <1>7, <1>8 DEF Next, Calls

\* A pending request loses its timeout only to an InitiateArc dropped in standby.
THEOREM GuardKept == Spec => OnlyStandbyAnswerUnguards
<1>1. TypeOK /\ [Next]_vars =>
        [PendingIsGuarded /\ ~PendingIsGuarded' => InitiateInStandby]_vars
  BY TypeParts, StepGuard
<1> QED BY <1>1, TypeCorrect, PTL DEF Spec, OnlyStandbyAnswerUnguards
-----------------------------------------------------------------------------
(* ARC in standby. *)

StandbyPc == {"powerRead", "stopCheck", "stopTest", "stopWrite"}

\* A move that brings neither ARC up nor CEC, and by which the power thread does
\* not leave its ARC part, leaves ARC as it was.
LEMMA StandbyMove ==
  ASSUME Control, NEW t \in Threads, NEW from, NEW to, Goto(t, from, to),
         t = Power /\ from \in StandbyPc => to \in StandbyPc,
         UNCHANGED power, enabled' => enabled, arcState' = "INITIATED" => arcState = "INITIATED",
         ArcUpInStandby'
  PROVE  ArcUpInStandby
BY DEF Control, Goto, ArcUpInStandby, StandbyPc, Threads

LEMMA StepStandby ==
  Control /\ [Next]_vars /\ ArcUpInStandby' =>
    ArcUpInStandby \/ InitiateWrite \/ \E t \in Threads : EnableStatus(t)
<1> SUFFICES ASSUME Control, [Next]_vars, ArcUpInStandby',
                    ~InitiateWrite, \A t \in Threads : ~EnableStatus(t)
             PROVE  ArcUpInStandby
  OBVIOUS
<1> USE DEF StandbyPc, timerVars, cecVars, arcVars
<1>a. arcState' = "INITIATED" /\ enabled' /\ power' # "ON"
  BY DEF ArcUpInStandby
<1>1. ASSUME NEW t \in Threads, StartArc(t) PROVE ArcUpInStandby
  <2>1. CASE StartCheck(t) \/ StartSignal(t) \/ StartFlag(t) \/ StartArm(t)
    BY <2>1, StandbyMove DEF StartCheck, StartSignal, StartFlag, StartArm
  <2>2. CASE StartWrite(t)
    BY <2>2, <1>a DEF StartWrite
  <2> QED BY <1>1, <2>1, <2>2 DEF StartArc
<1>2. ASSUME NEW t \in Threads, StopArc(t) PROVE ArcUpInStandby
  <2>1. CASE StopCheck(t)
    BY <2>1, <1>a, StandbyMove DEF StopCheck
  <2>2. CASE StopTest(t)
    BY <2>2, <1>a, StandbyMove DEF StopTest
  <2>3. CASE StopWrite(t)
    BY <2>3, <1>a DEF StopWrite
  <2>4. CASE StopSignal(t) \/ StopFlag(t) \/ StopArm(t)
    BY <2>4, StandbyMove DEF StopSignal, StopFlag, StopArm
  <2> QED BY <1>2, <2>1, <2>2, <2>3, <2>4 DEF StopArc
<1>3. ASSUME NEW t \in Threads, CECEnable(t) \/ CECDisable(t) PROVE ArcUpInStandby
  <2>1. CASE EnableEnter(t) \/ EnableOpen(t) \/ EnableFails(t)
    BY <2>1, StandbyMove DEF EnableEnter, EnableOpen, EnableFails
  <2>2. CASE DisableEnter(t) \/ DisableWait(t) \/ DisableConn(t)
    BY <2>2, StandbyMove DEF DisableEnter, DisableWait, DisableConn
  <2>3. CASE DisableOff(t) \/ DisableReset(t)
    BY <2>3, <1>a DEF DisableOff, DisableReset
  <2> QED BY <1>3, <2>1, <2>2, <2>3 DEF CECEnable, CECDisable
<1>4. CASE Environment
  <2> USE DEF Threads
  <2>1. ASSUME NEW t \in Api, SetupARCRouting(t) \/ SetEnabled(t) PROVE ArcUpInStandby
    BY <2>1, StandbyMove DEF SetupARCRouting, SetEnabled
  <2>2. CASE PowerModeChanged
    BY <2>2, <1>a DEF PowerModeChanged, Goto, Control, ArcUpInStandby
  <2>3. CASE ReceiveFrame
    BY <2>3, StandbyMove, ThreadAssumption DEF ReceiveFrame
  <2>4. CASE ArcPortUnplugged
    BY <2>4, <1>a DEF ArcPortUnplugged
  <2>5. CASE Destroy
    BY <2>5, StandbyMove, ThreadAssumption DEF Destroy
  <2> QED BY <1>4, <2>1, <2>2, <2>3, <2>4, <2>5 DEF Environment
<1>5. CASE PowerOffStopsArc
  BY <1>5, <1>a, StandbyMove DEF PowerOffStopsArc, Threads
<1>6. CASE Handlers
  <2> Cec \in Threads
    BY DEF Threads
  <2>1. CASE InitiateStopTimer \/ InitiateReadPower \/ InitiateInStandby \/ TerminateStopTimer \/ SystemAudioOff
    BY <2>1, StandbyMove, ThreadAssumption
       DEF InitiateStopTimer, InitiateReadPower, InitiateInStandby, TerminateStopTimer, SystemAudioOff
  <2>2. CASE TerminateWrite
    BY <2>2, <1>a DEF TerminateWrite
  <2> QED BY <1>6, <2>1, <2>2 DEF Handlers
<1>7. CASE TimerExpires \/ TimerResets \/ ArcThread \/ UNCHANGED vars
  BY <1>7, <1>a DEF TimerExpires, TimerResets, ArcThread, ArcLoop, ArcAcquire, ArcRead, ArcSend, vars, ArcUpInStandby
<1>8. CASE Exit
  <2> Dtor \in Threads
    BY DEF Threads
  <2>1. CASE ExitWrite
    BY <2>1, <1>a DEF ExitWrite
  <2>2. CASE ExitSignal \/ ExitJoin
    BY <2>2, StandbyMove DEF ExitSignal, ExitJoin
  <2> QED BY <1>8, <2>1, <2>2 DEF Exit
<1> QED BY <1>1, <1>2, <1>3, <1>4, <1>5, <1>6, <1>7, <1>8 DEF Next, Calls

\* ARC stays up in standby only by an answer decided while the TV was on, or by
\* enabling CEC over the state such an answer has left.
THEOREM StandbyKept == Spec => OnlyLateAnswerSurvives
<1>1. TypeOK /\ [Next]_vars =>
        [~ArcUpInStandby /\ ArcUpInStandby' => InitiateWrite \/ \E t \in Threads : EnableStatus(t)]_vars
  BY TypeParts, StepStandby
<1> QED BY <1>1, TypeCorrect, PTL DEF Spec, OnlyLateAnswerSurvives
-----------------------------------------------------------------------------
(* m_enableMutex: one thread at a time opens or closes the connection. *)

OwnerPc  == {"enOpen", "enStatus", "disWait", "disOff", "disConn", "disReset"}
WindowPc == {"enOpen", "enStatus", "disConn"}

\* StatusMeansConnection alone is not inductive: whoever is inside CECEnable or
\* past stopArc in CECDisable owns the mutex, has assigned the connection before it
\* sets the status, and has cleared the status before it deletes the connection.
Ownership == \A t \in Threads : pc[t] \in OwnerPc => enableMutex = t

Windows == \A t \in Threads : /\ pc[t] \in {"enOpen", "enStatus"} => conn /\ ~enabled
                              /\ pc[t] = "disConn" => ~enabled

Switch == Ownership /\ Windows /\ StatusMeansConnection

\* A move outside of the two windows that takes no ownership it does not have.
LEMMA BystanderMove ==
  ASSUME Control, Switch, NEW t \in Threads, NEW from, NEW to, Goto(t, from, to),
         from \notin WindowPc, to \notin WindowPc, to \in OwnerPc => enableMutex = t,
         UNCHANGED <<enabled, conn, enableMutex>>
  PROVE  Switch'
<1> USE DEF Control, Goto, Switch, WindowPc, OwnerPc
<1>1. Ownership'
  BY DEF Ownership
<1>2. Windows'
  BY DEF Windows
<1>3. StatusMeansConnection'
  BY ThreadAssumption DEF StatusMeansConnection, Threads
<1> QED BY <1>1, <1>2, <1>3

LEMMA StepSwitch == Flags /\ Control /\ Switch /\ [Next]_vars => Switch'
<1> SUFFICES ASSUME Flags, Control, Switch, [Next]_vars PROVE Switch'
  OBVIOUS
<1> USE DEF OwnerPc, WindowPc, timerVars, cecVars, arcVars
<1>a. NoThread \notin Threads
  BY ThreadAssumption DEF Threads
<1>1. ASSUME NEW t \in Threads, StartArc(t) PROVE Switch'
  BY <1>1, BystanderMove DEF StartArc, StartCheck, StartWrite, StartSignal, StartFlag, StartArm
<1>2. ASSUME NEW t \in Threads, StopArc(t) PROVE Switch'
  BY <1>2, BystanderMove DEF StopArc, StopCheck, StopTest, StopWrite, StopSignal, StopFlag, StopArm, Return
<1>3. ASSUME NEW t \in Threads, CECEnable(t) PROVE Switch'
  <2>1. CASE enabled /\ EnableEnter(t)
    BY <2>1, BystanderMove DEF EnableEnter
  <2>2. CASE ~enabled /\ EnableEnter(t)
    BY <2>2, <1>a DEF EnableEnter, Control, Goto, Switch, Ownership, Windows, StatusMeansConnection
  <2>3. CASE EnableOpen(t)
    BY <2>3, <1>a DEF EnableOpen, Control, Goto, Switch, Ownership, Windows, StatusMeansConnection
  <2>4. CASE EnableFails(t)
    BY <2>4, <1>a DEF EnableFails, Control, Goto, Switch, Ownership, Windows, StatusMeansConnection
  <2>5. CASE EnableStatus(t)
    BY <2>5, <1>a DEF EnableStatus, Control, Goto, Switch, Ownership, Windows, StatusMeansConnection
  <2> QED BY <1>3, <2>1, <2>2, <2>3, <2>4, <2>5 DEF CECEnable
<1>4. ASSUME NEW t \in Threads, CECDisable(t) PROVE Switch'
  <2>1. CASE ~enabled /\ DisableEnter(t)
    BY <2>1, BystanderMove DEF DisableEnter, AfterDisable
  <2>2. CASE enabled /\ DisableEnter(t)
    BY <2>2, <1>a DEF DisableEnter, Control, Goto, Switch, Ownership, Windows, StatusMeansConnection
  <2>3. CASE DisableWait(t)
    <3>1. enableMutex = t
      BY <2>3 DEF DisableWait, Goto, Switch, Ownership
    <3> QED BY <2>3, <3>1, BystanderMove DEF DisableWait
  <2>4. CASE DisableOff(t)
    <3>1. /\ enableMutex = t /\ enableMutex' = t
          /\ pc[t] = "disOff" /\ pc' = [pc EXCEPT ![t] = "disConn"]
          /\ ~enabled' /\ conn' = conn /\ conn \in BOOLEAN /\ enabled' \in BOOLEAN
      BY <2>4 DEF DisableOff, Goto, Switch, Ownership, Flags
    <3>2. Ownership'
      BY <3>1 DEF Control, Switch, Ownership
    <3>3. Windows'
      BY <3>1 DEF Control, Switch, Windows
    <3>4. StatusMeansConnection'
      BY <3>1, <1>a DEF Control, StatusMeansConnection
    <3> QED BY <3>2, <3>3, <3>4 DEF Switch
  <2>5. CASE DisableConn(t)
    <3>1. /\ enableMutex = t /\ enableMutex' = t
          /\ pc[t] = "disConn" /\ pc' = [pc EXCEPT ![t] = "disReset"]
          /\ ~conn' /\ enabled' = enabled /\ ~enabled /\ enabled \in BOOLEAN /\ conn' \in BOOLEAN
      BY <2>5 DEF DisableConn, Goto, Switch, Ownership, Windows, Flags
    <3>2. Ownership'
      BY <3>1 DEF Control, Switch, Ownership
    <3>3. Windows'
      BY <3>1 DEF Control, Switch, Ownership, Windows
    <3>4. StatusMeansConnection'
      BY <3>1 DEF StatusMeansConnection
    <3> QED BY <3>2, <3>3, <3>4 DEF Switch
  <2>6. CASE DisableReset(t)
    BY <2>6, <1>a DEF DisableReset, AfterDisable, Control, Goto, Switch, Ownership, Windows, StatusMeansConnection
  <2> QED BY <1>4, <2>1, <2>2, <2>3, <2>4, <2>5, <2>6 DEF CECDisable
<1>5. CASE Environment
  <2> USE DEF Threads
  <2>1. ASSUME NEW t \in Api, SetupARCRouting(t) \/ SetEnabled(t) PROVE Switch'
    BY <2>1, BystanderMove DEF SetupARCRouting, SetEnabled
  <2>2. CASE PowerModeChanged \/ ReceiveFrame \/ Destroy
    BY <2>2, BystanderMove DEF PowerModeChanged, ReceiveFrame, Destroy
  <2>3. CASE ArcPortUnplugged
    BY <2>3 DEF ArcPortUnplugged, Switch, Ownership, Windows, StatusMeansConnection
  <2> QED BY <1>5, <2>1, <2>2, <2>3 DEF Environment
<1>6. CASE PowerOffStopsArc \/ Handlers
  BY <1>6, BystanderMove
     DEF PowerOffStopsArc, Handlers, InitiateStopTimer, InitiateReadPower, InitiateInStandby,
         InitiateWrite, TerminateStopTimer, TerminateWrite, SystemAudioOff, Threads
<1>7. CASE TimerExpires \/ TimerResets \/ ArcThread \/ UNCHANGED vars
  BY <1>7 DEF TimerExpires, TimerResets, ArcThread, ArcLoop, ArcAcquire, ArcRead, ArcSend, vars,
              Switch, Ownership, Windows, StatusMeansConnection
<1>8. CASE Exit
  BY <1>8, BystanderMove DEF Exit, ExitWrite, ExitSignal, ExitJoin, Threads
<1> QED BY <1>1, <1>2, <1>3, <1>4, <1>5, <1>6, <1>7, <1>8 DEF Next, Calls

\* For any number of threads in SetEnabled and any failures of CECEnable, a status that is
\* set has a connection behind it.
THEOREM ConnectionIsOwned == Spec => []StatusMeansConnection
<1>1. Init => Switch
  <2> SUFFICES ASSUME Init PROVE Switch
    OBVIOUS
  <2>1. enabled = setting \/ enabled = FALSE
    BY DEF Init
  <2>2. enabled => conn
    BY <2>1, Zenon DEF Init
  <2>3. /\ enableMutex = NoThread
        /\ pc = [t \in Threads |-> "idle"]
    BY DEF Init
  <2>4. Ownership /\ Windows
    BY <2>3 DEF Ownership, Windows, OwnerPc, WindowPc
  <2> QED BY <2>2, <2>4 DEF Switch, StatusMeansConnection
<1>2. TypeOK /\ Switch /\ [Next]_vars => Switch'
  BY TypeParts, StepSwitch
<1>3. Switch => StatusMeansConnection
  BY DEF Switch
<1> QED BY <1>1, <1>2, <1>3, TypeCorrect, PTL DEF Spec
=============================================================================
