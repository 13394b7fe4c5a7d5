-------------------------- MODULE KeyEventsProofs ---------------------------
(***************************************************************************)
(* Theorems about KeyEvents for any keys, queue bound and set of threads   *)
(* that reset the audio status info.                                       *)
(***************************************************************************)
EXTENDS KeyEvents, TLAPS

(***************************************************************************)
(* ReceivedIsUpdated speaks of quiet states only, so it is not inductive:  *)
(* between two writes of a report or of a reset the flags may disagree.    *)
(* Whoever left them so is still between its two writes.                   *)
(***************************************************************************)
Explained ==
  received => \/ info
              \/ recvPc = "info"
              \/ \E r \in Resetters : resetPc[r] = "received"

ResetPcs == {"idle", "stop", "info", "received", "flag"}

\* The part of TypeOK that the argument about the flags needs.
ResetType == resetPc \in [Resetters -> ResetPcs]

\* A reset that moves from one place to another leaves the other resets where they are.
LEMMA ResetMoves ==
  ASSUME ResetType, NEW r \in Resetters, NEW from, NEW to \in ResetPcs, ResetGoto(r, from, to)
  PROVE  /\ ResetType'
         /\ resetPc[r] = from
         /\ resetPc'[r] = to
         /\ \A s \in Resetters \ {r} : resetPc'[s] = resetPc[s]
  BY DEF ResetType, ResetGoto

LEMMA ResetTypeStep == ResetType /\ [Next]_vars => ResetType'
<1> SUFFICES ASSUME ResetType, [Next]_vars PROVE ResetType'
  OBVIOUS
<1>1. ASSUME NEW r \in Resetters, ResetStart(r) \/ Reset(r) PROVE ResetType'
  <2>1. PICK to \in ResetPcs, from \in ResetPcs : ResetGoto(r, from, to)
    BY <1>1 DEF ResetStart, Reset, ResetStop, ResetInfo, ResetReceived, ResetFlag, ResetPcs
  <2> QED BY <2>1, ResetMoves
<1>2. CASE UNCHANGED resetPc
  BY <1>2 DEF ResetType
<1>3. [Next]_vars => UNCHANGED resetPc \/ \E r \in Resetters : ResetStart(r) \/ Reset(r)
  BY DEF Next, vars, otherPcs, Enqueue, KeyThread, KeyLoop, KeyWait, KeyTest, KeyEmpty,
         KeyClear, KeyPop, KeySend, KeyFollow, KeyUpdated, KeyHeard, KeyTimerTest,
         KeyTimerFlag, KeyTimerStart, KeyAsk, TimerExpires, Timer, TimerFlag, TimerInfo,
         TimerAsk, ReceiveReport, Report, ReportReceived, ReportInfo, ReportFlag, ReportStop,
         PowerModeChanged, CECEnable, Destroy, DestroyRun, DestroyJoin
<1> QED BY <1>1, <1>2, <1>3
-----------------------------------------------------------------------------
(* The flags of the audio status *)

LEMMA ExplainedStep == ResetType /\ Explained /\ [Next]_vars => Explained'
<1> SUFFICES ASSUME ResetType, Explained, [Next]_vars PROVE Explained'
  OBVIOUS
\* A report sets the flag that explains the other one right after it.
<1>1. CASE ReportReceived
  BY <1>1 DEF ReportReceived, Explained
<1>2. CASE ReportInfo
  BY <1>2 DEF ReportInfo, Explained
<1>3. CASE ReportFlag
  BY <1>3 DEF ReportFlag, Explained
<1>4. CASE ReportStop
  BY <1>4 DEF ReportStop, Explained
<1>5. CASE ReceiveReport
  BY <1>5 DEF ReceiveReport, audioVars, Explained
<1>6. CASE TimerInfo
  BY <1>6 DEF TimerInfo, Explained
\* A reset clears them in the opposite order.
<1>7. ASSUME NEW r \in Resetters, ResetInfo(r) PROVE Explained'
  <2>1. resetPc'[r] = "received"
    BY <1>7, ResetMoves DEF ResetInfo, ResetPcs
  <2> QED BY <2>1 DEF Explained
<1>8. ASSUME NEW r \in Resetters, ResetReceived(r) PROVE Explained'
  BY <1>8 DEF ResetReceived, Explained
<1>9. ASSUME NEW r \in Resetters, ResetStart(r) \/ ResetStop(r) \/ ResetFlag(r)
      PROVE  Explained'
  <2>1. PICK to \in ResetPcs, from \in {"idle", "stop", "flag"} : ResetGoto(r, from, to)
    BY <1>9 DEF ResetStart, ResetStop, ResetFlag, ResetPcs
  <2>2. \A s \in Resetters : resetPc[s] = "received" => resetPc'[s] = "received"
    BY <2>1, ResetMoves
  <2>3. UNCHANGED <<info, received, recvPc>>
    BY <1>9 DEF ResetStart, ResetStop, ResetFlag, audioVars
  <2> QED BY <2>2, <2>3 DEF Explained
<1>10. CASE UNCHANGED <<info, received, recvPc, resetPc>>
  BY <1>10 DEF Explained
<1>11. \/ ReceiveReport \/ Report \/ TimerInfo
       \/ \E r \in Resetters : ResetStart(r) \/ Reset(r)
       \/ UNCHANGED <<info, received, recvPc, resetPc>>
  BY DEF Next, vars, otherPcs, audioVars, Enqueue, KeyThread, KeyLoop, KeyWait, KeyTest,
         KeyEmpty, KeyClear, KeyPop, KeySend, KeyFollow, KeyUpdated, KeyHeard, KeyTimerTest,
         KeyTimerFlag, KeyTimerStart, KeyAsk, TimerExpires, Timer, TimerFlag, TimerAsk,
         PowerModeChanged, CECEnable, Destroy, DestroyRun, DestroyJoin
<1> QED BY <1>1, <1>2, <1>3, <1>4, <1>5, <1>6, <1>7, <1>8, <1>9, <1>10, <1>11
        DEF Report, Reset

\* However a report, the timer and any number of resets of the audio status info cross,
\* "the audio system reports by itself" never stands without "the detection is over".
THEOREM ReceivedUpdated == Spec => []ReceivedIsUpdated
<1>1. Init => ResetType /\ Explained
  BY DEF Init, ResetType, ResetPcs, Explained
<1>2. ResetType /\ Explained /\ [Next]_vars => ResetType' /\ Explained'
  BY ResetTypeStep, ExplainedStep
<1>3. ResetType /\ Explained => ReceivedIsUpdated
  BY DEF Explained, ReceivedIsUpdated, Quiet
<1> QED BY <1>1, <1>2, <1>3, PTL DEF Spec
-----------------------------------------------------------------------------
(***************************************************************************)
(* Type correctness: the thread pops without asking, which is only correct *)
(* because nobody else removes a key after it has seen one.                *)
(***************************************************************************)
Flags == /\ run \in BOOLEAN /\ exit \in BOOLEAN /\ left \in BOOLEAN
         /\ asleep \in BOOLEAN /\ enabled \in BOOLEAN
         /\ info \in BOOLEAN /\ received \in BOOLEAN /\ started \in BOOLEAN /\ timer \in BOOLEAN

Places == /\ timerPc \in {"idle", "flag", "info", "ask"}
          /\ recvPc \in {"idle", "received", "info", "flag", "stop"}
          /\ dtorPc \in {"idle", "run", "join", "over"}

KeyPcs == {"loop", "wait", "test", "empty", "clear", "pop", "done"} \cup FollowPc

QueueType == queue \in Seq(Keys) /\ Len(queue) <= QueueBound

KeyType == /\ keyPc \in KeyPcs
           /\ key \in Keys \cup {NoKey}
           /\ keyPc \in FollowPc => key # NoKey
           /\ keyPc = "pop" => queue # <<>>

LEMMA NoKeyIsNone == NoKey \notin Keys
  BY KeyAssumption DEF NoKey, AllKeys

\* Which actions touch the queue, the key thread, or neither.
LEMMA WhoMoves ==
  [Next]_vars => KeyThread \/ Enqueue \/ UNCHANGED <<queue, keyVars>>
  BY DEF Next, vars, queueVars, keyVars, otherPcs, TimerExpires, Timer, TimerFlag, TimerInfo,
         TimerAsk, ReceiveReport, Report, ReportReceived, ReportInfo, ReportFlag, ReportStop,
         ResetStart, Reset, ResetStop, ResetInfo, ResetReceived, ResetFlag, PowerModeChanged,
         CECEnable, Destroy, DestroyRun, DestroyJoin

LEMMA KeyStep == QueueType /\ KeyType /\ [Next]_vars => QueueType' /\ KeyType'
<1> SUFFICES ASSUME QueueType, KeyType, [Next]_vars PROVE QueueType' /\ KeyType'
  OBVIOUS
<1>1. CASE KeyPop
  <2>1. queue # <<>> /\ keyPc' = "send" /\ key' = Head(queue) /\ queue' = Tail(queue)
    BY <1>1 DEF KeyPop, Goto, KeyType
  <2>2. Head(queue) \in Keys /\ Tail(queue) \in Seq(Keys) /\ Len(Tail(queue)) = Len(queue) - 1
    BY <2>1 DEF QueueType
  <2>3. QueueType'
    BY <2>1, <2>2, KeyAssumption DEF QueueType
  <2>4. KeyType'
    BY <2>1, <2>2, NoKeyIsNone DEF KeyType, KeyPcs, FollowPc
  <2> QED BY <2>3, <2>4
<1>2. CASE Enqueue
  <2>1. PICK k \in Keys : queue' = Append(queue, k)
    BY <1>2 DEF Enqueue
  <2>2. queue' \in Seq(Keys) /\ Len(queue') = Len(queue) + 1 /\ queue' # <<>>
    BY <2>1 DEF QueueType
  <2>3. QueueType'
    BY <1>2, <2>2, KeyAssumption DEF QueueType, Enqueue
  <2>4. KeyType'
    BY <1>2, <2>2 DEF KeyType, Enqueue, keyVars
  <2> QED BY <2>3, <2>4
<1>3. CASE KeyEmpty
  BY <1>3 DEF KeyEmpty, Goto, QueueType, KeyType, KeyPcs, FollowPc, queueVars
<1>4. CASE KeyFollow
  BY <1>4 DEF KeyFollow, Goto, QueueType, KeyType, KeyPcs, FollowPc, queueVars
<1>5. CASE KeyLoop \/ KeyWait \/ KeyTest \/ KeyClear
  BY <1>5 DEF KeyLoop, KeyWait, KeyTest, KeyClear, Goto, QueueType, KeyType, KeyPcs, FollowPc,
              queueVars
<1>6. CASE KeySend \/ KeyUpdated \/ KeyHeard
  BY <1>6 DEF KeySend, KeyUpdated, KeyHeard, Goto, QueueType, KeyType, KeyPcs, FollowPc,
              queueVars
<1>7. CASE KeyTimerTest \/ KeyTimerFlag \/ KeyTimerStart \/ KeyAsk
  BY <1>7 DEF KeyTimerTest, KeyTimerFlag, KeyTimerStart, KeyAsk, Goto, QueueType, KeyType,
              KeyPcs, FollowPc, queueVars
<1>8. CASE UNCHANGED <<queue, keyVars>>
  BY <1>8 DEF QueueType, KeyType, keyVars
<1> QED BY <1>1, <1>2, <1>3, <1>4, <1>5, <1>6, <1>7, <1>8, WhoMoves DEF KeyThread

LEMMA PlaceStep == Places /\ [Next]_vars => Places'
  BY DEF Places, Next, vars, otherPcs, Enqueue, KeyThread, KeyLoop, KeyWait, KeyTest, KeyEmpty,
         KeyClear, KeyPop, KeySend, KeyFollow, KeyUpdated, KeyHeard, KeyTimerTest,
         KeyTimerFlag, KeyTimerStart, KeyAsk, TimerExpires, Timer, TimerFlag, TimerInfo,
         TimerAsk, ReceiveReport, Report, ReportReceived, ReportInfo, ReportFlag, ReportStop,
         ResetStart, Reset, ResetStop, ResetInfo, ResetReceived, ResetFlag,
         PowerModeChanged, CECEnable, Destroy, DestroyRun, DestroyJoin

LEMMA FlagStep == Flags /\ [Next]_vars => Flags'
<1> SUFFICES ASSUME Flags, [Next]_vars PROVE Flags'
  OBVIOUS
<1> USE DEF Flags, queueVars, modeVars, audioVars
<1>1. CASE Enqueue
  BY <1>1 DEF Enqueue
<1>2. CASE KeyTest
  <2>1. run' \in BOOLEAN
    BY <1>2 DEF KeyTest
  <2> QED BY <1>2, <2>1 DEF KeyTest
<1>3. CASE KeyClear
  BY <1>3 DEF KeyClear
<1>4. CASE KeyPop
  BY <1>4 DEF KeyPop
<1>5. CASE KeyTimerFlag
  BY <1>5 DEF KeyTimerFlag
<1>6. CASE KeyTimerStart
  BY <1>6 DEF KeyTimerStart
<1>7. CASE KeyLoop \/ KeyWait \/ KeyEmpty \/ KeySend \/ KeyFollow \/ KeyUpdated \/ KeyHeard
           \/ KeyTimerTest \/ KeyAsk
  BY <1>7 DEF KeyLoop, KeyWait, KeyEmpty, KeySend, KeyFollow, KeyUpdated, KeyHeard,
              KeyTimerTest, KeyAsk
<1>8. CASE TimerExpires \/ Timer
  BY <1>8 DEF TimerExpires, Timer, TimerFlag, TimerInfo, TimerAsk
<1>9. CASE ReceiveReport \/ Report
  BY <1>9 DEF ReceiveReport, Report, ReportReceived, ReportInfo, ReportFlag, ReportStop
<1>10. ASSUME NEW r \in Resetters, ResetStart(r) \/ Reset(r) PROVE Flags'
  BY <1>10 DEF ResetStart, Reset, ResetStop, ResetInfo, ResetReceived, ResetFlag
<1>11. CASE PowerModeChanged
  <2>1. asleep' \in BOOLEAN
    BY <1>11 DEF PowerModeChanged
  <2> QED BY <1>11, <2>1 DEF PowerModeChanged
<1>12. CASE CECEnable \/ Destroy \/ DestroyRun \/ DestroyJoin
  BY <1>12 DEF CECEnable, Destroy, DestroyRun, DestroyJoin
<1>13. CASE UNCHANGED vars
  BY <1>13 DEF vars
<1> QED BY <1>1, <1>2, <1>3, <1>4, <1>5, <1>6, <1>7, <1>8, <1>9, <1>10, <1>11, <1>12, <1>13
        DEF Next, KeyThread

\* Every variable keeps its type: the queue its bound, and a key that is sent or
\* followed up is one that a client queued, never the initial keyInfo.
THEOREM KeyTypeCorrect == Spec => []TypeOK
<1> DEFINE Typed == Flags /\ Places /\ QueueType /\ KeyType /\ ResetType
<1>1. Init => Typed
  <2>1. Init => Flags
    BY DEF Init, Flags
  <2>2. Init => Places /\ ResetType
    BY DEF Init, Places, ResetType, ResetPcs
  <2>3. Init => QueueType /\ KeyType
    BY KeyAssumption DEF Init, QueueType, KeyType, KeyPcs, FollowPc
  <2> QED BY <2>1, <2>2, <2>3
<1>2. Typed /\ [Next]_vars => Typed'
  BY FlagStep, PlaceStep, KeyStep, ResetTypeStep
<1>3. Typed => TypeOK
  BY DEF Flags, Places, QueueType, KeyType, KeyPcs, ResetType, ResetPcs, TypeOK
<1> QED
  <2> HIDE DEF Typed
  <2> QED BY <1>1, <1>2, <1>3, PTL DEF Spec
-----------------------------------------------------------------------------
(* The queue *)

\* A key that waits for a thread that will not look was left there by the clearing of
\* the flag (threadSendKeyEvent): the one place where a wake-up is lost.
THEOREM KeysStrandedByClear == Spec => []OnlyClearStrands
<1>1. Init => OnlyClearStrands
  BY DEF Init, OnlyClearStrands
<1>2. OnlyClearStrands /\ [Next]_vars => OnlyClearStrands'
  <2> SUFFICES ASSUME OnlyClearStrands, [Next]_vars PROVE OnlyClearStrands'
    OBVIOUS
  <2> USE DEF OnlyClearStrands
  <2>1. CASE Enqueue \/ DestroyRun
    BY <2>1 DEF Enqueue, DestroyRun
  <2>2. CASE KeyTest \/ KeyClear
    BY <2>2 DEF KeyTest, KeyClear, Goto
  \* A key less in the queue; the flag is as it was.
  <2>3. CASE KeyPop
    <3>1. queue' # <<>> => queue # <<>>
      BY <2>3 DEF KeyPop
    <3> QED BY <2>3, <3>1 DEF KeyPop, Goto
  <2>4. CASE UNCHANGED <<queue, run, left>> /\ keyPc # "done"
    BY <2>4
  <2>5. CASE UNCHANGED <<queue, run, left, keyPc>>
    BY <2>5
  <2> QED BY <2>1, <2>2, <2>3, <2>4, <2>5
          DEF Next, vars, queueVars, keyVars, Goto, KeyThread, KeyLoop, KeyWait, KeyEmpty, KeySend,
              KeyFollow, KeyUpdated, KeyHeard, KeyTimerTest, KeyTimerFlag, KeyTimerStart, KeyAsk,
              TimerExpires, Timer, TimerFlag, TimerInfo, TimerAsk, ReceiveReport, Report,
              ReportReceived, ReportInfo, ReportFlag, ReportStop, ResetStart, Reset, ResetStop,
              ResetInfo, ResetReceived, ResetFlag, PowerModeChanged, CECEnable, Destroy, DestroyJoin
<1> QED BY <1>1, <1>2, PTL DEF Spec
=============================================================================
