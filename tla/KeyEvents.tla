----------------------------- MODULE KeyEvents ------------------------------
(***************************************************************************)
(* The key queue of HdmiCecSinkImplementation, the thread that sends what  *)
(* it holds, and the audio status that follows a volume key: a first key   *)
(* starts a timer; a report that comes before it expires shows that the    *)
(* audio system reports by itself, else it is asked after every key.       *)
(*                                                                         *)
(* Calls push under m_sendKeyEventMutex; the thread tests, pops and clears *)
(* its flag without it, so each of these is a step.  The three audio flags *)
(* and the timer have no lock: each access is a step.                      *)
(***************************************************************************)
EXTENDS Naturals, Sequences

CONSTANTS
  Keys,       \* kinds of keys the clients send, of AllKeys
  QueueBound, \* bound of the model: keys waiting in the queue
  Resetters,  \* threads in removeDevice or CECDisable
  Stimuli     \* what the environment does

\* VOLUME stands for up and down; OTHER has a UI command, UNSUPPORTED has none.
AllKeys == {"VOLUME", "MUTE", "OTHER", "UNSUPPORTED"}

ASSUME KeyAssumption ==
  /\ Keys \subseteq AllKeys
  /\ QueueBound \in Nat
  /\ Stimuli \subseteq {"report", "reset", "toggle", "sleep", "destroy"}

NoKey == "none"

VARIABLES
  queue,     \* m_SendKeyQueue
  run,       \* m_sendKeyEventThreadRun
  exit,      \* m_sendKeyEventThreadExit
  left,      \* auxiliary: the flag was cleared while a key was in the queue
  asleep,    \* devicePowerState is deep sleep
  enabled,   \* cecEnableStatus
  keyPc, key, \* threadSendKeyEvent and its keyInfo
  info,      \* m_isAudioStatusInfoUpdated
  received,  \* m_audioStatusReceived
  started,   \* m_audioStatusTimerStarted
  timer,     \* m_audioStatusDetectionTimer is active
  timerPc,   \* its callback
  recvPc,    \* Process_ReportAudioStatus_msg
  resetPc,   \* each thread that resets the audio status info
  dtorPc     \* the destructor

queueVars == <<queue, run, exit, left>>
modeVars  == <<asleep, enabled>>
keyVars   == <<keyPc, key>>
audioVars == <<info, received, started, timer>>
otherPcs  == <<timerPc, recvPc, resetPc, dtorPc>>
vars      == <<queueVars, modeVars, keyVars, audioVars, otherPcs>>

FollowPc == {"send", "follow", "updated", "heard", "timer", "flag", "start", "ask"}

TypeOK ==
  /\ queue \in Seq(Keys) /\ Len(queue) <= QueueBound
  /\ run \in BOOLEAN /\ exit \in BOOLEAN /\ left \in BOOLEAN
  /\ asleep \in BOOLEAN /\ enabled \in BOOLEAN
  /\ keyPc \in {"loop", "wait", "test", "empty", "clear", "pop", "done"} \cup FollowPc
  /\ key \in Keys \cup {NoKey}
  /\ keyPc \in FollowPc => key # NoKey
  /\ info \in BOOLEAN /\ received \in BOOLEAN /\ started \in BOOLEAN /\ timer \in BOOLEAN
  /\ timerPc \in {"idle", "flag", "info", "ask"}
  /\ recvPc \in {"idle", "received", "info", "flag", "stop"}
  /\ resetPc \in [Resetters -> {"idle", "stop", "info", "received", "flag"}]
  /\ dtorPc \in {"idle", "run", "join", "over"}

\* Configure: no key, no audio status, the thread started.
Init ==
  /\ queue = <<>> /\ run = FALSE /\ exit = FALSE /\ left = FALSE
  /\ asleep \in BOOLEAN /\ (asleep => "sleep" \in Stimuli) /\ enabled = TRUE
  /\ keyPc = "loop" /\ key = NoKey
  /\ info = FALSE /\ received = FALSE /\ started = FALSE /\ timer = FALSE
  /\ timerPc = "idle" /\ recvPc = "idle"
  /\ resetPc = [r \in Resetters |-> "idle"] /\ dtorPc = "idle"

Goto(from, to) == keyPc = from /\ keyPc' = to
-----------------------------------------------------------------------------
(* SendKeyPressEvent, SendUserControlPressed, SendUserControlReleased *)

\* Mutation: the flag is not set.
EnqueueUnsignalled ==
  /\ dtorPc = "idle" /\ Len(queue) < QueueBound
  /\ \E k \in Keys : queue' = Append(queue, k)
  /\ left' = FALSE
  /\ UNCHANGED <<run, exit, modeVars, keyVars, audioVars, otherPcs>>

\* One critical section; a release has key code 0, which is SELECT, an OTHER key.
Enqueue ==
  /\ dtorPc = "idle" /\ Len(queue) < QueueBound
  /\ \E k \in Keys : queue' = Append(queue, k)
  /\ run' = TRUE /\ left' = FALSE
  /\ UNCHANGED <<exit, modeVars, keyVars, audioVars, otherPcs>>
-----------------------------------------------------------------------------
(* threadSendKeyEvent *)

KeyLoop ==
  /\ \/ exit /\ Goto("loop", "done")
     \/ ~exit /\ ~asleep /\ Goto("loop", "wait")
  /\ UNCHANGED <<key, queueVars, modeVars, audioVars, otherPcs>>

\* The condition variable's predicate.
KeyWait ==
  /\ run /\ Goto("wait", "test")
  /\ UNCHANGED <<key, queueVars, modeVars, audioVars, otherPcs>>

\* Mutation: the flag is taken as soon as the thread is woken, not once the queue is empty.
KeyTestClears ==
  /\ Goto("test", IF exit THEN "done" ELSE "empty")
  /\ run' = FALSE
  /\ UNCHANGED <<key, queue, exit, left, modeVars, audioVars, otherPcs>>

KeyTest ==
  /\ Goto("test", IF exit THEN "done" ELSE "empty")
  /\ run' = IF exit THEN FALSE ELSE run
  /\ UNCHANGED <<key, queue, exit, left, modeVars, audioVars, otherPcs>>

KeyEmpty ==
  /\ Goto("empty", IF queue = <<>> THEN "clear" ELSE "pop")
  /\ UNCHANGED <<key, queueVars, modeVars, audioVars, otherPcs>>

\* The flag is cleared without the mutex: a key may have come since the test.
KeyClear ==
  /\ Goto("clear", "loop")
  /\ run' = FALSE /\ left' = (queue # <<>>)
  /\ UNCHANGED <<key, queue, exit, modeVars, audioVars, otherPcs>>

\* Mutation: the front is removed without having been copied.
KeyPopUnread ==
  /\ Goto("pop", "send")
  /\ queue' = Tail(queue)
  /\ UNCHANGED <<key, run, exit, left, modeVars, audioVars, otherPcs>>

KeyPop ==
  /\ Goto("pop", "send")
  /\ key' = Head(queue) /\ queue' = Tail(queue)
  /\ UNCHANGED <<run, exit, left, modeVars, audioVars, otherPcs>>

\* The messages for the key go out; an unsupported one has none.
KeySend ==
  /\ Goto("send", "follow")
  /\ UNCHANGED <<key, queueVars, modeVars, audioVars, otherPcs>>

\* Only when the queue is short or even does a volume key have a follow-up.
Due == Len(queue) <= 1 \/ Len(queue) % 2 = 0

KeyFollow ==
  /\ Goto("follow", IF ~Due THEN "loop"
                    ELSE IF key = "MUTE" THEN "ask"
                    ELSE IF key = "VOLUME" THEN "updated" ELSE "loop")
  /\ UNCHANGED <<key, queueVars, modeVars, audioVars, otherPcs>>

KeyUpdated ==
  /\ Goto("updated", IF info THEN "heard" ELSE "timer")
  /\ UNCHANGED <<key, queueVars, modeVars, audioVars, otherPcs>>

\* Mutation: the test is inverted, so that a silent audio system is never asked.
KeyHeardInverted ==
  /\ Goto("heard", IF received THEN "ask" ELSE "loop")
  /\ UNCHANGED <<key, queueVars, modeVars, audioVars, otherPcs>>

KeyHeard ==
  /\ Goto("heard", IF received THEN "loop" ELSE "ask")
  /\ UNCHANGED <<key, queueVars, modeVars, audioVars, otherPcs>>

KeyTimerTest ==
  /\ Goto("timer", IF timer THEN "loop" ELSE "flag")
  /\ UNCHANGED <<key, queueVars, modeVars, audioVars, otherPcs>>

KeyTimerFlag ==
  /\ Goto("flag", "start")
  /\ started' = TRUE
  /\ UNCHANGED <<key, queueVars, modeVars, info, received, timer, otherPcs>>

KeyTimerStart ==
  /\ Goto("start", "loop")
  /\ timer' = TRUE
  /\ UNCHANGED <<key, queueVars, modeVars, info, received, started, otherPcs>>

\* sendGiveAudioStatusMsg
KeyAsk ==
  /\ Goto("ask", "loop")
  /\ UNCHANGED <<key, queueVars, modeVars, audioVars, otherPcs>>

KeyThread ==
  \/ KeyLoop \/ KeyWait \/ KeyTest \/ KeyEmpty \/ KeyClear \/ KeyPop \/ KeySend \/ KeyFollow
  \/ KeyUpdated \/ KeyHeard \/ KeyTimerTest \/ KeyTimerFlag \/ KeyTimerStart \/ KeyAsk
-----------------------------------------------------------------------------
(* audioStatusTimerFunction *)

TimerExpires ==
  /\ timer /\ timerPc = "idle" /\ dtorPc # "over"
  /\ timer' = FALSE /\ timerPc' = "flag"
  /\ UNCHANGED <<queueVars, modeVars, keyVars, info, received, started, recvPc, resetPc, dtorPc>>

TimerFlag ==
  /\ timerPc = "flag" /\ timerPc' = "info"
  /\ started' = FALSE
  /\ UNCHANGED <<queueVars, modeVars, keyVars, info, received, timer, recvPc, resetPc, dtorPc>>

TimerInfo ==
  /\ timerPc = "info" /\ timerPc' = "ask"
  /\ info' = TRUE
  /\ UNCHANGED <<queueVars, modeVars, keyVars, received, started, timer, recvPc, resetPc, dtorPc>>

TimerAsk ==
  /\ timerPc = "ask" /\ timerPc' = "idle"
  /\ UNCHANGED <<queueVars, modeVars, keyVars, audioVars, recvPc, resetPc, dtorPc>>

Timer == TimerFlag \/ TimerInfo \/ TimerAsk
-----------------------------------------------------------------------------
(* Process_ReportAudioStatus_msg: a report counts while the timer was started. *)

ReceiveReport ==
  /\ "report" \in Stimuli /\ enabled /\ started
  /\ recvPc = "idle" /\ recvPc' = "received"
  /\ UNCHANGED <<queueVars, modeVars, keyVars, audioVars, timerPc, resetPc, dtorPc>>

ReportReceived ==
  /\ recvPc = "received" /\ recvPc' = "info"
  /\ received' = TRUE
  /\ UNCHANGED <<queueVars, modeVars, keyVars, info, started, timer, timerPc, resetPc, dtorPc>>

ReportInfo ==
  /\ recvPc = "info" /\ recvPc' = "flag"
  /\ info' = TRUE
  /\ UNCHANGED <<queueVars, modeVars, keyVars, received, started, timer, timerPc, resetPc, dtorPc>>

ReportFlag ==
  /\ recvPc = "flag" /\ recvPc' = "stop"
  /\ started' = FALSE
  /\ UNCHANGED <<queueVars, modeVars, keyVars, info, received, timer, timerPc, resetPc, dtorPc>>

ReportStop ==
  /\ recvPc = "stop" /\ recvPc' = "idle"
  /\ timer' = FALSE
  /\ UNCHANGED <<queueVars, modeVars, keyVars, info, received, started, timerPc, resetPc, dtorPc>>

Report == ReportReceived \/ ReportInfo \/ ReportFlag \/ ReportStop
-----------------------------------------------------------------------------
(* The reset in removeDevice, for the audio system, and in CECDisable. *)

ResetGoto(r, from, to) == resetPc[r] = from /\ resetPc' = [resetPc EXCEPT ![r] = to]

\* CECDisable has switched CEC off before it comes to the reset.
ResetStart(r) ==
  /\ enabled
  /\ \/ "reset" \in Stimuli /\ UNCHANGED enabled
     \/ "toggle" \in Stimuli /\ enabled' = FALSE
  /\ ResetGoto(r, "idle", "stop")
  /\ UNCHANGED <<queueVars, asleep, keyVars, audioVars, timerPc, recvPc, dtorPc>>

ResetStop(r) ==
  /\ ResetGoto(r, "stop", "info")
  /\ timer' = FALSE
  /\ UNCHANGED <<queueVars, modeVars, keyVars, info, received, started, timerPc, recvPc, dtorPc>>

ResetInfo(r) ==
  /\ ResetGoto(r, "info", "received")
  /\ info' = FALSE
  /\ UNCHANGED <<queueVars, modeVars, keyVars, received, started, timer, timerPc, recvPc, dtorPc>>

\* Mutation: the report's flag is kept.
ResetReceivedKept(r) ==
  /\ ResetGoto(r, "received", "flag")
  /\ UNCHANGED <<queueVars, modeVars, keyVars, audioVars, timerPc, recvPc, dtorPc>>

ResetReceived(r) ==
  /\ ResetGoto(r, "received", "flag")
  /\ received' = FALSE
  /\ UNCHANGED <<queueVars, modeVars, keyVars, info, started, timer, timerPc, recvPc, dtorPc>>

ResetFlag(r) ==
  /\ ResetGoto(r, "flag", "idle")
  /\ started' = FALSE
  /\ UNCHANGED <<queueVars, modeVars, keyVars, info, received, timer, timerPc, recvPc, dtorPc>>

Reset(r) == ResetStop(r) \/ ResetInfo(r) \/ ResetReceived(r) \/ ResetFlag(r)
-----------------------------------------------------------------------------
(* Power, CECEnable and the destructor *)

PowerModeChanged ==
  /\ "sleep" \in Stimuli /\ dtorPc = "idle"
  /\ asleep' = ~asleep
  /\ UNCHANGED <<queueVars, enabled, keyVars, audioVars, otherPcs>>

\* CECEnable resets none of the audio flags.
CECEnable ==
  /\ ~enabled /\ dtorPc = "idle" /\ \A r \in Resetters : resetPc[r] = "idle"
  /\ enabled' = TRUE
  /\ UNCHANGED <<queueVars, asleep, keyVars, audioVars, otherPcs>>

\* The destructor has been through CECDisable and sets the exit flag.
Destroy ==
  /\ "destroy" \in Stimuli /\ ~enabled /\ \A r \in Resetters : resetPc[r] = "idle"
  /\ dtorPc = "idle" /\ dtorPc' = "run"
  /\ exit' = TRUE
  /\ UNCHANGED <<queue, run, left, modeVars, keyVars, audioVars, timerPc, recvPc, resetPc>>

\* Mutation: the thread is not woken.
DestroyQuietly ==
  /\ dtorPc = "run" /\ dtorPc' = "join"
  /\ UNCHANGED <<queueVars, modeVars, keyVars, audioVars, timerPc, recvPc, resetPc>>

DestroyRun ==
  /\ dtorPc = "run" /\ dtorPc' = "join"
  /\ run' = TRUE
  /\ UNCHANGED <<queue, exit, left, modeVars, keyVars, audioVars, timerPc, recvPc, resetPc>>

DestroyJoin ==
  /\ dtorPc = "join" /\ keyPc = "done" /\ dtorPc' = "over"
  /\ UNCHANGED <<queueVars, modeVars, keyVars, audioVars, timerPc, recvPc, resetPc>>
-----------------------------------------------------------------------------
Next ==
  \/ Enqueue \/ KeyThread
  \/ TimerExpires \/ Timer \/ ReceiveReport \/ Report
  \/ \E r \in Resetters : ResetStart(r) \/ Reset(r)
  \/ PowerModeChanged \/ CECEnable \/ Destroy \/ DestroyRun \/ DestroyJoin

\* Threads that can go on do, and an active timer expires.
Fairness ==
  /\ WF_vars(KeyThread) /\ WF_vars(TimerExpires) /\ WF_vars(Timer) /\ WF_vars(Report)
  /\ \A r \in Resetters : WF_vars(Reset(r))
  /\ WF_vars(DestroyRun) /\ WF_vars(DestroyJoin)

Spec == Init /\ [][Next]_vars
FairSpec == Spec /\ Fairness
-----------------------------------------------------------------------------
(* Properties *)

Quiet == recvPc = "idle" /\ \A r \in Resetters : resetPc[r] = "idle"

\* However a report and any number of resets cross, the flags end up in one of the
\* states the key thread knows: "reported by itself" never without "detection over".
ReceivedIsUpdated == Quiet /\ received => info

\* A key that waits for a thread that will not look was left there by the clearing of
\* the flag; no other step of the thread, of a call or of the destructor strands one.
OnlyClearStrands == queue # <<>> /\ ~run => left \/ keyPc = "done"

\* The destructor's join of the key thread ends, in deep sleep too, whatever the
\* queue holds and wherever the thread is when the exit flag is set.
KeyThreadEnds == dtorPc = "join" ~> dtorPc = "over"

\* A queued key leads to a key being sent, unless the thread has cleared its flag over
\* it, sleeps or exits.
QueueIsServed == <>[]~asleep => (queue # <<>> ~> (keyPc = "send" \/ left \/ exit))

\* A volume key gets its audio status: the audio system is asked, or a report is being
\* handled, or it is known to report by itself, or the detection is being reset, unless
\* a burst of keys holds the queue at an odd length or the thread exits.
VolumeIsFollowed ==
  <>[]~asleep =>
    (keyPc = "follow" ~> (keyPc = "ask" \/ timerPc = "ask" \/ received \/ ~Quiet \/ ~Due \/ exit))

\* "Wait for a message to be added to the queue": the thread does not wait beside one.
NoKeyLeft == ~(keyPc = "wait" /\ queue # <<>> /\ ~run)
=============================================================================
