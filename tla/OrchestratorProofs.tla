------------------------- MODULE OrchestratorProofs -------------------------
(***************************************************************************)
(* The safety of the orchestrator for every queue depth and every bound.   *)
(* The inductive invariant IInv supports what is said about alerts, modes  *)
(* and the owner.  The actions that leave the policy variables alone are   *)
(* treated together (Quiet); each of the others has a lemma saying that it *)
(* is good: it keeps IInv, it is a step of SessionPolicy, and it does not  *)
(* start a vigilante session whose alert is still being sent.              *)
(*                                                                         *)
(* What is said about sessions, scans and mutes rests on a second one,     *)
(* SessInv; there the steps beside the orchestrator (Aside) go together.   *)
(* At the end are the results with a condition: that a muted session has a *)
(* deadline, that a report awaited comes, and that an event is of the      *)
(* present session; there those steps go together too (Beside).            *)
(***************************************************************************)
EXTENDS OrchestratorTypes

----------------------------------------------------------------------------
(* The inductive invariant *)

\* Modes and states go together: a pending alert means that the intruder's
\* session comes next, and a vigilante mode does not survive its session.
ModeInv ==
    /\ pendingMode = "vigilante" =>
           state \in {"RELEASING_BLE", "DISPATCHING_ALERT", "FATAL_ERROR"}
    /\ activeMode = "vigilante" =>
           state \in {"IGNITING", "ACTIVE", "STOPPING_WEBRTC", "FATAL_ERROR"}
    /\ ignitionMode = "vigilante" => activeMode = "vigilante"
    /\ alertPending <=> pendingMode = "vigilante"

\* Before the owner has been seen nobody looks for devices, so there is no
\* DISCOVERY_COMPLETE that could ignite a conversation.
OwnerInv ==
    owner = "never" =>
        /\ discovery = "none" /\ discPosts = 0
        /\ \A e \in Pending(queue) : e.type # "DISCOVERY_COMPLETE"

\* Timestamps name alerts: a result in the queue is of a task that is over,
\* and the alert that is about to be sent is new.
AlertInv ==
    /\ alertTs # 0 => state \in {"RELEASING_BLE", "DISPATCHING_ALERT", "FATAL_ERROR"}
    /\ alertTs <= alertClock
    /\ \A ts \in alertTasks : ts <= alertClock
    /\ \A e \in Pending(queue) : e.type \in AlertResults =>
           e.ts <= alertClock /\ e.ts \notin alertTasks
    /\ state = "RELEASING_BLE" /\ alertPending =>
           /\ alertTs \notin alertTasks
           /\ \A e \in Pending(queue) : e.type \in AlertResults => e.ts # alertTs

IInv == /\ ModeInv /\ OwnerInv /\ AlertInv
        /\ VigilanteSilenced /\ ReleasePurpose /\ FriendlyEverValidated

AlertFirst == activeMode = "friendly" /\ activeMode' = "vigilante"
                => state = "DISPATCHING_ALERT" /\ alertTs \notin alertTasks

PolicyStep == Policy!PolicyNext \/ UNCHANGED Policy!pvars

Good == IInv' /\ PolicyStep /\ AlertFirst

----------------------------------------------------------------------------
(* What a step adds to the queue *)

\* The events that neither end an alert nor ignite a conversation.
Plain == {Ev(t) : t \in EventTypes \ (AlertResults \cup {"DISCOVERY_COMPLETE"})}

\* The step adds nothing else to the queue.
AddsPlain == Pending(queue') \subseteq Pending(queue) \cup Plain

\* The types of plain events.
LEMMA PlainTypes ==
    \A e \in Plain : e.type # "DISCOVERY_COMPLETE" /\ e.type \notin AlertResults
  BY DEF Plain, Ev

\* An event is dropped or appended.
LEMMA PendingEnqueue ==
    ASSUME NEW q \in Queue, NEW e \in Event
    PROVE  Pending(Enqueue(q, e)) \subseteq Pending(q) \cup {e}
<1>1. q \in Seq(Event)
  BY DEF Queue
<1>2. CASE Len(q) < QueueLen
  <2>1. Enqueue(q, e) = Append(q, e)
    BY <1>2 DEF Enqueue
  <2> QED BY <1>1, <2>1 DEF Pending
<1>3. CASE ~(Len(q) < QueueLen)
  BY <1>3 DEF Enqueue
<1> QED BY <1>2, <1>3

\* Receiving an event leaves only events that were already there.
LEMMA PendingTail ==
    ASSUME NEW q \in Queue, q # <<>>
    PROVE  Pending(Tail(q)) \subseteq Pending(q) /\ Head(q) \in Pending(q)
<1>1. q \in Seq(Event)
  BY DEF Queue
<1>2. /\ Len(q) \in Nat \ {0} /\ Len(Tail(q)) = Len(q) - 1
      /\ \A i \in 1..Len(Tail(q)) : Tail(q)[i] = q[i + 1]
      /\ Head(q) = q[1]
  BY <1>1
<1> QED BY <1>2 DEF Pending

\* Posting a plain event after receiving one or none.
LEMMA PlainPost ==
    ASSUME NEW q \in Queue, Pending(q) \subseteq Pending(queue),
           NEW t \in EventTypes \ (AlertResults \cup {"DISCOVERY_COMPLETE"}),
           queue' = Enqueue(q, Ev(t))
    PROVE  AddsPlain
<1>1. Ev(t) \in Event /\ Ev(t) \in Plain
  BY DEF Ev, Event, Plain
<1> QED BY <1>1, PendingEnqueue DEF AddsPlain

\* The plain events that tasks and callbacks post.
LEMMA PlainNames ==
    LET P == EventTypes \ (AlertResults \cup {"DISCOVERY_COMPLETE"})
    IN  /\ "WIFI_CONNECTED" \in P /\ "WIFI_DISCONNECTED" \in P
        /\ "BLE_READY" \in P /\ "BLE_BUSY" \in P
        /\ "IDENTITY_PRESENT" \in P /\ "IDENTITY_REJECTED" \in P
        /\ "BLE_RELEASE_COMPLETE" \in P /\ "BLE_RELEASE_FAILED" \in P
        /\ "WEBRTC_CONNECTED" \in P /\ "WEBRTC_DISCONNECTED" \in P
        /\ "WEBRTC_STOPPED" \in P /\ "AUTO_SLEEP_TIMEOUT" \in P
        /\ "VIGILANTE_TIMEOUT" \in P /\ "MIC_MUTED" \in P
        /\ "MIC_UNMUTED" \in P /\ "FATAL_ERROR" \in P
  BY DEF EventTypes, AlertResults

\* Stopping the smart task posts at most a verdict.
LEMMA PlainStopSmart ==
    ASSUME NEW q \in Queue, Pending(q) \subseteq Pending(queue), StopSmart(q)
    PROVE  AddsPlain
<1>1. \/ queue' = q
      \/ queue' = Enqueue(q, Ev("IDENTITY_PRESENT"))
      \/ queue' = Enqueue(q, Ev("IDENTITY_REJECTED"))
  BY DEF StopSmart, Verdict
<1>2. CASE queue' = q
  BY <1>2 DEF AddsPlain
<1> QED BY <1>1, <1>2, PlainPost, PlainNames

\* Starting a task posts at most its failure.
LEMMA PlainStartTask ==
    ASSUME NEW q \in Queue, Pending(q) \subseteq Pending(queue), NEW a, NEW b,
           NEW t \in EventTypes \ (AlertResults \cup {"DISCOVERY_COMPLETE"}),
           StartTask(a, b, q, t)
    PROVE  AddsPlain
<1>1. queue' = q \/ queue' = Enqueue(q, Ev(t))
  BY DEF StartTask
<1>2. CASE queue' = q
  BY <1>2 DEF AddsPlain
<1> QED BY <1>1, <1>2, PlainPost

----------------------------------------------------------------------------
(* Steps that leave the policy alone *)

polVars == <<state, modeVars, owner, vigilanteMute, alertTs, alertPending,
             alertTasks, alertClock>>

Quiet == /\ UNCHANGED polVars
         /\ AddsPlain
         /\ discovery = "none" /\ discPosts = 0 =>
                discovery' = "none" /\ discPosts' = 0

\* A quiet step keeps the invariant and is a stutter of the policy.
LEMMA QuietGood ==
    ASSUME TypeOK, IInv, Quiet
    PROVE  Good
<1>1. ModeInv'
  BY DEF IInv, ModeInv, Quiet, polVars, modeVars
<1>2. OwnerInv'
  BY PlainTypes DEF IInv, OwnerInv, Quiet, AddsPlain, polVars
<1>3. AlertInv'
  BY PlainTypes DEF IInv, AlertInv, Quiet, AddsPlain, polVars
<1>4. VigilanteSilenced' /\ ReleasePurpose' /\ FriendlyEverValidated'
  BY DEF IInv, VigilanteSilenced, Vigil, ReleasePurpose, FriendlyEverValidated, Quiet,
         polVars, modeVars
<1>5. UNCHANGED Policy!pvars
  BY DEF Quiet, polVars, modeVars, Policy!pvars, Phase
<1>6. AlertFirst
  BY DEF AlertFirst, Quiet, polVars, modeVars
<1> QED BY <1>1, <1>2, <1>3, <1>4, <1>5, <1>6 DEF Good, IInv, PolicyStep

\* The teardown of sessions and scans, mute requests and ignored events.
LEMMA HandlerQuiet ==
    ASSUME TypeOK,
           \/ WaitWifiTeardown \/ WaitWifiClearBits \/ SleepRelease \/ IgniteAudio
           \/ ActiveMute(TRUE) \/ ActiveMute(FALSE) \/ ActiveIdle \/ Ignore
    PROVE  Quiet
<1>1. CASE WaitWifiTeardown
  BY <1>1, PlainNames, PlainStopSmart DEF Quiet, AddsPlain, TypeOK, WaitWifiTeardown,
     polVars, modeVars, alertVars, taskVars
<1>2. CASE WaitWifiClearBits
  BY <1>2 DEF Quiet, AddsPlain, TypeOK, WaitWifiClearBits, polVars, modeVars, alertVars,
     taskVars
<1>3. CASE SleepRelease
  BY <1>3, PlainNames, PlainStopSmart DEF Quiet, AddsPlain, TypeOK, SleepRelease,
     FullRelease, polVars, modeVars, alertVars, taskVars
<1>4. CASE IgniteAudio
  BY <1>4, PlainNames, PlainPost DEF Quiet, AddsPlain, TypeOK, IgniteAudio, Post,
     polVars, modeVars, alertVars, taskVars
<1>5. CASE ActiveMute(TRUE)
  BY <1>5, PendingTail DEF Quiet, AddsPlain, TypeOK, ActiveMute, SetMute, Receive,
     polVars, modeVars, alertVars, taskVars
<1>6. CASE ActiveMute(FALSE)
  BY <1>6, PendingTail DEF Quiet, AddsPlain, TypeOK, ActiveMute, SetMute, Receive,
     polVars, modeVars, alertVars, taskVars
<1>7. CASE ActiveIdle
  BY <1>7 DEF Quiet, AddsPlain, TypeOK, ActiveIdle, SetMute, polVars, modeVars,
     alertVars, taskVars
<1>8. CASE Ignore
  BY <1>8, PendingTail DEF Quiet, AddsPlain, TypeOK, Ignore, polVars, modeVars,
     alertVars, taskVars
<1> QED BY <1>1, <1>2, <1>3, <1>4, <1>5, <1>6, <1>7, <1>8

\* The tasks that prepare, release, stop and discover, and the smart task.
LEMMA TaskQuiet ==
    ASSUME TypeOK,
           \/ PrepareStep \/ ReleaseStep \/ StopStep \/ TaskExit \/ DiscoveryStart
           \/ DiscoveryStop \/ SmartStep
    PROVE  Quiet
<1>1. CASE PrepareClean
  BY <1>1, PlainNames, PlainStopSmart DEF Quiet, AddsPlain, TypeOK, PrepareClean,
     FullRelease, polVars, modeVars, orchVars, otherVars, alertVars
<1>2. CASE PrepareBoot
  BY <1>2, PlainNames, PlainStopSmart DEF Quiet, AddsPlain, TypeOK, PrepareBoot,
     FullRelease, polVars, modeVars, orchVars, otherVars, alertVars
<1>3. CASE PrepareScan
  BY <1>3, PlainNames, PlainStopSmart, PlainPost DEF Quiet, AddsPlain, TypeOK,
     PrepareScan, FullRelease, Post, polVars, modeVars, orchVars, otherVars, alertVars
<1>4. CASE PrepareBusy
  BY <1>4, PlainNames, PlainPost DEF Quiet, AddsPlain, TypeOK, PrepareBusy, Post,
     polVars, modeVars, orchVars, otherVars, alertVars
<1>5. CASE ReleaseRun
  BY <1>5, PlainNames, PlainStopSmart DEF Quiet, AddsPlain, TypeOK, ReleaseRun,
     FullRelease, polVars, modeVars, orchVars, otherVars, alertVars
<1>6. CASE ReleaseReport
  BY <1>6, PlainNames, PlainPost DEF Quiet, AddsPlain, TypeOK, ReleaseReport, Post,
     polVars, modeVars, orchVars, otherVars, alertVars
<1>7. CASE StopClose
  BY <1>7 DEF Quiet, AddsPlain, TypeOK, StopClose, polVars, modeVars, orchVars,
     otherVars, alertVars
<1>8. CASE StopTeardown
  BY <1>8, PlainNames, PlainPost DEF Quiet, AddsPlain, TypeOK, StopTeardown, Post,
     polVars, modeVars, orchVars, otherVars, alertVars
<1>9. CASE TaskExit
  BY <1>9 DEF Quiet, AddsPlain, TypeOK, TaskExit, polVars, modeVars, orchVars,
     otherVars, alertVars
<1>10. CASE DiscoveryStart
  BY <1>10 DEF Quiet, AddsPlain, TypeOK, DiscoveryStart, polVars, modeVars, orchVars,
     otherVars, alertVars
<1>11. CASE DiscoveryStop
  BY <1>11, PlainNames, PlainStopSmart DEF Quiet, AddsPlain, TypeOK, DiscoveryStop,
     polVars, modeVars, orchVars, otherVars, alertVars
<1>12. CASE SmartBegin
  BY <1>12, PlainNames, PlainPost DEF Quiet, AddsPlain, TypeOK, SmartBegin, Post,
     polVars, modeVars, orchVars, otherVars, alertVars, taskVars
<1>13. CASE SmartVerdict
  BY <1>13, PlainNames, PlainPost DEF Quiet, AddsPlain, TypeOK, SmartVerdict, Verdict,
     polVars, modeVars, orchVars, otherVars, alertVars, taskVars
<1>14. CASE SmartOrphanEnds
  BY <1>14, PlainNames, PlainPost DEF Quiet, AddsPlain, TypeOK, SmartOrphanEnds,
     Verdict, polVars, modeVars, orchVars, otherVars, alertVars, taskVars
<1>15. CASE SmartDiscovered
  BY <1>15 DEF Quiet, AddsPlain, TypeOK, SmartDiscovered, polVars, modeVars, orchVars,
     otherVars, alertVars, taskVars
<1> QED BY <1>1, <1>2, <1>3, <1>4, <1>5, <1>6, <1>7, <1>8, <1>9, <1>10, <1>11, <1>12,
   <1>13, <1>14, <1>15 DEF PrepareStep, ReleaseStep, StopStep, SmartStep

\* Network, session, buttons and timers.
LEMMA EnvironmentQuiet ==
    ASSUME TypeOK,
           \/ LinkUp \/ LinkDown \/ MigrationTakesBit
           \/ RtcConnected \/ RtcDown \/ RtcSpoken \/ RtcFatal
           \/ MuteButton \/ MuteRequest(TRUE) \/ MuteRequest(FALSE)
           \/ IdleTimerExpires
    PROVE  Quiet
<1>1. CASE LinkUp
  BY <1>1, PlainNames, PlainPost DEF Quiet, AddsPlain, TypeOK, LinkUp, Post, polVars,
     modeVars, alertVars, orchVars, taskVars
<1>2. CASE LinkDown
  BY <1>2, PlainNames, PlainPost DEF Quiet, AddsPlain, TypeOK, LinkDown, Post, polVars,
     modeVars, alertVars, orchVars, taskVars
<1>3. CASE RtcConnected
  BY <1>3, PlainNames, PlainPost DEF Quiet, AddsPlain, TypeOK, RtcConnected,
     SessionFrame, Post, polVars, modeVars, orchVars, otherVars, alertVars, taskVars
<1>4. CASE RtcDown
  BY <1>4, PlainNames, PlainPost DEF Quiet, AddsPlain, TypeOK, RtcDown, SessionFrame,
     Post, polVars, modeVars, orchVars, otherVars, alertVars, taskVars
<1>5. CASE RtcSpoken
  BY <1>5, PlainNames, PlainPost DEF Quiet, AddsPlain, TypeOK, RtcSpoken, SessionFrame,
     Post, polVars, modeVars, orchVars, otherVars, alertVars, taskVars
<1>6. CASE RtcFatal
  BY <1>6, PlainNames, PlainPost DEF Quiet, AddsPlain, TypeOK, RtcFatal, Post, polVars,
     modeVars, alertVars, orchVars, taskVars
<1>7. CASE MuteButton
  BY <1>7, PlainNames, PlainPost DEF Quiet, AddsPlain, TypeOK, MuteButton, MuteFrame,
     Post, polVars, modeVars, alertVars, orchVars, taskVars
<1>8. CASE MuteRequest(TRUE)
  BY <1>8, PlainNames, PlainPost DEF Quiet, AddsPlain, TypeOK, MuteRequest, MuteFrame,
     Post, polVars, modeVars, alertVars, orchVars, taskVars
<1>9. CASE MuteRequest(FALSE)
  BY <1>9, PlainNames, PlainPost DEF Quiet, AddsPlain, TypeOK, MuteRequest, MuteFrame,
     Post, polVars, modeVars, alertVars, orchVars, taskVars
<1>10. CASE IdleTimerExpires
  BY <1>10, PlainNames, PlainPost DEF Quiet, AddsPlain, TypeOK, IdleTimerExpires,
     MuteFrame, Post, polVars, modeVars, alertVars, orchVars, taskVars
<1>11. CASE MigrationTakesBit
  BY <1>11 DEF Quiet, AddsPlain, TypeOK, MigrationTakesBit, polVars, modeVars, alertVars,
     orchVars, taskVars
<1> QED BY <1>1, <1>2, <1>3, <1>4, <1>5, <1>6, <1>7, <1>8, <1>9, <1>10, <1>11

----------------------------------------------------------------------------
(* Steps that the policy knows of *)

\* After a receive the queue holds what it held, less one event.
LEMMA Received ==
    ASSUME TypeOK, NEW t, Receive(t)
    PROVE  /\ Tail(queue) \in Queue /\ Pending(Tail(queue)) \subseteq Pending(queue)
           /\ Head(queue) \in Pending(queue) /\ Head(queue).type = t
  BY TailQueue, PendingTail DEF TypeOK, Receive

\* A restart is Reset, whatever is lost with it.
LEMMA RestartGood ==
    ASSUME NEW mode \in BootModes, Restart(mode)
    PROVE  Good
<1>1. Pending(queue') = {}
  BY DEF Restart, Pending
<1>2. ModeInv' /\ VigilanteSilenced' /\ ReleasePurpose' /\ FriendlyEverValidated'
  BY DEF Restart, ModeInv, VigilanteSilenced, Vigil, ReleasePurpose, FriendlyEverValidated
<1>3. OwnerInv' /\ AlertInv'
  BY <1>1 DEF Restart, OwnerInv, AlertInv
<1>4. Policy!Reset
  BY DEF Restart, Policy!Reset, Phase
<1>5. AlertFirst
  BY DEF Restart, AlertFirst
<1> QED BY <1>2, <1>3, <1>4, <1>5 DEF Good, IInv, PolicyStep, Policy!PolicyNext

\* WAIT_WIFI forgets the alert and the mode but keeps the silence.
LEMMA EnterWaitWifiGood ==
    ASSUME TypeOK, IInv, NEW q, Pending(q) \subseteq Pending(queue), EnterWaitWifi(q)
    PROVE  Good
<1>1. Pending(queue') \subseteq Pending(queue) /\ state' = "WAIT_WIFI"
  BY DEF EnterWaitWifi
<1>2. ModeInv'
  BY DEF EnterWaitWifi, ResetAlertContext, ResetVigilanteContext, ModeInv
<1>3. OwnerInv'
  BY <1>1 DEF IInv, OwnerInv, EnterWaitWifi, taskVars
<1>4. AlertInv'
  BY <1>1 DEF IInv, AlertInv, EnterWaitWifi, ResetAlertContext, TypeOK, ValueTypes
<1>5. VigilanteSilenced' /\ ReleasePurpose' /\ FriendlyEverValidated'
  BY <1>1 DEF VigilanteSilenced, Vigil, ReleasePurpose, FriendlyEverValidated
<1>6. Policy!Quit
  BY <1>1 DEF EnterWaitWifi, Policy!Quit, Phase
<1>7. AlertFirst
  BY DEF EnterWaitWifi, ResetVigilanteContext, AlertFirst
<1> QED BY <1>2, <1>3, <1>4, <1>5, <1>6, <1>7 DEF Good, IInv, PolicyStep, Policy!PolicyNext

\* SLEEP forgets all of them, or restarts after a vigilante session.
LEMMA EnterSleepGood ==
    ASSUME TypeOK, IInv, NEW q, Pending(q) \subseteq Pending(queue), EnterSleep(q)
    PROVE  Good
<1>1. CASE activeMode = "vigilante"
  BY <1>1, RestartGood DEF EnterSleep, BootModes
<1>2. CASE activeMode = "friendly"
  <2>1. /\ Pending(queue') \subseteq Pending(queue) /\ state' = "SLEEP"
        /\ vigilanteMute' = FALSE /\ owner' = owner /\ UNCHANGED taskVars
        /\ ResetAlertContext /\ ResetVigilanteContext
    BY <1>2 DEF EnterSleep
  <2>2. ModeInv'
    BY <2>1 DEF ResetAlertContext, ResetVigilanteContext, ModeInv
  <2>3. OwnerInv'
    BY <2>1 DEF IInv, OwnerInv, taskVars
  <2>4. AlertInv'
    BY <2>1 DEF IInv, AlertInv, ResetAlertContext, TypeOK, ValueTypes
  <2>5. VigilanteSilenced' /\ ReleasePurpose' /\ FriendlyEverValidated'
    BY <2>1 DEF VigilanteSilenced, Vigil, ReleasePurpose, FriendlyEverValidated
  <2>6. Policy!Quit
    BY <2>1 DEF Policy!Quit, Phase
  <2>7. AlertFirst
    BY <2>1 DEF ResetVigilanteContext, AlertFirst
  <2> QED BY <2>2, <2>3, <2>4, <2>5, <2>6, <2>7
          DEF Good, IInv, PolicyStep, Policy!PolicyNext
<1> QED BY <1>1, <1>2 DEF EnterSleep

\* Wi-Fi is lost, BLE is busy, the release fails, the session has stopped,
\* the ignition has failed, the device restarts.
LEMMA RetreatGood ==
    ASSUME TypeOK, IInv,
           \/ WifiLost \/ PreparingBusy \/ ReleasingFailed \/ StoppingStopped
           \/ IgniteRecover \/ ActiveAutoSleep \/ ActiveVigilanteOver
           \/ FatalReboot \/ KillSwitch \/ PowerCycle
    PROVE  Good
<1>1. CASE WifiLost
  BY <1>1, Received, EnterWaitWifiGood DEF WifiLost
<1>2. CASE PreparingBusy
  BY <1>2, Received, EnterSleepGood DEF PreparingBusy
<1>3. CASE ReleasingFailed
  BY <1>3, Received, EnterSleepGood DEF ReleasingFailed
<1>4. CASE StoppingStopped
  BY <1>4, Received, EnterSleepGood DEF StoppingStopped
<1>5. CASE IgniteRecover
  BY <1>5, EnterSleepGood, EnterWaitWifiGood DEF IgniteRecover
<1>6. nvsMode \in BootModes /\ "centinela" \in BootModes
  BY DEF TypeOK, ValueTypes, BootModes
<1>7. CASE \/ ActiveAutoSleep \/ ActiveVigilanteOver
           \/ FatalReboot \/ KillSwitch \/ PowerCycle
  BY <1>6, <1>7, RestartGood
     DEF ActiveAutoSleep, ActiveVigilanteOver, FatalReboot, KillSwitch, PowerCycle
<1> QED BY <1>1, <1>2, <1>3, <1>4, <1>5, <1>7

\* Wi-Fi is there: prepare BLE.
LEMMA WifiReadyGood == ASSUME TypeOK, IInv, WifiReady PROVE Good
<1>1. AddsPlain
  BY Received, PlainStartTask, PlainNames DEF WifiReady
<1>2. /\ state = "WAIT_WIFI" /\ state' = "PREPARING_BLE"
      /\ UNCHANGED <<alertVars, modeVars, vigilanteMute, owner, discovery, discPosts>>
  BY DEF WifiReady
<1>3. ModeInv' /\ VigilanteSilenced' /\ ReleasePurpose' /\ FriendlyEverValidated'
  BY <1>2 DEF IInv, ModeInv, VigilanteSilenced, Vigil, ReleasePurpose,
     FriendlyEverValidated, alertVars, modeVars
<1>4. OwnerInv' /\ AlertInv'
  BY <1>1, <1>2, PlainTypes DEF IInv, OwnerInv, AlertInv, AddsPlain, alertVars
<1>5. UNCHANGED Policy!pvars /\ AlertFirst
  BY <1>2 DEF Policy!pvars, Phase, AlertFirst, modeVars
<1> QED BY <1>3, <1>4, <1>5 DEF Good, IInv, PolicyStep

\* BLE is ready: the verification begins.
LEMMA PreparingReadyGood == ASSUME TypeOK, IInv, PreparingReady PROVE Good
<1>1. AddsPlain
  <2>1. queue' = Tail(queue) \/ queue' = Enqueue(Tail(queue), Ev("BLE_BUSY"))
    BY DEF PreparingReady, StartValidation
  <2> QED BY <2>1, Received, PlainPost, PlainNames DEF PreparingReady, AddsPlain
<1>2. /\ state = "PREPARING_BLE" /\ state' = "VALIDATING_IDENTITY"
      /\ UNCHANGED <<alertVars, modeVars, taskVars, vigilanteMute, owner>>
  BY DEF PreparingReady
<1>3. ModeInv' /\ VigilanteSilenced' /\ ReleasePurpose' /\ FriendlyEverValidated'
  BY <1>2 DEF IInv, ModeInv, VigilanteSilenced, Vigil, ReleasePurpose,
     FriendlyEverValidated, alertVars, modeVars
<1>4. OwnerInv' /\ AlertInv'
  BY <1>1, <1>2, PlainTypes
     DEF IInv, OwnerInv, AlertInv, AddsPlain, alertVars, taskVars
<1>5. Policy!Verify /\ AlertFirst
  BY <1>2 DEF Policy!Verify, Phase, AlertFirst, modeVars
<1> QED BY <1>3, <1>4, <1>5 DEF Good, IInv, PolicyStep, Policy!PolicyNext

\* The owner is recognised.  The only event this step may add ignites a
\* conversation, which from now on is allowed.
LEMMA ValidatingPresentGood == ASSUME TypeOK, IInv, ValidatingPresent PROVE Good
<1>1. \/ queue' = Tail(queue)
      \/ queue' = Enqueue(Tail(queue), Ev("DISCOVERY_COMPLETE"))
  BY DEF ValidatingPresent, StartTask
<1>2. Pending(queue') \subseteq Pending(queue) \cup {Ev("DISCOVERY_COMPLETE")}
  <2>1. Ev("DISCOVERY_COMPLETE") \in Event
    BY DEF Ev, Event, EventTypes
  <2> QED BY <1>1, <2>1, Received, PendingEnqueue DEF ValidatingPresent
<1>3. "DISCOVERY_COMPLETE" \notin AlertResults
  BY DEF AlertResults
<1>4. /\ state = "VALIDATING_IDENTITY" /\ state' = state
      /\ activeMode' = activeMode /\ UNCHANGED <<alertTs, alertTasks, alertClock>>
      /\ pendingMode' = "friendly" /\ ignitionMode' = "friendly"
      /\ alertPending' = FALSE /\ vigilanteMute' = FALSE /\ owner' = "now"
  BY DEF ValidatingPresent
<1>5. ModeInv' /\ VigilanteSilenced' /\ ReleasePurpose' /\ FriendlyEverValidated'
  BY <1>4 DEF IInv, ModeInv, VigilanteSilenced, Vigil, ReleasePurpose,
     FriendlyEverValidated
<1>6. OwnerInv'
  BY <1>4 DEF OwnerInv
<1>7. AlertInv'
  BY <1>2, <1>3, <1>4 DEF IInv, AlertInv, Ev
<1>8. Policy!Recognise
  BY <1>4 DEF Policy!Recognise, Phase
<1>9. AlertFirst
  BY <1>4 DEF AlertFirst
<1> QED BY <1>5, <1>6, <1>7, <1>8, <1>9 DEF Good, IInv, PolicyStep, Policy!PolicyNext

\* The discovery is over, so the owner has been seen: the conversation starts.
LEMMA ValidatingDiscoveredGood == ASSUME TypeOK, IInv, ValidatingDiscovered PROVE Good
<1>1. /\ Pending(queue') \subseteq Pending(queue)
      /\ Head(queue) \in Pending(queue) /\ Head(queue).type = "DISCOVERY_COMPLETE"
  BY Received DEF ValidatingDiscovered
<1>2. /\ state = "VALIDATING_IDENTITY" /\ state' = "IGNITING"
      /\ activeMode' = ignitionMode
      /\ UNCHANGED <<alertVars, pendingMode, ignitionMode, releaseToSleep, taskVars,
                     vigilanteMute, owner>>
  BY DEF ValidatingDiscovered, EnterIgniting
<1>3. owner # "never"
  BY <1>1 DEF IInv, OwnerInv
<1>4. ignitionMode = "friendly" /\ activeMode = "friendly"
  BY <1>2 DEF IInv, ModeInv, TypeOK, ValueTypes, Modes
<1>5. ModeInv' /\ VigilanteSilenced' /\ ReleasePurpose' /\ FriendlyEverValidated'
  BY <1>2, <1>3, <1>4 DEF IInv, ModeInv, VigilanteSilenced, Vigil, ReleasePurpose,
     FriendlyEverValidated, alertVars
<1>6. OwnerInv' /\ AlertInv'
  BY <1>1, <1>2, <1>3 DEF IInv, OwnerInv, AlertInv, alertVars
<1>7. Policy!Talk
  BY <1>2, <1>3, <1>4 DEF Policy!Talk, Phase
<1>8. AlertFirst
  BY <1>2, <1>4 DEF AlertFirst
<1> QED BY <1>5, <1>6, <1>7, <1>8 DEF Good, IInv, PolicyStep, Policy!PolicyNext

\* An intruder: the alert gets a timestamp that no task and no event has.
LEMMA ValidatingRejectedGood == ASSUME TypeOK, IInv, ValidatingRejected PROVE Good
<1>1. AddsPlain
  BY Received, PlainStartTask, PlainNames DEF ValidatingRejected
<1>2. /\ state = "VALIDATING_IDENTITY" /\ state' = "RELEASING_BLE"
      /\ alertPending' = TRUE /\ pendingMode' = "vigilante" /\ vigilanteMute' = TRUE
      /\ UNCHANGED <<alertTasks, ignitionMode, activeMode, owner, discovery, discPosts>>
  BY DEF ValidatingRejected
<1>3. alertTs' = alertClock + 1 /\ alertClock' = alertClock + 1
  BY <1>2 DEF ValidatingRejected, IInv, AlertInv
<1>4. ModeInv' /\ VigilanteSilenced' /\ ReleasePurpose' /\ FriendlyEverValidated'
  BY <1>2 DEF IInv, ModeInv, VigilanteSilenced, Vigil, ReleasePurpose,
     FriendlyEverValidated
<1>5. OwnerInv'
  BY <1>1, <1>2, PlainTypes DEF IInv, OwnerInv, AddsPlain
<1>6. AlertInv'
  <2>1. alertClock \in Nat /\ alertTasks \subseteq Nat
    BY DEF TypeOK, ValueTypes
  <2>2. queue \in Seq(Event)
    BY DEF TypeOK, Queue
  <2>3. \A e \in Pending(queue) : e \in Event
    BY <2>2 DEF Pending
  <2>4. \A e \in Pending(queue) : e.ts \in Nat
    BY <2>3 DEF Event
  <2> QED BY <1>1, <1>2, <1>3, <2>1, <2>4, PlainTypes DEF IInv, AlertInv, AddsPlain
<1>7. Policy!Alarm
  BY <1>2 DEF Policy!Alarm, Phase
<1>8. AlertFirst
  BY <1>2 DEF AlertFirst
<1> QED BY <1>4, <1>5, <1>6, <1>7, <1>8 DEF Good, IInv, PolicyStep, Policy!PolicyNext

\* No verdict: the device goes to sleep by way of the BLE release.
LEMMA ValidatingBusyGood == ASSUME TypeOK, IInv, ValidatingBusy PROVE Good
<1>1. AddsPlain
  BY Received, PlainStartTask, PlainNames DEF ValidatingBusy
<1>2. /\ state = "VALIDATING_IDENTITY" /\ state' = "RELEASING_BLE"
      /\ ResetAlertContext /\ releaseToSleep' = TRUE
      /\ UNCHANGED <<ignitionMode, activeMode, owner, discovery, discPosts, vigilanteMute>>
  BY DEF ValidatingBusy
<1>3. ModeInv' /\ VigilanteSilenced' /\ ReleasePurpose' /\ FriendlyEverValidated'
  BY <1>2 DEF IInv, ModeInv, VigilanteSilenced, Vigil, ReleasePurpose,
     FriendlyEverValidated, ResetAlertContext
<1>4. OwnerInv'
  BY <1>1, <1>2, PlainTypes DEF IInv, OwnerInv, AddsPlain
<1>5. AlertInv'
  BY <1>1, <1>2, PlainTypes
     DEF IInv, AlertInv, AddsPlain, ResetAlertContext, TypeOK, ValueTypes
<1>6. Policy!Quit
  BY <1>2 DEF Policy!Quit, Phase, ResetAlertContext
<1>7. AlertFirst
  BY <1>2 DEF AlertFirst
<1> QED BY <1>3, <1>4, <1>5, <1>6, <1>7 DEF Good, IInv, PolicyStep, Policy!PolicyNext

\* BLE is released: to sleep, or to send the alert, whose task is the first
\* and only one with this timestamp.
LEMMA ReleasingCompleteGood == ASSUME TypeOK, IInv, ReleasingComplete PROVE Good
<1>1. state = "RELEASING_BLE" /\ Receive("BLE_RELEASE_COMPLETE")
  BY DEF ReleasingComplete
<1>2. releaseToSleep \/ alertPending
  BY <1>1 DEF IInv, ReleasePurpose
<1>3. CASE releaseToSleep
  BY <1>1, <1>3, Received, EnterSleepGood DEF ReleasingComplete
<1>4. CASE ~releaseToSleep /\ alertPending
  <2>1. EnterDispatching(Tail(queue))
    BY <1>4 DEF ReleasingComplete
  <2>2. /\ state' = "DISPATCHING_ALERT"
        /\ UNCHANGED <<alertTs, alertPending, alertClock, modeVars, taskVars,
                       vigilanteMute, owner>>
        /\ StartAlert(Tail(queue))
    BY <2>1 DEF EnterDispatching
  <2>3. \/ alertTasks' = alertTasks \cup {alertTs} /\ queue' = Tail(queue)
        \/ /\ alertTasks' = alertTasks
           /\ queue' = Enqueue(Tail(queue),
                               [type |-> "ALERT_DISPATCH_FAILED", ts |-> alertTs])
    BY <2>2 DEF StartAlert
  <2>4. ASSUME alertTasks' = alertTasks \cup {alertTs}, queue' = Tail(queue)
        PROVE  OwnerInv' /\ AlertInv'
    <3>1. Pending(queue') \subseteq Pending(queue)
      BY <1>1, <2>4, Received
    <3>2. OwnerInv'
      BY <2>2, <3>1 DEF IInv, OwnerInv, taskVars
    <3>3. AlertInv'
      BY <1>1, <1>4, <2>2, <2>4, <3>1 DEF IInv, AlertInv
    <3> QED BY <3>2, <3>3
  <2>5. ASSUME alertTasks' = alertTasks,
               queue' = Enqueue(Tail(queue),
                                [type |-> "ALERT_DISPATCH_FAILED", ts |-> alertTs])
        PROVE  OwnerInv' /\ AlertInv'
    <3>1. [type |-> "ALERT_DISPATCH_FAILED", ts |-> alertTs] \in Event
      BY AlertEvent DEF AlertResults, TypeOK, ValueTypes
    <3>2. Pending(queue') \subseteq Pending(queue) \cup
              {[type |-> "ALERT_DISPATCH_FAILED", ts |-> alertTs]}
      BY <1>1, <2>5, <3>1, Received, PendingEnqueue
    <3>3. OwnerInv'
      BY <2>2, <3>2 DEF IInv, OwnerInv, taskVars
    <3>4. AlertInv'
      BY <1>1, <1>4, <2>2, <2>5, <3>2 DEF IInv, AlertInv
    <3> QED BY <3>3, <3>4
  <2>6. ModeInv' /\ VigilanteSilenced' /\ ReleasePurpose' /\ FriendlyEverValidated'
    BY <1>1, <1>4, <2>2 DEF IInv, ModeInv, VigilanteSilenced, Vigil, ReleasePurpose,
       FriendlyEverValidated, modeVars
  <2>7. UNCHANGED Policy!pvars /\ AlertFirst
    BY <1>1, <1>4, <2>2 DEF Policy!pvars, Phase, AlertFirst, modeVars
  <2> QED BY <2>3, <2>4, <2>5, <2>6, <2>7 DEF Good, IInv, PolicyStep
<1> QED BY <1>2, <1>3, <1>4

\* The alert is over, for better or worse: the guard session starts, with the
\* microphone silenced and no task left for this alert.
LEMMA AlertOverGood == ASSUME TypeOK, IInv, AlertOver PROVE Good
<1>1. /\ Pending(queue') \subseteq Pending(queue) /\ Head(queue) \in Pending(queue)
      /\ Head(queue).type \in AlertResults /\ Head(queue).ts = alertTs
  BY PendingTail DEF AlertOver, Matches, TypeOK
<1>2. /\ state = "DISPATCHING_ALERT" /\ state' = "IGNITING"
      /\ activeMode' = pendingMode /\ ignitionMode' = pendingMode
      /\ ResetAlertContext
      /\ UNCHANGED <<taskVars, vigilanteMute, owner>>
  BY DEF AlertOver, EnterIgniting
<1>3. alertPending /\ pendingMode = "vigilante" /\ vigilanteMute
  BY <1>2 DEF IInv, ReleasePurpose, ModeInv, VigilanteSilenced, Vigil
<1>4. alertTs \notin alertTasks
  BY <1>1 DEF IInv, AlertInv
<1>5. ModeInv' /\ VigilanteSilenced' /\ ReleasePurpose' /\ FriendlyEverValidated'
  BY <1>2, <1>3 DEF IInv, ModeInv, VigilanteSilenced, Vigil, ReleasePurpose,
     FriendlyEverValidated, ResetAlertContext
<1>6. OwnerInv'
  BY <1>1, <1>2 DEF IInv, OwnerInv, taskVars
<1>7. AlertInv'
  BY <1>1, <1>2 DEF IInv, AlertInv, ResetAlertContext, TypeOK, ValueTypes
<1>8. Policy!Guard
  BY <1>2, <1>3 DEF Policy!Guard, Phase
<1>9. AlertFirst
  BY <1>2, <1>4 DEF AlertFirst
<1> QED BY <1>5, <1>6, <1>7, <1>8, <1>9 DEF Good, IInv, PolicyStep, Policy!PolicyNext

\* The session is up: neither its mode nor the silence changes.
LEMMA IgnitingConnectedGood == ASSUME TypeOK, IInv, IgnitingConnected PROVE Good
<1>1. Pending(queue') \subseteq Pending(queue)
  BY Received DEF IgnitingConnected
<1>2. /\ state = "IGNITING" /\ state' = "ACTIVE"
      /\ UNCHANGED <<alertVars, modeVars, taskVars, vigilanteMute, owner>>
  BY DEF IgnitingConnected
<1>3. ModeInv' /\ VigilanteSilenced' /\ ReleasePurpose' /\ FriendlyEverValidated'
  BY <1>2 DEF IInv, ModeInv, VigilanteSilenced, Vigil, ReleasePurpose,
     FriendlyEverValidated, alertVars, modeVars
<1>4. OwnerInv' /\ AlertInv'
  BY <1>1, <1>2 DEF IInv, OwnerInv, AlertInv, alertVars, taskVars
<1>5. UNCHANGED Policy!pvars /\ AlertFirst
  BY <1>2 DEF Policy!pvars, Phase, AlertFirst, modeVars
<1> QED BY <1>3, <1>4, <1>5 DEF Good, IInv, PolicyStep

\* The session is lost, and with it the silence.
LEMMA SessionLostGood == ASSUME TypeOK, IInv, SessionLost PROVE Good
<1>1. AddsPlain
  BY Received, PlainStartTask, PlainNames DEF SessionLost
<1>2. /\ state \in {"IGNITING", "ACTIVE"} /\ state' = "STOPPING_WEBRTC"
      /\ vigilanteMute' = FALSE
      /\ UNCHANGED <<alertVars, modeVars, discovery, discPosts, owner>>
  BY DEF SessionLost
<1>3. ModeInv' /\ VigilanteSilenced' /\ ReleasePurpose' /\ FriendlyEverValidated'
  BY <1>2 DEF IInv, ModeInv, VigilanteSilenced, Vigil, ReleasePurpose,
     FriendlyEverValidated, alertVars, modeVars
<1>4. OwnerInv' /\ AlertInv'
  BY <1>1, <1>2, PlainTypes DEF IInv, OwnerInv, AlertInv, AddsPlain, alertVars
<1>5. Policy!Quit /\ AlertFirst
  BY <1>2 DEF Policy!Quit, Phase, AlertFirst, modeVars
<1> QED BY <1>3, <1>4, <1>5 DEF Good, IInv, PolicyStep, Policy!PolicyNext

\* A fatal error ends every phase.
LEMMA FatalErrorGood == ASSUME TypeOK, IInv, FatalError PROVE Good
<1>1. Pending(queue') \subseteq Pending(queue)
  BY Received DEF FatalError
<1>2. /\ state' = "FATAL_ERROR"
      /\ UNCHANGED <<alertVars, modeVars, taskVars, vigilanteMute, owner>>
  BY DEF FatalError
<1>3. ModeInv' /\ VigilanteSilenced' /\ ReleasePurpose' /\ FriendlyEverValidated'
  BY <1>2 DEF IInv, ModeInv, VigilanteSilenced, Vigil, ReleasePurpose,
     FriendlyEverValidated, alertVars, modeVars
<1>4. OwnerInv' /\ AlertInv'
  BY <1>1, <1>2 DEF IInv, OwnerInv, AlertInv, alertVars, taskVars
<1>5. Policy!Quit /\ AlertFirst
  BY <1>2 DEF Policy!Quit, Phase, AlertFirst, modeVars
<1> QED BY <1>3, <1>4, <1>5 DEF Good, IInv, PolicyStep, Policy!PolicyNext

\* start_webrtc consumes the ignition mode.
LEMMA IgniteStartGood == ASSUME TypeOK, IInv, IgniteStart PROVE Good
<1>1. AddsPlain
  BY PlainStopSmart DEF IgniteStart, TypeOK
<1>2. /\ ignitionMode' = "friendly"
      /\ UNCHANGED <<state, alertVars, pendingMode, activeMode, releaseToSleep,
                     taskVars, vigilanteMute, owner>>
  BY DEF IgniteStart
<1>3. ModeInv' /\ VigilanteSilenced' /\ ReleasePurpose' /\ FriendlyEverValidated'
  BY <1>2 DEF IInv, ModeInv, VigilanteSilenced, Vigil, ReleasePurpose,
     FriendlyEverValidated, alertVars
<1>4. OwnerInv' /\ AlertInv'
  BY <1>1, <1>2, PlainTypes
     DEF IInv, OwnerInv, AlertInv, AddsPlain, alertVars, taskVars
<1>5. UNCHANGED Policy!pvars /\ AlertFirst
  BY <1>2 DEF Policy!pvars, Phase, AlertFirst, alertVars
<1> QED BY <1>3, <1>4, <1>5 DEF Good, IInv, PolicyStep

\* The end of a discovery is reported only after the owner has been seen.
LEMMA DiscoveryPostGood == ASSUME TypeOK, IInv, DiscoveryPost PROVE Good
<1>1. Pending(queue') \subseteq Pending(queue) \cup {Ev("DISCOVERY_COMPLETE")}
  <2>1. Ev("DISCOVERY_COMPLETE") \in Event
    BY DEF Ev, Event, EventTypes
  <2> QED BY <2>1, PendingEnqueue DEF DiscoveryPost, Post, TypeOK
<1>2. UNCHANGED polVars
  BY DEF DiscoveryPost, polVars, orchVars, otherVars, alertVars
<1>3. discPosts > 0 /\ discPosts \in Nat
  BY DEF DiscoveryPost, TypeOK, ValueTypes
<1>4. ModeInv' /\ VigilanteSilenced' /\ ReleasePurpose' /\ FriendlyEverValidated'
  BY <1>2 DEF IInv, ModeInv, VigilanteSilenced, Vigil, ReleasePurpose,
     FriendlyEverValidated, polVars, modeVars
<1>5. OwnerInv'
  BY <1>2, <1>3 DEF IInv, OwnerInv, polVars
<1>6. AlertInv'
  BY <1>1, <1>2 DEF IInv, AlertInv, polVars, Ev, AlertResults
<1>7. UNCHANGED Policy!pvars /\ AlertFirst
  BY <1>2 DEF Policy!pvars, Phase, AlertFirst, polVars, modeVars
<1> QED BY <1>4, <1>5, <1>6, <1>7 DEF Good, IInv, PolicyStep

\* An alert task reports and is gone, whichever alert it belonged to.
LEMMA AlertDoneGood ==
    ASSUME TypeOK, IInv, NEW ts \in alertTasks, AlertDone(ts)
    PROVE  Good
<1>1. PICK r \in AlertResults : queue' = Enqueue(queue, [type |-> r, ts |-> ts])
  BY DEF AlertDone
<1>2. Pending(queue') \subseteq Pending(queue) \cup {[type |-> r, ts |-> ts]}
  <2>1. [type |-> r, ts |-> ts] \in Event
    BY AlertEvent DEF TypeOK, ValueTypes
  <2> QED BY <1>1, <2>1, PendingEnqueue DEF TypeOK
<1>3. /\ alertTasks' = alertTasks \ {ts}
      /\ UNCHANGED <<state, modeVars, owner, vigilanteMute, alertTs, alertPending,
                     alertClock, taskVars>>
  BY DEF AlertDone, orchVars
<1>4. ModeInv' /\ VigilanteSilenced' /\ ReleasePurpose' /\ FriendlyEverValidated'
  BY <1>3 DEF IInv, ModeInv, VigilanteSilenced, Vigil, ReleasePurpose,
     FriendlyEverValidated, modeVars
<1>5. OwnerInv'
  BY <1>2, <1>3 DEF IInv, OwnerInv, taskVars, AlertResults
<1>6. AlertInv'
  BY <1>2, <1>3 DEF IInv, AlertInv
<1>7. UNCHANGED Policy!pvars /\ AlertFirst
  BY <1>3 DEF Policy!pvars, Phase, AlertFirst, modeVars
<1> QED BY <1>4, <1>5, <1>6, <1>7 DEF Good, IInv, PolicyStep

----------------------------------------------------------------------------
(* The theorems *)

\* Power-on establishes the invariant.
LEMMA InitGood == Init => IInv /\ Policy!PolicyInit
<1> SUFFICES ASSUME Init PROVE IInv /\ Policy!PolicyInit
  OBVIOUS
<1>1. Pending(queue) = {}
  BY DEF Init, Pending
<1>2. ModeInv /\ VigilanteSilenced /\ ReleasePurpose /\ FriendlyEverValidated
  BY DEF Init, ModeInv, VigilanteSilenced, Vigil, ReleasePurpose, FriendlyEverValidated
<1>3. OwnerInv /\ AlertInv
  BY <1>1 DEF Init, OwnerInv, AlertInv
<1>4. Policy!PolicyInit
  BY DEF Init, Policy!PolicyInit, Phase
<1> QED BY <1>2, <1>3, <1>4 DEF IInv

\* Every step is good.
LEMMA StepGood == ASSUME TypeOK, IInv, [Next]_vars PROVE Good
<1>1. CASE OrchestratorStep
  BY <1>1, HandlerQuiet, QuietGood, RetreatGood, WifiReadyGood, PreparingReadyGood,
     ValidatingPresentGood, ValidatingDiscoveredGood, ValidatingRejectedGood,
     ValidatingBusyGood, ReleasingCompleteGood, AlertOverGood, IgnitingConnectedGood,
     SessionLostGood, FatalErrorGood, IgniteStartGood, Zenon
     DEF OrchestratorStep
<1>2. CASE PrepareStep \/ ReleaseStep \/ StopStep \/ TaskExit \/ SmartStep
  BY <1>2, TaskQuiet, QuietGood, Zenon
<1>3. CASE DiscoveryStep
  BY <1>3, TaskQuiet, QuietGood, DiscoveryPostGood, Zenon DEF DiscoveryStep
<1>4. CASE \E ts \in alertTasks : AlertDone(ts)
  BY <1>4, AlertDoneGood
<1>5. CASE Environment
  BY <1>5, EnvironmentQuiet, QuietGood, RetreatGood, Zenon DEF Environment
<1>6. CASE UNCHANGED vars
  <2>1. Quiet
    BY <1>6 DEF vars, Quiet, AddsPlain, polVars, alertVars, taskVars
  <2> QED BY <2>1, QuietGood
<1> QED BY <1>1, <1>2, <1>3, <1>4, <1>5, <1>6, Zenon DEF Next

\* The invariant holds for every queue depth and every bound.
THEOREM Invariance == Spec => [](TypeOK /\ IInv)
<1>1. IInv /\ TypeOK /\ [Next]_vars => IInv'
  BY StepGood DEF Good
<1> QED BY InitGood, TypeCorrect, <1>1, PTL DEF Spec

\* From the rejection of a visitor to the end of the vigilante session the
\* microphone is silenced.
THEOREM AlwaysSilenced == Spec => []VigilanteSilenced
<1>1. IInv => VigilanteSilenced
  BY DEF IInv
<1> QED BY Invariance, <1>1, PTL

\* BLE is never released without a purpose, so two branches of
\* orchestrator_fsm.c are dead.
THEOREM AlwaysPurpose == Spec => []ReleasePurpose
<1>1. IInv => ReleasePurpose
  BY DEF IInv
<1> QED BY Invariance, <1>1, PTL

\* No conversation in a boot that has not seen the owner's phone.
THEOREM AlwaysValidated == Spec => []FriendlyEverValidated
<1>1. IInv => FriendlyEverValidated
  BY DEF IInv
<1> QED BY Invariance, <1>1, PTL

\* A vigilante session starts only after its own alert has been attempted.
THEOREM AlertComesFirst == Spec => VigilanteAfterAlert
<1>1. IInv /\ TypeOK /\ [Next]_vars =>
        [activeMode = "friendly" /\ activeMode' = "vigilante"
           => state = "DISPATCHING_ALERT" /\ alertTs \notin alertTasks]_vars
  BY StepGood DEF Good, AlertFirst
<1> QED BY Invariance, <1>1, PTL DEF Spec, VigilanteAfterAlert

\* The orchestrator implements the session policy.
THEOREM ImplementsPolicy == Spec => FollowsPolicy
<1>1. IInv /\ TypeOK /\ [Next]_vars => [Policy!PolicyNext]_(Policy!pvars)
  BY StepGood DEF Good, PolicyStep
<1> QED BY Invariance, InitGood, <1>1, PTL DEF Spec, FollowsPolicy, Policy!PolicySpec

----------------------------------------------------------------------------
(* Sessions, scans and mutes *)

\* An identity scan is asked for or running.
Scanning == {"signalled", "validating"}

\* The states in which a session, or the mute of its capture, may linger.
Lingering == \/ state \in {"SLEEP", "IGNITING", "ACTIVE", "STOPPING_WEBRTC", "FATAL_ERROR"}
             \/ state = "WAIT_WIFI" /\ pc = "wait_wifi"

\* A blocking step belongs to the entry action of its state.
BlockInv ==
    /\ pc \in {"wait_wifi", "clear_bits"} => state = "WAIT_WIFI"
    /\ pc = "sleep" => state = "SLEEP"
    /\ pc \in {"audio", "start", "recover"} => state = "IGNITING"

\* A session is open only where it may linger.
OpenInv == rtc # "closed" => Lingering

\* Ignition starts with the microphone open in both books.
MuteInv ==
    /\ hwMute => Lingering /\ state # "IGNITING"
    /\ state = "IGNITING" => ~isMuted

\* The inductive invariant of sessions, scans and mutes.
SessInv == BlockInv /\ OpenInv /\ NoScanInSession /\ MuteInv /\ MuteAgrees

\* A step beside the orchestrator: no session is opened, no scan begins and no
\* mute is set.
Aside == /\ UNCHANGED <<state, pc, isMuted>>
         /\ rtc = "closed" => rtc' = "closed"
         /\ smart' \in Scanning => smart \in Scanning
         /\ hwMute' => hwMute
         /\ media' => media /\ hwMute' = hwMute

\* Such a step keeps sessions, scans and mutes apart.
LEMMA AsideKeeps == ASSUME SessInv, Aside PROVE SessInv'
<1>1. BlockInv' /\ OpenInv'
  BY DEF SessInv, Aside, BlockInv, OpenInv, Lingering
<1>2. NoScanInSession'
  BY DEF SessInv, Aside, NoScanInSession, Scanning
<1>3. MuteInv'
  BY DEF SessInv, Aside, MuteInv, Lingering
<1>4. MuteAgrees'
  BY DEF SessInv, Aside, MuteAgrees
<1> QED BY <1>1, <1>2, <1>3, <1>4 DEF SessInv

\* Stopping the smart task ends the scan.
LEMMA StopSmartEnds == ASSUME NEW q, StopSmart(q) PROVE smart' \notin Scanning
  BY DEF StopSmart, Scanning

\* The tasks that prepare, release, stop and discover, and the smart task.
LEMMA TasksAside ==
    ASSUME \/ PrepareClean \/ PrepareBoot \/ PrepareScan \/ PrepareBusy
           \/ ReleaseRun \/ ReleaseReport \/ StopClose \/ StopTeardown
           \/ TaskExit \/ DiscoveryStart \/ DiscoveryStop \/ DiscoveryPost
           \/ SmartBegin \/ SmartVerdict \/ SmartOrphanEnds \/ SmartDiscovered
    PROVE  Aside
<1>1. CASE PrepareClean
  BY <1>1, StopSmartEnds DEF PrepareClean, FullRelease, Aside, Scanning, orchVars,
     otherVars, rtcVars
<1>2. CASE PrepareBoot
  BY <1>2, StopSmartEnds DEF PrepareBoot, FullRelease, Aside, Scanning, orchVars,
     otherVars, rtcVars
<1>3. CASE PrepareScan
  BY <1>3, StopSmartEnds DEF PrepareScan, FullRelease, Aside, Scanning, bleVars,
     orchVars, otherVars, rtcVars
<1>4. CASE PrepareBusy
  BY <1>4 DEF PrepareBusy, Aside, Scanning, orchVars, otherVars, bleVars, rtcVars
<1>5. CASE ReleaseRun
  BY <1>5, StopSmartEnds DEF ReleaseRun, FullRelease, Aside, Scanning, orchVars,
     otherVars, rtcVars
<1>6. CASE ReleaseReport
  BY <1>6 DEF ReleaseReport, Aside, Scanning, orchVars, otherVars, bleVars, rtcVars
<1>7. CASE StopClose
  BY <1>7 DEF StopClose, Aside, Scanning, orchVars, otherVars, bleVars
<1>8. CASE StopTeardown
  BY <1>8 DEF StopTeardown, TeardownMedia, Aside, Scanning, orchVars, otherVars,
     bleVars
<1>9. CASE TaskExit
  BY <1>9 DEF TaskExit, Aside, Scanning, orchVars, otherVars, bleVars, rtcVars
<1>10. CASE DiscoveryStart
  BY <1>10 DEF DiscoveryStart, Aside, Scanning, orchVars, otherVars, rtcVars
<1>11. CASE DiscoveryStop
  BY <1>11, StopSmartEnds DEF DiscoveryStop, Aside, orchVars, otherVars, rtcVars
<1>12. CASE DiscoveryPost
  BY <1>12 DEF DiscoveryPost, Aside, Scanning, orchVars, otherVars, bleVars, rtcVars
<1>13. CASE SmartBegin
  BY <1>13 DEF SmartBegin, Aside, Scanning, orchVars, otherVars, rtcVars
<1>14. CASE SmartVerdict
  BY <1>14 DEF SmartVerdict, Aside, Scanning, orchVars, otherVars, rtcVars
<1>15. CASE SmartOrphanEnds
  BY <1>15 DEF SmartOrphanEnds, Aside, Scanning, orchVars, otherVars, rtcVars
<1>16. CASE SmartDiscovered
  BY <1>16 DEF SmartDiscovered, Aside, Scanning, orchVars, otherVars, rtcVars
<1> QED BY <1>1, <1>2, <1>3, <1>4, <1>5, <1>6, <1>7, <1>8, <1>9, <1>10, <1>11, <1>12, <1>13,
   <1>14, <1>15, <1>16

\* Network, session, buttons, timers and ignored events.
LEMMA EnvironmentAside ==
    ASSUME \/ LinkUp \/ LinkDown \/ MigrationTakesBit \/ RtcConnected
           \/ RtcDown \/ RtcSpoken \/ RtcFatal \/ MuteButton
           \/ MuteRequest(TRUE) \/ MuteRequest(FALSE) \/ IdleTimerExpires \/ Ignore
    PROVE  Aside
<1>1. CASE LinkUp
  BY <1>1 DEF LinkUp, Aside, Scanning, orchVars, bleVars, rtcVars, muteVars
<1>2. CASE LinkDown
  BY <1>2 DEF LinkDown, Aside, Scanning, orchVars, bleVars, rtcVars, muteVars
<1>3. CASE MigrationTakesBit
  BY <1>3 DEF MigrationTakesBit, Aside, Scanning, orchVars, bleVars, rtcVars, muteVars
<1>4. CASE RtcConnected
  BY <1>4 DEF RtcConnected, SessionFrame, Aside, Scanning, orchVars, otherVars, bleVars
<1>5. CASE RtcDown
  BY <1>5 DEF RtcDown, SessionFrame, Aside, Scanning, orchVars, otherVars, bleVars
<1>6. CASE RtcSpoken
  BY <1>6 DEF RtcSpoken, SessionFrame, Aside, Scanning, orchVars, otherVars, bleVars
<1>7. CASE RtcFatal
  BY <1>7 DEF RtcFatal, Aside, Scanning, orchVars, bleVars, rtcVars, muteVars
<1>8. CASE MuteButton
  BY <1>8 DEF MuteButton, MuteFrame, Aside, Scanning, orchVars, bleVars, rtcVars
<1>9. CASE MuteRequest(TRUE)
  BY <1>9 DEF MuteRequest, MuteFrame, Aside, Scanning, orchVars, bleVars, rtcVars
<1>10. CASE MuteRequest(FALSE)
  BY <1>10 DEF MuteRequest, MuteFrame, Aside, Scanning, orchVars, bleVars, rtcVars
<1>11. CASE IdleTimerExpires
  BY <1>11 DEF IdleTimerExpires, MuteFrame, Aside, Scanning, orchVars, bleVars, rtcVars
<1>12. CASE Ignore
  BY <1>12 DEF Ignore, Aside, Scanning, bleVars, rtcVars, muteVars
<1> QED BY <1>1, <1>2, <1>3, <1>4, <1>5, <1>6, <1>7, <1>8, <1>9, <1>10, <1>11, <1>12

\* After a restart nothing is open, scanning or muted.
LEMMA RestartKeeps == ASSUME NEW mode, Restart(mode) PROVE SessInv'
  BY DEF Restart, SessInv, BlockInv, OpenInv, Lingering, NoScanInSession, MuteInv,
     MuteAgrees

\* WAIT_WIFI is entered with everything still open; its teardown comes next.
LEMMA EnterWaitWifiKeeps ==
    ASSUME SessInv, NEW q, EnterWaitWifi(q)
    PROVE  SessInv'
  BY DEF EnterWaitWifi, bleVars, rtcVars, SessInv, BlockInv, OpenInv, Lingering,
     NoScanInSession, MuteInv, MuteAgrees

\* SLEEP leaves a session that could not be stopped as it is.
LEMMA EnterSleepKeeps ==
    ASSUME SessInv, NEW q, EnterSleep(q)
    PROVE  SessInv'
<1>1. CASE Restart("centinela")
  BY <1>1, RestartKeeps
<1>2. CASE ~Restart("centinela")
  BY <1>2 DEF EnterSleep, bleVars, rtcVars, SessInv, BlockInv, OpenInv, Lingering,
     NoScanInSession, MuteInv, MuteAgrees
<1> QED BY <1>1, <1>2

\* The ways back to WAIT_WIFI and SLEEP, and the restarts.
LEMMA RetreatKeeps ==
    ASSUME SessInv,
           \/ WifiLost \/ PreparingBusy \/ ReleasingFailed \/ StoppingStopped
           \/ IgniteRecover \/ ActiveAutoSleep \/ ActiveVigilanteOver
           \/ FatalReboot \/ KillSwitch \/ PowerCycle
    PROVE  SessInv'
<1>1. \/ EnterWaitWifi(Tail(queue)) \/ EnterWaitWifi(queue)
      \/ EnterSleep(Tail(queue)) \/ EnterSleep(queue)
      \/ Restart(nvsMode) \/ Restart("centinela")
  BY DEF WifiLost, PreparingBusy, ReleasingFailed, StoppingStopped, IgniteRecover,
     ActiveAutoSleep, ActiveVigilanteOver, FatalReboot, KillSwitch, PowerCycle
<1> QED BY <1>1, EnterWaitWifiKeeps, EnterSleepKeeps, RestartKeeps

\* From WAIT_WIFI to the dispatch of the alert: no session is open, so the scan
\* that PREPARING_BLE asks for disturbs none.
LEMMA QuietPhaseKeeps ==
    ASSUME SessInv,
           \/ WifiReady \/ PreparingReady \/ ValidatingPresent \/ ValidatingRejected
           \/ ValidatingBusy \/ ReleasingComplete
    PROVE  SessInv'
<1>1. CASE WifiReady
  BY <1>1 DEF WifiReady, Receive, bleVars, rtcVars, muteVars, SessInv, BlockInv,
     OpenInv, Lingering, NoScanInSession, MuteInv, MuteAgrees
<1>2. CASE PreparingReady
  BY <1>2 DEF PreparingReady, StartValidation, Receive, rtcVars, muteVars, SessInv,
     BlockInv, OpenInv, Lingering, NoScanInSession, MuteInv, MuteAgrees
<1>3. CASE ValidatingPresent
  BY <1>3 DEF ValidatingPresent, bleVars, rtcVars, muteVars, SessInv, BlockInv,
     OpenInv, Lingering, NoScanInSession, MuteInv, MuteAgrees
<1>4. CASE ValidatingRejected
  BY <1>4 DEF ValidatingRejected, Receive, bleVars, rtcVars, muteVars, SessInv,
     BlockInv, OpenInv, Lingering, NoScanInSession, MuteInv, MuteAgrees
<1>5. CASE ValidatingBusy
  BY <1>5 DEF ValidatingBusy, Receive, bleVars, rtcVars, muteVars, SessInv,
     BlockInv, OpenInv, Lingering, NoScanInSession, MuteInv, MuteAgrees
<1>6. CASE ReleasingComplete
  <2>1. CASE releaseToSleep
    BY <1>6, <2>1, EnterSleepKeeps DEF ReleasingComplete
  <2>2. CASE ~releaseToSleep /\ alertPending
    BY <1>6, <2>2 DEF ReleasingComplete, EnterDispatching, Receive, bleVars, rtcVars,
       muteVars, SessInv, BlockInv, OpenInv, Lingering, NoScanInSession, MuteInv,
       MuteAgrees
  <2>3. CASE ~releaseToSleep /\ ~alertPending
    BY <1>6, <2>3 DEF ReleasingComplete, EnterIgniting, Receive, bleVars, rtcVars,
       SessInv, BlockInv, OpenInv, Lingering, NoScanInSession, MuteInv, MuteAgrees
  <2> QED BY <2>1, <2>2, <2>3
<1> QED BY <1>1, <1>2, <1>3, <1>4, <1>5, <1>6

\* The session: opened only after the smart task has been stopped, its mute
\* known to both sides, closed by the teardown of WAIT_WIFI.
LEMMA SessionKeeps ==
    ASSUME TypeOK, SessInv,
           \/ ValidatingDiscovered \/ AlertOver \/ IgniteAudio \/ IgniteStart
           \/ IgnitingConnected \/ ActiveMute(TRUE) \/ ActiveMute(FALSE) \/ ActiveIdle
           \/ SessionLost \/ FatalError \/ WaitWifiTeardown \/ WaitWifiClearBits
           \/ SleepRelease
    PROVE  SessInv'
<1>1. CASE ValidatingDiscovered
  BY <1>1 DEF ValidatingDiscovered, EnterIgniting, bleVars, rtcVars, SessInv, BlockInv,
     OpenInv, Lingering, NoScanInSession, MuteInv, MuteAgrees
<1>2. CASE AlertOver
  BY <1>2 DEF AlertOver, EnterIgniting, bleVars, rtcVars, SessInv, BlockInv, OpenInv,
     Lingering, NoScanInSession, MuteInv, MuteAgrees
<1>3. CASE IgniteAudio
  BY <1>3 DEF IgniteAudio, bleVars, muteVars, SessInv, BlockInv, OpenInv, Lingering,
     NoScanInSession, MuteInv, MuteAgrees
<1>4. CASE IgniteStart
  BY <1>4, StopSmartEnds DEF IgniteStart, muteVars, SessInv, BlockInv, OpenInv,
     Lingering, NoScanInSession, Scanning, MuteInv, MuteAgrees
<1>5. CASE IgnitingConnected
  <2>1. hwMute = FALSE /\ isMuted = FALSE
    BY <1>5 DEF IgnitingConnected, SessInv, MuteInv, TypeOK, FlagTypes
  <2>2. MuteAgrees'
    BY <1>5, <2>1 DEF IgnitingConnected, muteVars, MuteAgrees
  <2> QED
    BY <1>5, <2>2 DEF IgnitingConnected, Receive, bleVars, rtcVars, muteVars, SessInv,
       BlockInv, OpenInv, Lingering, NoScanInSession, MuteInv
<1>6. ASSUME NEW mute \in BOOLEAN, state = "ACTIVE", SetMute(mute) PROVE SessInv'
  BY <1>6 DEF SetMute, bleVars, rtcVars, SessInv, BlockInv, OpenInv, Lingering,
     NoScanInSession, MuteInv, MuteAgrees
<1>7. CASE ActiveMute(TRUE) \/ ActiveMute(FALSE) \/ ActiveIdle
  BY <1>6, <1>7 DEF ActiveMute, ActiveIdle
<1>8. CASE SessionLost
  BY <1>8 DEF SessionLost, Receive, bleVars, rtcVars, muteVars, SessInv, BlockInv,
     OpenInv, Lingering, NoScanInSession, MuteInv, MuteAgrees
<1>9. CASE FatalError
  BY <1>9 DEF FatalError, TeardownMedia, Receive, bleVars, SessInv, BlockInv, OpenInv,
     Lingering, NoScanInSession, MuteInv, MuteAgrees
<1>10. CASE WaitWifiTeardown
  BY <1>10, StopSmartEnds DEF WaitWifiTeardown, TeardownMedia, SessInv, BlockInv,
     OpenInv, Lingering, NoScanInSession, MuteInv, MuteAgrees
<1>11. CASE WaitWifiClearBits
  BY <1>11 DEF WaitWifiClearBits, bleVars, rtcVars, muteVars, SessInv, BlockInv,
     OpenInv, Lingering, NoScanInSession, MuteInv, MuteAgrees
<1>12. CASE SleepRelease
  BY <1>12, StopSmartEnds DEF SleepRelease, FullRelease, rtcVars, muteVars, SessInv,
     BlockInv, OpenInv, Lingering, NoScanInSession, Scanning, MuteInv, MuteAgrees
<1> QED BY <1>1, <1>2, <1>3, <1>4, <1>5, <1>7, <1>8, <1>9, <1>10, <1>11, <1>12

\* The invariant holds from power-on ...
LEMMA InitSess == Init => SessInv
  BY DEF Init, SessInv, BlockInv, OpenInv, Lingering, NoScanInSession, MuteInv,
     MuteAgrees

\* ... and through every step.
LEMMA StepSess == ASSUME TypeOK, SessInv, [Next]_vars PROVE SessInv'
<1>1. CASE OrchestratorStep
  BY <1>1, RetreatKeeps, QuietPhaseKeeps, SessionKeeps, EnvironmentAside, AsideKeeps
     DEF OrchestratorStep
<1>2. CASE PrepareStep \/ ReleaseStep \/ StopStep \/ TaskExit \/ DiscoveryStep \/ SmartStep
  BY <1>2, TasksAside, AsideKeeps
     DEF PrepareStep, ReleaseStep, StopStep, DiscoveryStep, SmartStep
<1>3. ASSUME NEW ts \in alertTasks, AlertDone(ts) PROVE SessInv'
  BY <1>3, AsideKeeps DEF AlertDone, orchVars, bleVars, rtcVars, muteVars, Aside
<1>4. CASE Environment
  BY <1>4, EnvironmentAside, AsideKeeps, RetreatKeeps DEF Environment
<1>5. CASE UNCHANGED vars
  BY <1>5, AsideKeeps DEF vars, bleVars, rtcVars, muteVars, Aside
<1> QED BY <1>1, <1>2, <1>3, <1>4, <1>5 DEF Next

\* The types and this invariant hold in every reachable state.
THEOREM SessionInvariance == Spec => [](TypeOK /\ SessInv)
<1>1. Init => SessInv
  BY InitSess
<1>2. TypeOK /\ SessInv /\ [Next]_vars => SessInv'
  BY StepSess
<1> QED BY <1>1, <1>2, TypeCorrect, PTL DEF Spec

\* No session is open while the orchestrator waits for Wi-Fi or uses the radio
\* for BLE, however the previous session ended: WAIT_WIFI is the only way there
\* and it closes the session before it receives another event.
THEOREM AlwaysQuietClosed == Spec => []QuietClosed
<1>1. TypeOK /\ SessInv => QuietClosed
  BY DEF TypeOK, ValueTypes, States, SessInv, OpenInv, Lingering, QuietClosed
<1> QED BY SessionInvariance, <1>1, PTL

\* No identity scan runs while a session is open or being opened, in every
\* interleaving of the orchestrator, its tasks and the smart task.
THEOREM AlwaysNoScanInSession == Spec => []NoScanInSession
<1>1. SessInv => NoScanInSession
  BY DEF SessInv
<1> QED BY SessionInvariance, <1>1, PTL

\* In a session the orchestrator's is_muted is what the capture pipeline does,
\* whatever mutes, teardowns and late stop tasks came before.
THEOREM AlwaysMuteAgrees == Spec => []MuteAgrees
<1>1. SessInv => MuteAgrees
  BY DEF SessInv
<1> QED BY SessionInvariance, <1>1, PTL

----------------------------------------------------------------------------
(* Steps beside the orchestrator *)

\* Posting loses nothing that is in the queue, and a receive only its head.
LEMMA PendingKept ==
    ASSUME NEW q \in Queue, NEW e \in Event
    PROVE  /\ Pending(q) \subseteq Pending(Enqueue(q, e))
           /\ Len(q) < QueueLen => e \in Pending(Enqueue(q, e))
           /\ q # <<>> => Pending(q) \subseteq Pending(Tail(q)) \cup {Head(q)}
<1>1. q \in Seq(Event) /\ Len(q) \in Nat
  BY DEF Queue
<1>2. ASSUME Len(q) < QueueLen
      PROVE  Pending(q) \subseteq Pending(Enqueue(q, e)) /\ e \in Pending(Enqueue(q, e))
  <2>1. /\ Len(Append(q, e)) = Len(q) + 1 /\ Append(q, e)[Len(q) + 1] = e
        /\ \A i \in 1..Len(q) : Append(q, e)[i] = q[i]
    BY <1>1
  <2> QED BY <1>1, <1>2, <2>1 DEF Enqueue, Pending
<1>3. ASSUME ~(Len(q) < QueueLen) PROVE Pending(q) \subseteq Pending(Enqueue(q, e))
  BY <1>3 DEF Enqueue
<1>4. ASSUME q # <<>> PROVE Pending(q) \subseteq Pending(Tail(q)) \cup {Head(q)}
  <2>1. /\ Len(Tail(q)) = Len(q) - 1 /\ Head(q) = q[1]
        /\ \A i \in 1..Len(Tail(q)) : Tail(q)[i] = q[i + 1]
    BY <1>1, <1>4
  <2>2. \A i \in 1..Len(q) : i = 1 \/ (i - 1) \in 1..Len(Tail(q))
    BY <1>1, <2>1
  <2> QED BY <1>1, <2>1, <2>2 DEF Pending
<1> QED BY <1>2, <1>3, <1>4

\* What a session says of itself, and everything else that can be posted.
News   == {"WEBRTC_CONNECTED", "WEBRTC_DISCONNECTED", "VIGILANTE_TIMEOUT"}
Common == EventTypes \ News

\* The step puts at most one event behind q, of a type in T.
Adds(q, T) == \/ queue' = q
              \/ \E e \in Event : e.type \in T /\ queue' = Enqueue(q, e)

\* A step of a task, a callback or the network: the orchestrator stays where
\* it is, a session is closed at most, and no session speaks.
Beside == /\ UNCHANGED <<state, pc, isMuted, activeMode, ignitionMode>>
          /\ UNCHANGED idleTimer \/ IdleTimerExpires
          /\ UNCHANGED <<rtc, rtcMode>> \/ rtc' = "closed"
          /\ Adds(queue, Common)

\* The types that tasks, buttons, timers and the network post.
LEMMA CommonNames ==
    /\ "WIFI_CONNECTED" \in Common /\ "WIFI_DISCONNECTED" \in Common
    /\ "BLE_READY" \in Common /\ "BLE_BUSY" \in Common
    /\ "IDENTITY_PRESENT" \in Common /\ "IDENTITY_REJECTED" \in Common
    /\ "DISCOVERY_COMPLETE" \in Common /\ "WEBRTC_STOPPED" \in Common
    /\ "BLE_RELEASE_COMPLETE" \in Common /\ "BLE_RELEASE_FAILED" \in Common
    /\ "AUTO_SLEEP_TIMEOUT" \in Common /\ "FATAL_ERROR" \in Common
    /\ "MIC_MUTED" \in Common /\ "MIC_UNMUTED" \in Common
  BY DEF Common, News, EventTypes

\* A post adds one event.
LEMMA PostAdds == ASSUME NEW q, NEW t \in Common, queue' = Enqueue(q, Ev(t))
                  PROVE  Adds(q, Common)
<1>1. Ev(t) \in Event /\ Ev(t).type = t
  BY DEF Common, Ev, Event
<1> QED BY <1>1 DEF Adds

\* Stopping the smart task adds at most the verdict of its scan.
LEMMA StopSmartAdds == ASSUME NEW q, StopSmart(q) PROVE Adds(q, Common)
<1>1. \/ queue' = q
      \/ queue' = Enqueue(q, Ev("IDENTITY_PRESENT"))
      \/ queue' = Enqueue(q, Ev("IDENTITY_REJECTED"))
  BY DEF StopSmart, Verdict
<1> QED BY <1>1, PostAdds, CommonNames DEF Adds

\* What is in the queue stays there while events are only added.
LEMMA AddsKeeps == ASSUME NEW q \in Queue, NEW T, Adds(q, T)
                   PROVE  Pending(q) \subseteq Pending(queue')
  BY PendingKept DEF Adds

\* The tasks that prepare, release, stop and discover, and the smart task.
LEMMA TasksBeside ==
    ASSUME \/ PrepareClean \/ PrepareBoot \/ PrepareScan \/ PrepareBusy
           \/ ReleaseRun \/ ReleaseReport \/ StopClose \/ StopTeardown
           \/ TaskExit \/ DiscoveryStart \/ DiscoveryStop \/ DiscoveryPost
           \/ SmartBegin \/ SmartVerdict \/ SmartOrphanEnds \/ SmartDiscovered
    PROVE  Beside
<1>1. CASE PrepareClean
  BY <1>1, StopSmartAdds DEF PrepareClean, FullRelease, Beside, Adds, orchVars,
     otherVars, modeVars, rtcVars
<1>2. CASE PrepareBoot
  BY <1>2, StopSmartAdds DEF PrepareBoot, FullRelease, Beside, Adds, orchVars,
     otherVars, modeVars, rtcVars
<1>3. CASE PrepareScan
  BY <1>3, StopSmartAdds, PostAdds, CommonNames DEF PrepareScan, FullRelease, Post,
     Beside, Adds, orchVars, otherVars, modeVars, rtcVars
<1>4. CASE PrepareBusy
  BY <1>4, PostAdds, CommonNames DEF PrepareBusy, Post, Beside, Adds, orchVars,
     otherVars, modeVars, rtcVars
<1>5. CASE ReleaseRun
  BY <1>5, StopSmartAdds DEF ReleaseRun, FullRelease, Beside, Adds, orchVars,
     otherVars, modeVars, rtcVars
<1>6. CASE ReleaseReport
  BY <1>6, PostAdds, CommonNames DEF ReleaseReport, Post, Beside, Adds, orchVars,
     otherVars, modeVars, rtcVars
<1>7. CASE StopClose
  BY <1>7 DEF StopClose, Beside, Adds, orchVars, otherVars, modeVars, rtcVars
<1>8. CASE StopTeardown
  BY <1>8, PostAdds, CommonNames DEF StopTeardown, Post, Beside, Adds, orchVars,
     otherVars, modeVars, rtcVars
<1>9. CASE TaskExit
  BY <1>9 DEF TaskExit, Beside, Adds, orchVars, otherVars, modeVars, rtcVars
<1>10. CASE DiscoveryStart
  BY <1>10 DEF DiscoveryStart, Beside, Adds, orchVars, otherVars, modeVars, rtcVars
<1>11. CASE DiscoveryStop
  BY <1>11, StopSmartAdds DEF DiscoveryStop, Beside, Adds, orchVars, otherVars,
     modeVars, rtcVars
<1>12. CASE DiscoveryPost
  BY <1>12, PostAdds, CommonNames DEF DiscoveryPost, Post, Beside, Adds, orchVars,
     otherVars, modeVars, rtcVars
<1>13. CASE SmartBegin
  BY <1>13, PostAdds, CommonNames DEF SmartBegin, Post, Beside, Adds, orchVars,
     otherVars, modeVars, rtcVars
<1>14. CASE SmartVerdict
  BY <1>14, PostAdds, CommonNames DEF SmartVerdict, Verdict, Beside, Adds, orchVars,
     otherVars, modeVars, rtcVars
<1>15. CASE SmartOrphanEnds
  BY <1>15, PostAdds, CommonNames DEF SmartOrphanEnds, Verdict, Beside, Adds,
     orchVars, otherVars, modeVars, rtcVars
<1>16. CASE SmartDiscovered
  BY <1>16 DEF SmartDiscovered, Beside, Adds, orchVars, otherVars, modeVars, rtcVars
<1> QED BY <1>1, <1>2, <1>3, <1>4, <1>5, <1>6, <1>7, <1>8, <1>9, <1>10, <1>11,
   <1>12, <1>13, <1>14, <1>15, <1>16

\* The network, the signaling, the mute button, the tools and the idle timer.
LEMMA EnvironmentBeside ==
    ASSUME \/ LinkUp \/ LinkDown \/ MigrationTakesBit \/ RtcFatal \/ MuteButton
           \/ MuteRequest(TRUE) \/ MuteRequest(FALSE) \/ IdleTimerExpires
    PROVE  Beside
<1>1. CASE LinkUp
  BY <1>1, PostAdds, CommonNames DEF LinkUp, Post, Beside, Adds, orchVars, muteVars,
     modeVars, rtcVars
<1>2. CASE LinkDown
  BY <1>2, PostAdds, CommonNames DEF LinkDown, Post, Beside, Adds, orchVars, muteVars,
     modeVars, rtcVars
<1>3. CASE MigrationTakesBit
  BY <1>3 DEF MigrationTakesBit, Beside, Adds, orchVars, muteVars, modeVars, rtcVars
<1>4. CASE RtcFatal
  BY <1>4, PostAdds, CommonNames DEF RtcFatal, Post, Beside, Adds, orchVars, muteVars,
     modeVars, rtcVars
<1>5. CASE MuteButton
  BY <1>5, PostAdds, CommonNames DEF MuteButton, MuteFrame, Post, Beside, Adds,
     orchVars, muteVars, modeVars, rtcVars
<1>6. CASE MuteRequest(TRUE)
  BY <1>6, PostAdds, CommonNames DEF MuteRequest, MuteFrame, Post, Beside, Adds,
     orchVars, muteVars, modeVars, rtcVars
<1>7. CASE MuteRequest(FALSE)
  BY <1>7, PostAdds, CommonNames DEF MuteRequest, MuteFrame, Post, Beside, Adds,
     orchVars, muteVars, modeVars, rtcVars
<1>8. CASE IdleTimerExpires
  BY <1>8, PostAdds, CommonNames DEF IdleTimerExpires, MuteFrame, Post, Beside, Adds,
     orchVars, muteVars, modeVars, rtcVars
<1> QED BY <1>1, <1>2, <1>3, <1>4, <1>5, <1>6, <1>7, <1>8

\* The result of an alert is posted like any other event.
LEMMA AlertDoneBeside == ASSUME TypeOK, NEW ts \in alertTasks, AlertDone(ts) PROVE Beside
<1>1. PICK r \in AlertResults : queue' = Enqueue(queue, [type |-> r, ts |-> ts])
  BY DEF AlertDone
<1>2. [type |-> r, ts |-> ts] \in Event
  BY AlertEvent DEF TypeOK, ValueTypes
<1>3. r \in Common /\ [type |-> r, ts |-> ts].type = r
  BY DEF Common, News, EventTypes, AlertResults
<1>4. Adds(queue, Common)
  BY <1>1, <1>2, <1>3 DEF Adds
<1> QED BY <1>4 DEF AlertDone, Beside, orchVars, modeVars, muteVars, rtcVars

\* A session that is open speaks; nothing else changes.
Speaks == /\ UNCHANGED <<state, pc, isMuted, activeMode, idleTimer, rtcMode, alertTs>>
          /\ UNCHANGED <<prepare, release, rtcStop, alertTasks>>
          /\ Adds(queue, News)

\* Connected, lost, or done with the warning.
LEMMA SessionSpeaks == ASSUME RtcConnected \/ RtcDown \/ RtcSpoken PROVE Speaks
<1>1. ASSUME NEW t \in News, Post(t) PROVE Adds(queue, News)
  <2>1. Ev(t) \in Event /\ Ev(t).type = t
    BY DEF News, EventTypes, Ev, Event
  <2> QED BY <1>1, <2>1 DEF Adds, Post
<1>2. /\ "WEBRTC_CONNECTED" \in News /\ "WEBRTC_DISCONNECTED" \in News
      /\ "VIGILANTE_TIMEOUT" \in News
  BY DEF News
<1> QED BY <1>1, <1>2 DEF RtcConnected, RtcDown, RtcSpoken, SessionFrame, Speaks,
   orchVars, otherVars, alertVars, taskVars, modeVars

----------------------------------------------------------------------------
(* The deadline of a muted session *)

\* The session, its timer and a request that is in the queue stay.
Waiting == /\ UNCHANGED <<state, isMuted, activeMode, idleTimer>>
           /\ Pending(queue) \subseteq Pending(queue')

\* A session that goes on with its timer and its pending reboot keeps its
\* deadline.
LEMMA WaitingKeeps == ASSUME MutedHasDeadline, Waiting PROVE MutedHasDeadline'
  BY DEF MutedHasDeadline, Waiting

\* Steps beside the orchestrator leave the deadline alone, but for the timer.
LEMMA BesideWaits ==
    ASSUME TypeOK, Beside \/ Speaks, ~IdleTimerExpires
    PROVE  Waiting
  BY AddsKeeps DEF TypeOK, Beside, Speaks, Waiting

\* The orchestrator leaves ACTIVE, sets the mute and its timer together, or
\* ignores an event; it ignores an idle timeout only in a vigilante session.
LEMMA OrchestratorKeepsDeadline ==
    ASSUME TypeOK, SessInv, OrchestratorStep, MutedHasDeadline
    PROVE  MutedHasDeadline'
<1>1. CASE Ignore
  <2>1. Ev("BLE_BUSY") \in Event
    BY EventNames DEF Ev, Event
  <2>2. Pending(queue) \subseteq Pending(queue') \cup {Head(queue)}
    BY <1>1, <2>1, PendingKept DEF Ignore, TypeOK
  <2>3. state = "ACTIVE" /\ Head(queue).type = "AUTO_SLEEP_TIMEOUT"
          => activeMode = "vigilante"
    BY <1>1 DEF Ignore, Ignored, Handled
  <2> QED BY <1>1, <2>2, <2>3 DEF Ignore, MutedHasDeadline, modeVars, muteVars
<1>2. CASE ActiveMute(TRUE) \/ ActiveMute(FALSE) \/ ActiveIdle
  BY <1>2 DEF ActiveMute, ActiveIdle, SetMute, MutedHasDeadline
<1>3. CASE IgnitingConnected
  BY <1>3 DEF IgnitingConnected, muteVars, SessInv, MuteInv, MutedHasDeadline
<1>4. ASSUME NEW q, EnterWaitWifi(q) \/ EnterSleep(q) PROVE state' # "ACTIVE"
  BY <1>4 DEF EnterWaitWifi, EnterSleep, Restart
<1>5. CASE WifiLost \/ PreparingBusy \/ ReleasingFailed \/ StoppingStopped \/ IgniteRecover
  BY <1>4, <1>5 DEF WifiLost, PreparingBusy, ReleasingFailed, StoppingStopped,
     IgniteRecover, MutedHasDeadline
<1>6. CASE ActiveAutoSleep \/ ActiveVigilanteOver
  BY <1>6 DEF ActiveAutoSleep, ActiveVigilanteOver, Restart, MutedHasDeadline
<1>7. CASE ReleasingComplete
  BY <1>4, <1>7 DEF ReleasingComplete, EnterDispatching, EnterIgniting, MutedHasDeadline
<1>8. CASE \/ WifiReady \/ PreparingReady \/ ValidatingPresent \/ ValidatingDiscovered
           \/ ValidatingRejected \/ ValidatingBusy \/ AlertOver \/ SessionLost
           \/ FatalError
  BY <1>8 DEF WifiReady, PreparingReady, ValidatingPresent, ValidatingDiscovered,
     ValidatingRejected, ValidatingBusy, AlertOver, EnterIgniting, SessionLost,
     FatalError, MutedHasDeadline
<1>9. CASE \/ WaitWifiTeardown \/ WaitWifiClearBits \/ SleepRelease \/ IgniteAudio
           \/ IgniteStart
  BY <1>9 DEF WaitWifiTeardown, WaitWifiClearBits, SleepRelease, IgniteAudio,
     IgniteStart, SessInv, BlockInv, MutedHasDeadline
<1> QED BY <1>1, <1>2, <1>3, <1>5, <1>6, <1>7, <1>8, <1>9 DEF OrchestratorStep

\* The 14-minute timer asks for the reboot, if there is room for the request.
LEMMA TimerKeepsDeadline ==
    ASSUME TypeOK, IdleTimerExpires, Len(queue) < QueueLen
    PROVE  MutedHasDeadline'
<1>1. Ev("AUTO_SLEEP_TIMEOUT") \in Event
  BY EventNames DEF Ev, Event
<1>2. Ev("AUTO_SLEEP_TIMEOUT") \in Pending(queue')
  BY <1>1, PendingKept DEF IdleTimerExpires, Post, TypeOK
<1> QED BY <1>2 DEF MutedHasDeadline, Ev

\* No step takes its deadline from a muted session, as long as the timer finds
\* room for its request.
LEMMA DeadlineKept ==
    ASSUME TypeOK, SessInv, Next, MutedHasDeadline,
           IdleTimerExpires => Len(queue) < QueueLen
    PROVE  MutedHasDeadline'
<1>1. CASE OrchestratorStep
  BY <1>1, OrchestratorKeepsDeadline
<1>2. CASE \/ PrepareStep \/ ReleaseStep \/ StopStep \/ TaskExit \/ DiscoveryStep
           \/ SmartStep
  <2>1. Beside
    BY <1>2, TasksBeside DEF PrepareStep, ReleaseStep, StopStep, DiscoveryStep, SmartStep
  <2>2. CASE ~IdleTimerExpires
    BY <2>1, <2>2, BesideWaits, WaitingKeeps
  <2> QED BY <2>2, TimerKeepsDeadline
<1>3. ASSUME NEW ts \in alertTasks, AlertDone(ts) PROVE MutedHasDeadline'
  <2>1. CASE ~IdleTimerExpires
    BY <1>3, <2>1, AlertDoneBeside, BesideWaits, WaitingKeeps
  <2> QED BY <2>1, TimerKeepsDeadline
<1>4. CASE Environment
  <2>1. CASE IdleTimerExpires
    BY <2>1, TimerKeepsDeadline
  <2>2. CASE FatalReboot \/ KillSwitch \/ PowerCycle
    BY <2>2 DEF FatalReboot, KillSwitch, PowerCycle, Restart, MutedHasDeadline
  <2>3. CASE ~IdleTimerExpires /\ (Beside \/ Speaks)
    BY <2>3, BesideWaits, WaitingKeeps
  <2> QED BY <1>4, <2>1, <2>2, <2>3, EnvironmentBeside, SessionSpeaks DEF Environment
<1> QED BY <1>1, <1>2, <1>3, <1>4 DEF Next

\* A muted session loses its deadline only if its timer finds the queue full.
THEOREM DeadlineLostWhenFull ==
    Spec => [][MutedHasDeadline => MutedHasDeadline' \/ Len(queue) = QueueLen]_vars
<1>1. ASSUME TypeOK, SessInv, Next, MutedHasDeadline, Len(queue) # QueueLen
      PROVE  MutedHasDeadline'
  <2>1. Len(queue) < QueueLen
    BY <1>1, QueueLenAssumption DEF TypeOK, Queue
  <2> QED BY <1>1, <2>1, DeadlineKept
<1>2. TypeOK /\ SessInv /\ [Next]_vars =>
        [MutedHasDeadline => MutedHasDeadline' \/ Len(queue) = QueueLen]_vars
  BY <1>1
<1> QED BY SessionInvariance, <1>2, PTL DEF Spec

\* The 14-minute timer, when it expires, finds room for its request.
TimerFindsRoom == [][IdleTimerExpires => Len(queue) < QueueLen]_vars

\* A muted session is never forgotten, for every queue depth and however many
\* sessions and restarts, if its timer never finds the queue full; without that
\* it is false.  vIdleTimerCallback stops the timer and does not look at what
\* orchestrator_post_event returns.
THEOREM MutedNeverForgotten == Spec /\ TimerFindsRoom => []MutedHasDeadline
<1>1. Init => MutedHasDeadline
  BY DEF Init, MutedHasDeadline
<1>2. TypeOK /\ SessInv /\ MutedHasDeadline /\ [Next]_vars
        /\ [IdleTimerExpires => Len(queue) < QueueLen]_vars => MutedHasDeadline'
  <2>1. ASSUME TypeOK, SessInv, MutedHasDeadline, [Next]_vars, UNCHANGED vars
        PROVE  MutedHasDeadline'
    BY <2>1 DEF vars, modeVars, muteVars, MutedHasDeadline
  <2> QED BY <2>1, DeadlineKept
<1> QED BY <1>1, <1>2, SessionInvariance, PTL DEF Spec, TimerFindsRoom

----------------------------------------------------------------------------
(* The reports that the orchestrator waits for *)

\* A handle in one of these promises no report any more.
Idle == {"none", "posted"}

\* The reports that end each wait.
PrepareReports == {"BLE_READY", "BLE_BUSY"}
ReleaseReports == {"BLE_RELEASE_COMPLETE", "BLE_RELEASE_FAILED"}
StopReports    == {"WEBRTC_STOPPED"}

Reported(T)        == \E e \in Pending(queue) : e.type \in T
AlertReported(ts)  == \E e \in Pending(queue) : e.type \in AlertResults /\ e.ts = ts

\* A state that waits for a report has it in the queue, or a task that is
\* still to post it.
ReportComes ==
    /\ state = "PREPARING_BLE" => prepare \notin Idle \/ Reported(PrepareReports)
    /\ state = "RELEASING_BLE" => release \notin Idle \/ Reported(ReleaseReports)
    /\ state = "STOPPING_WEBRTC" => rtcStop \notin Idle \/ Reported(StopReports)
    /\ state = "DISPATCHING_ALERT" => alertTs \in alertTasks \/ AlertReported(alertTs)

\* Nothing waits in the queue in vain: no event is lost, and no task comes to
\* its end without its report.
Reporting ==
    /\ UNCHANGED <<state, alertTs>>
    /\ Pending(queue) \subseteq Pending(queue')
    /\ prepare' \in Idle => prepare \in Idle \/ Reported(PrepareReports)'
    /\ release' \in Idle => release \in Idle \/ Reported(ReleaseReports)'
    /\ rtcStop' \in Idle => rtcStop \in Idle \/ Reported(StopReports)'
    /\ \A ts \in alertTasks : ts \in alertTasks' \/ AlertReported(ts)'

\* Such a step keeps every wait alive.
LEMMA ReportingKeeps == ASSUME ReportComes, Reporting PROVE ReportComes'
<1>1. ASSUME NEW T, Reported(T) PROVE Reported(T)'
  BY <1>1 DEF Reported, Reporting
<1>2. ASSUME NEW ts, AlertReported(ts) PROVE AlertReported(ts)'
  BY <1>2 DEF AlertReported, Reporting
<1> QED BY <1>1, <1>2 DEF ReportComes, Reporting

\* A post that finds room is in the queue.
LEMMA PostReports ==
    ASSUME NEW q \in Queue, Len(q) < QueueLen, NEW t \in EventTypes, NEW T, t \in T,
           queue' = Enqueue(q, Ev(t))
    PROVE  Reported(T)'
<1>1. Ev(t) \in Event /\ Ev(t).type = t
  BY DEF Ev, Event
<1>2. Ev(t) \in Pending(queue')
  BY <1>1, PendingKept
<1> QED BY <1>1, <1>2 DEF Reported

\* A task clears its handle, or marks it as done with, only after its post.
LEMMA TasksReport ==
    ASSUME TypeOK, Len(queue) < QueueLen,
           \/ PrepareClean \/ PrepareBoot \/ PrepareScan \/ PrepareBusy
           \/ ReleaseRun \/ ReleaseReport \/ StopClose \/ StopTeardown
           \/ TaskExit \/ DiscoveryStart \/ DiscoveryStop \/ DiscoveryPost
           \/ SmartBegin \/ SmartVerdict \/ SmartOrphanEnds \/ SmartDiscovered
    PROVE  Reporting
<1>1. Pending(queue) \subseteq Pending(queue') /\ UNCHANGED state
  BY TasksBeside, AddsKeeps DEF Beside, TypeOK
<1>2. CASE PrepareClean \/ PrepareBoot
  BY <1>1, <1>2 DEF PrepareClean, PrepareBoot, Reporting, Idle, otherVars, alertVars
<1>3. CASE PrepareScan
  <2>1. CASE prepare' = "busy"
    BY <1>1, <1>3, <2>1 DEF PrepareScan, Reporting, Idle, otherVars, alertVars
  <2>2. CASE Post("BLE_READY")
    <3>1. Reported(PrepareReports)'
      BY <2>2, PostReports, EventNames DEF Post, TypeOK, PrepareReports
    <3> QED BY <1>1, <1>3, <3>1 DEF PrepareScan, Reporting, otherVars, alertVars
  <2> QED BY <1>3, <2>1, <2>2 DEF PrepareScan
<1>4. CASE PrepareBusy
  <2>1. Reported(PrepareReports)'
    BY <1>4, PostReports, EventNames DEF PrepareBusy, Post, TypeOK, PrepareReports
  <2> QED BY <1>1, <1>4, <2>1 DEF PrepareBusy, Reporting, otherVars, alertVars
<1>5. CASE ReleaseRun
  BY <1>1, <1>5 DEF ReleaseRun, Reporting, Idle, otherVars, alertVars
<1>6. CASE ReleaseReport
  <2>1. Reported(ReleaseReports)'
    BY <1>6, PostReports, EventNames DEF ReleaseReport, Post, TypeOK, ReleaseReports
  <2> QED BY <1>1, <1>6, <2>1 DEF ReleaseReport, Reporting, otherVars, alertVars
<1>7. CASE StopClose
  BY <1>1, <1>7 DEF StopClose, Reporting, Idle, otherVars, alertVars
<1>8. CASE StopTeardown
  <2>1. Reported(StopReports)'
    BY <1>8, PostReports, EventNames DEF StopTeardown, Post, TypeOK, StopReports
  <2> QED BY <1>1, <1>8, <2>1 DEF StopTeardown, Reporting, otherVars, alertVars
<1>9. CASE TaskExit
  BY <1>1, <1>9 DEF TaskExit, Reporting, Idle, otherVars, alertVars
<1>10. CASE \/ DiscoveryStart \/ DiscoveryStop \/ DiscoveryPost
            \/ SmartBegin \/ SmartVerdict \/ SmartOrphanEnds \/ SmartDiscovered
  BY <1>1, <1>10 DEF DiscoveryStart, DiscoveryStop, DiscoveryPost, SmartBegin,
     SmartVerdict, SmartOrphanEnds, SmartDiscovered, Reporting, taskVars, otherVars,
     alertVars
<1> QED BY <1>2, <1>3, <1>4, <1>5, <1>6, <1>7, <1>8, <1>9, <1>10

\* An alert task posts its result, with the timestamp of its alert.
LEMMA AlertDoneReports ==
    ASSUME TypeOK, Len(queue) < QueueLen, NEW ts \in alertTasks, AlertDone(ts)
    PROVE  Reporting
<1>1. Pending(queue) \subseteq Pending(queue') /\ UNCHANGED state
  BY AlertDoneBeside, AddsKeeps DEF Beside, TypeOK
<1>2. PICK r \in AlertResults : queue' = Enqueue(queue, [type |-> r, ts |-> ts])
  BY DEF AlertDone
<1>3. [type |-> r, ts |-> ts] \in Event
  BY AlertEvent DEF TypeOK, ValueTypes
<1>4. [type |-> r, ts |-> ts] \in Pending(queue')
  BY <1>2, <1>3, PendingKept DEF TypeOK
<1>5. AlertReported(ts)'
  BY <1>4 DEF AlertReported
<1> QED BY <1>1, <1>5 DEF AlertDone, Reporting, taskVars

\* Network, session, buttons and timers start and end no task.
LEMMA EnvironmentReports ==
    ASSUME TypeOK,
           \/ LinkUp \/ LinkDown \/ MigrationTakesBit \/ RtcConnected
           \/ RtcDown \/ RtcSpoken \/ RtcFatal \/ MuteButton
           \/ MuteRequest(TRUE) \/ MuteRequest(FALSE) \/ IdleTimerExpires
    PROVE  Reporting
<1>1. Pending(queue) \subseteq Pending(queue') /\ UNCHANGED state
  BY EnvironmentBeside, SessionSpeaks, AddsKeeps DEF Beside, Speaks, TypeOK
<1>2. UNCHANGED <<alertTs, alertTasks, prepare, release, rtcStop>>
  BY DEF LinkUp, LinkDown, MigrationTakesBit, RtcConnected, RtcDown, RtcSpoken, RtcFatal,
     SessionFrame, MuteButton, MuteRequest, IdleTimerExpires, MuteFrame, otherVars,
     alertVars, taskVars
<1> QED BY <1>1, <1>2 DEF Reporting

\* Where a wait begins its task is started, or is running already, or its
\* failure is reported at once; only a handle that is done with deceives.
LEMMA StartReports ==
    ASSUME NEW q \in Queue, Len(q) < QueueLen, NEW task, task # "posted", NEW taskNext,
           NEW failure \in EventTypes, NEW T, failure \in T,
           StartTask(task, taskNext, q, failure)
    PROVE  taskNext \notin Idle \/ Reported(T)'
<1>1. CASE queue' = Enqueue(q, Ev(failure))
  BY <1>1, PostReports
<1> QED BY <1>1 DEF StartTask, Idle

\* After a receive there is room for one event.
LEMMA RoomAfterReceive == ASSUME TypeOK, queue # <<>>
                          PROVE  Tail(queue) \in Queue /\ Len(Tail(queue)) < QueueLen
<1>1. queue \in Seq(Event) /\ Len(queue) <= QueueLen
  BY DEF TypeOK, Queue
<1>2. Len(Tail(queue)) = Len(queue) - 1
  BY <1>1, HeadTailProperties, Zenon
<1>3. Len(queue) \in Nat /\ QueueLen \in Nat
  BY <1>1, QueueLenAssumption
<1> QED BY <1>1, <1>2, <1>3, TailQueue DEF TypeOK

\* The alert is handed to a task, or its failure is reported at once.
LEMMA DispatchReports ==
    ASSUME TypeOK, queue # <<>>, EnterDispatching(Tail(queue))
    PROVE  ReportComes'
<1>1. CASE alertTasks' = alertTasks \cup {alertTs}
  BY <1>1 DEF EnterDispatching, ReportComes
<1>2. CASE queue' = Enqueue(Tail(queue), [type |-> "ALERT_DISPATCH_FAILED", ts |-> alertTs])
  <2> DEFINE e == [type |-> "ALERT_DISPATCH_FAILED", ts |-> alertTs]
  <2>1. e \in Event /\ e.type \in AlertResults /\ e.ts = alertTs
    BY DEF Event, EventTypes, AlertResults, TypeOK, ValueTypes
  <2>2. e \in Pending(queue')
    BY <1>2, <2>1, RoomAfterReceive, PendingKept
  <2>3. \E x \in Pending(queue') : x.type \in AlertResults /\ x.ts = alertTs
    BY <2>1, <2>2
  <2>4. AlertReported(alertTs)' /\ alertTs' = alertTs
    BY <2>3 DEF AlertReported, EnterDispatching
  <2> QED BY <2>4 DEF EnterDispatching, ReportComes
<1> QED BY <1>1, <1>2 DEF EnterDispatching, StartAlert

\* The orchestrator starts a task where it begins to wait, and where it waits
\* it ignores no report: an alert result is ignored only if it is of another
\* alert.
LEMMA OrchestratorReports ==
    ASSUME TypeOK, SessInv, ReportComes, OrchestratorStep,
           "posted" \notin {prepare, release, rtcStop}
    PROVE  ReportComes'
<1>1. CASE WifiReady
  <2>1. prepare' \notin Idle \/ Reported(PrepareReports)'
    BY <1>1, StartReports, RoomAfterReceive, EventNames
       DEF WifiReady, Receive, PrepareReports
  <2> QED BY <1>1, <2>1 DEF WifiReady, ReportComes
<1>2. CASE ValidatingRejected \/ ValidatingBusy
  <2>1. release' \notin Idle \/ Reported(ReleaseReports)'
    BY <1>2, StartReports, RoomAfterReceive, EventNames
       DEF ValidatingRejected, ValidatingBusy, Receive, ReleaseReports
  <2> QED BY <1>2, <2>1 DEF ValidatingRejected, ValidatingBusy, ReportComes
<1>3. CASE SessionLost
  <2>1. rtcStop' \notin Idle \/ Reported(StopReports)'
    BY <1>3, StartReports, RoomAfterReceive, EventNames
       DEF SessionLost, Receive, StopReports
  <2> QED BY <1>3, <2>1 DEF SessionLost, ReportComes
<1>4. ASSUME NEW q, EnterWaitWifi(q) \/ EnterSleep(q) PROVE ReportComes'
  BY <1>4 DEF EnterWaitWifi, EnterSleep, Restart, ReportComes
<1>5. CASE ReleasingComplete
  <2>1. CASE EnterDispatching(Tail(queue))
    BY <1>5, <2>1, DispatchReports DEF ReleasingComplete, Receive
  <2>2. CASE EnterIgniting(pendingMode)
    BY <2>2 DEF EnterIgniting, ReportComes
  <2> QED BY <1>4, <1>5, <2>1, <2>2 DEF ReleasingComplete
<1>6. CASE WifiLost \/ PreparingBusy \/ ReleasingFailed \/ StoppingStopped \/ IgniteRecover
  BY <1>4, <1>6 DEF WifiLost, PreparingBusy, ReleasingFailed, StoppingStopped,
     IgniteRecover
<1>7. CASE \/ PreparingReady \/ ValidatingPresent \/ ValidatingDiscovered \/ AlertOver
           \/ IgnitingConnected \/ FatalError \/ ActiveAutoSleep \/ ActiveVigilanteOver
  BY <1>7 DEF PreparingReady, ValidatingPresent, ValidatingDiscovered, AlertOver,
     EnterIgniting, IgnitingConnected, FatalError, ActiveAutoSleep,
     ActiveVigilanteOver, Restart, ReportComes
<1>8. CASE ActiveMute(TRUE) \/ ActiveMute(FALSE) \/ ActiveIdle
  BY <1>8 DEF ActiveMute, ActiveIdle, SetMute, ReportComes
<1>9. CASE \/ WaitWifiTeardown \/ WaitWifiClearBits \/ SleepRelease \/ IgniteAudio
           \/ IgniteStart
  BY <1>9 DEF WaitWifiTeardown, WaitWifiClearBits, SleepRelease, IgniteAudio,
     IgniteStart, SessInv, BlockInv, ReportComes
<1>10. CASE Ignore
  <2>1. /\ UNCHANGED <<state, alertTs, alertTasks, prepare, release, rtcStop>>
        /\ Ignored(Head(queue))
    BY <1>10 DEF Ignore, alertVars, taskVars
  <2>2. Pending(queue) \subseteq Pending(queue') \cup {Head(queue)}
    <3>1. Ev("BLE_BUSY") \in Event
      BY EventNames DEF Ev, Event
    <3> QED BY <1>10, <3>1, PendingKept DEF Ignore, TypeOK
  <2>3. /\ state = "PREPARING_BLE" => Head(queue).type \notin PrepareReports
        /\ state = "RELEASING_BLE" => Head(queue).type \notin ReleaseReports
        /\ state = "STOPPING_WEBRTC" => Head(queue).type \notin StopReports
    BY <2>1 DEF Ignored, Handled, PrepareReports, ReleaseReports, StopReports
  <2>4. state = "DISPATCHING_ALERT" /\ Head(queue).type \in AlertResults
          => Head(queue).ts # alertTs
    BY <2>1 DEF Ignored, Handled, Matches
  <2>5. ASSUME NEW T, Head(queue).type \notin T, Reported(T) PROVE Reported(T)'
    BY <2>2, <2>5 DEF Reported
  <2>6. CASE state = "DISPATCHING_ALERT"
    BY <2>1, <2>2, <2>4, <2>6 DEF ReportComes, AlertReported
  <2> QED BY <2>1, <2>3, <2>5, <2>6 DEF ReportComes
<1> QED BY <1>1, <1>2, <1>3, <1>5, <1>6, <1>7, <1>8, <1>9, <1>10 DEF OrchestratorStep

\* No step takes its report from a wait, as long as there is room in the queue
\* and every handle that has been used up is cleared.
LEMMA ReportKept ==
    ASSUME TypeOK, SessInv, ReportComes, Next, Len(queue) < QueueLen,
           "posted" \notin {prepare, release, rtcStop}
    PROVE  ReportComes'
<1>1. CASE PrepareStep \/ ReleaseStep \/ StopStep \/ TaskExit \/ DiscoveryStep \/ SmartStep
  BY <1>1, TasksReport, ReportingKeeps
     DEF PrepareStep, ReleaseStep, StopStep, DiscoveryStep, SmartStep
<1>2. ASSUME NEW ts \in alertTasks, AlertDone(ts) PROVE ReportComes'
  BY <1>2, AlertDoneReports, ReportingKeeps
<1>3. CASE Environment
  <2>1. CASE FatalReboot \/ KillSwitch \/ PowerCycle
    BY <2>1 DEF FatalReboot, KillSwitch, PowerCycle, Restart, ReportComes
  <2> QED BY <1>3, <2>1, EnvironmentReports, ReportingKeeps DEF Environment
<1> QED BY <1>1, <1>2, <1>3, OrchestratorReports DEF Next

\* A wait loses its report in two ways only: a task finds the queue full, or
\* it had posted but not yet cleared its handle when it was started again
\* (orchestrator_tasks.c:99).  Both happen.
THEOREM ReportLostOnlyTwoWays ==
    Spec => [][ReportComes => \/ ReportComes'
                              \/ Len(queue) = QueueLen
                              \/ "posted" \in {prepare, release, rtcStop}]_vars
<1>1. ASSUME TypeOK, SessInv, Next, ReportComes, Len(queue) # QueueLen,
             "posted" \notin {prepare, release, rtcStop}
      PROVE  ReportComes'
  <2>1. Len(queue) < QueueLen
    BY <1>1, QueueLenAssumption DEF TypeOK, Queue
  <2> QED BY <1>1, <2>1, ReportKept
<1>2. TypeOK /\ SessInv /\ [Next]_vars =>
        [ReportComes => \/ ReportComes'
                        \/ Len(queue) = QueueLen
                        \/ "posted" \in {prepare, release, rtcStop}]_vars
  BY <1>1
<1> QED BY SessionInvariance, <1>2, PTL DEF Spec

\* With prompt tasks no handle is ever used up and still set.
PromptInv == prepare # "posted" /\ release # "posted" /\ rtcStop # "posted"

\* A handle is left set only by a task that posts, if that is not prompt.
LEMMA PromptKept ==
    ASSUME PromptClear, PromptInv, [Next]_vars
    PROVE  PromptInv'
<1>1. Posted = "none"
  BY DEF Posted
<1>2. CASE UNCHANGED <<prepare, release, rtcStop>>
  BY <1>2 DEF PromptInv
<1>3. CASE PrepareStep \/ ReleaseStep \/ StopStep \/ TaskExit
  BY <1>1, <1>3 DEF PromptInv, PrepareStep, PrepareClean, PrepareBoot, PrepareScan,
     PrepareBusy, ReleaseStep, ReleaseRun, ReleaseReport, StopStep, StopClose,
     StopTeardown, TaskExit
<1>4. CASE DiscoveryStep \/ SmartStep \/ \E ts \in alertTasks : AlertDone(ts)
  BY <1>2, <1>4 DEF DiscoveryStep, DiscoveryStart, DiscoveryStop, DiscoveryPost,
     SmartStep, SmartBegin, SmartVerdict, SmartOrphanEnds, SmartDiscovered, AlertDone,
     taskVars
<1>5. ASSUME NEW mode, Restart(mode) PROVE PromptInv'
  BY <1>5 DEF Restart, PromptInv
<1>6. CASE Environment
  BY <1>2, <1>5, <1>6 DEF Environment, LinkUp, LinkDown, MigrationTakesBit, RtcConnected,
     RtcDown, RtcSpoken, SessionFrame, RtcFatal, MuteButton, MuteRequest,
     IdleTimerExpires, MuteFrame, FatalReboot, KillSwitch, PowerCycle, taskVars
<1>7. CASE OrchestratorStep
  <2>1. ASSUME NEW task, task # "posted", NEW taskNext, NEW q, NEW f,
               StartTask(task, taskNext, q, f)
        PROVE  taskNext # "posted"
    BY <2>1 DEF StartTask
  <2>2. CASE WifiReady \/ ValidatingRejected \/ ValidatingBusy \/ SessionLost
    BY <2>1, <2>2 DEF WifiReady, ValidatingRejected, ValidatingBusy, SessionLost,
       PromptInv
  <2>3. ASSUME NEW q, EnterWaitWifi(q) \/ EnterSleep(q) PROVE PromptInv'
    BY <1>2, <1>5, <2>3 DEF EnterWaitWifi, EnterSleep, taskVars
  <2>4. CASE \/ WifiLost \/ PreparingBusy \/ ReleasingFailed \/ ReleasingComplete
             \/ StoppingStopped \/ IgniteRecover
    BY <1>2, <2>3, <2>4 DEF WifiLost, PreparingBusy, ReleasingFailed,
       ReleasingComplete, EnterDispatching, StoppingStopped, IgniteRecover, taskVars
  <2>5. CASE ActiveAutoSleep \/ ActiveVigilanteOver
    BY <1>5, <2>5 DEF ActiveAutoSleep, ActiveVigilanteOver
  <2>6. CASE \/ PreparingReady \/ ValidatingPresent \/ ValidatingDiscovered \/ AlertOver
             \/ IgnitingConnected \/ FatalError \/ Ignore \/ ActiveIdle
             \/ ActiveMute(TRUE) \/ ActiveMute(FALSE)
    BY <1>2, <2>6 DEF PreparingReady, ValidatingPresent, ValidatingDiscovered,
       AlertOver, IgnitingConnected, FatalError, Ignore, ActiveIdle, ActiveMute,
       SetMute, taskVars
  <2>7. CASE \/ WaitWifiTeardown \/ WaitWifiClearBits \/ SleepRelease \/ IgniteAudio
             \/ IgniteStart
    BY <1>2, <2>7 DEF WaitWifiTeardown, WaitWifiClearBits, SleepRelease, IgniteAudio,
       IgniteStart, taskVars
  <2> QED BY <1>7, <2>2, <2>4, <2>5, <2>6, <2>7 DEF OrchestratorStep
<1> QED BY <1>2, <1>3, <1>4, <1>6, <1>7 DEF Next, vars, taskVars

\* With prompt tasks and a queue that never fills up, every state that waits
\* for a report has it coming, through every fault of a task, every loss of
\* Wi-Fi and every restart: the safety core of WaitsEnd.
THEOREM ReportAlwaysComes ==
    PromptClear /\ Spec /\ [](Len(queue) < QueueLen) => []ReportComes
<1>1. Init => ReportComes /\ PromptInv
  BY DEF Init, ReportComes, PromptInv
<1>2. ASSUME PromptClear, PromptInv, TypeOK, SessInv, ReportComes, [Next]_vars,
             Len(queue) < QueueLen
      PROVE  ReportComes'
  <2>1. CASE UNCHANGED vars
    <3>1. ReportComes <=> ReportComes'
      BY <2>1 DEF vars, alertVars, taskVars, ReportComes, Reported, AlertReported
    <3> QED BY <1>2, <3>1
  <2> QED BY <1>2, <2>1, ReportKept DEF PromptInv
<1>3. PromptClear /\ PromptInv /\ [Next]_vars => PromptInv'
  BY PromptKept
<1>4. PromptClear /\ PromptInv /\ TypeOK /\ SessInv /\ ReportComes /\ [Next]_vars
        /\ Len(queue) < QueueLen => ReportComes'
  BY <1>2
<1>5. CASE PromptClear
  <2>1. PromptInv /\ [Next]_vars => PromptInv'
    BY <1>3, <1>5
  <2>2. PromptInv /\ TypeOK /\ SessInv /\ ReportComes /\ [Next]_vars
          /\ Len(queue) < QueueLen => ReportComes'
    BY <1>4, <1>5
  <2> QED BY <1>1, <2>1, <2>2, SessionInvariance, PTL DEF Spec
<1> QED BY <1>5

----------------------------------------------------------------------------
(* The session that an event is about *)

\* Events of a type in T stand in the first n places only.
Within(q, T, n) == \A i \in 1..Len(q) : q[i].type \in T => i <= n

\* The queue can still hold events of the previous session when the
\* orchestrator goes for the next one.  A receive is needed for each state on
\* the way, so what stands further ahead than that is gone before it ignites.
PlaceInv ==
    /\ state = "PREPARING_BLE" => Within(queue, News, 2)
    /\ state = "VALIDATING_IDENTITY" => Within(queue, News, 1)
    /\ state \in {"RELEASING_BLE", "DISPATCHING_ALERT"} => Within(queue, News, 0)
    /\ pc \in {"audio", "start"} => Within(queue, News, 0) /\ rtc = "closed"

\* A session that has not been lost, or not been established, has not said so.
FreshInv ==
    /\ rtc \in {"starting", "up", "spoken"} => Within(queue, {"WEBRTC_DISCONNECTED"}, 0)
    /\ rtc = "starting" => Within(queue, {"WEBRTC_CONNECTED"}, 0)

\* The session runs in the mode that the orchestrator believes it does, and in
\* a friendly one nobody asks for the end of the guard.
GuardInv ==
    /\ pc \in {"audio", "start"} => ignitionMode = activeMode
    /\ state \in {"IGNITING", "ACTIVE"} /\ rtc # "closed" => rtcMode = activeMode
    /\ state \in {"IGNITING", "ACTIVE"} /\ activeMode = "friendly" =>
           Within(queue, {"VIGILANTE_TIMEOUT"}, 0)

NewsInv == PlaceInv /\ FreshInv /\ GuardInv

\* The step receives at most the head and adds at most one event, not of a
\* session.
Moves == \/ Adds(queue, Common)
         \/ queue # <<>> /\ Adds(Tail(queue), Common)

\* A post puts its event behind the others.
LEMMA WithinEnqueue ==
    ASSUME NEW q \in Queue, NEW e \in Event, NEW T, NEW n \in Nat, e.type \notin T,
           Within(q, T, n)
    PROVE  Within(Enqueue(q, e), T, n)
<1>1. q \in Seq(Event) /\ Len(q) \in Nat
  BY DEF Queue
<1>2. /\ Len(Append(q, e)) = Len(q) + 1 /\ Append(q, e)[Len(q) + 1] = e
      /\ \A i \in 1..Len(q) : Append(q, e)[i] = q[i]
  BY <1>1
<1>3. \A i \in 1..Len(q) + 1 : i \in 1..Len(q) \/ i = Len(q) + 1
  BY <1>1
<1> QED BY <1>2, <1>3 DEF Enqueue, Within

\* A receive moves every event one place ahead.
LEMMA WithinTail ==
    ASSUME NEW q \in Queue, q # <<>>, NEW T, NEW n \in Nat
    PROVE  /\ Within(q, T, n) => Within(Tail(q), T, n)
           /\ Within(q, T, n + 1) => Within(Tail(q), T, n)
<1>1. q \in Seq(Event) /\ Len(q) \in Nat
  BY DEF Queue
<1>2. /\ Len(Tail(q)) = Len(q) - 1
      /\ \A i \in 1..Len(Tail(q)) : Tail(q)[i] = q[i + 1] /\ i + 1 \in 1..Len(q)
  BY <1>1
<1>3. ASSUME NEW i \in 1..Len(Tail(q)), Tail(q)[i].type \in T
      PROVE  /\ Within(q, T, n) => i <= n
             /\ Within(q, T, n + 1) => i <= n
  <2>1. i \in Nat /\ q[i + 1].type \in T /\ i + 1 \in 1..Len(q)
    BY <1>1, <1>2, <1>3
  <2>2. Within(q, T, n) => i + 1 <= n
    BY <2>1 DEF Within
  <2>3. Within(q, T, n + 1) => i + 1 <= n + 1
    BY <2>1 DEF Within
  <2> QED BY <2>1, <2>2, <2>3
<1> QED BY <1>3 DEF Within

\* The same for a step that adds an event not of T.
LEMMA AddsWithin ==
    ASSUME NEW q \in Queue, NEW T, T \cap Common = {}, NEW n \in Nat, Adds(q, Common),
           Within(q, T, n)
    PROVE  Within(queue', T, n)
  BY WithinEnqueue DEF Adds

\* No step that moves the queue brings an event of T closer to its end.
LEMMA MovesWithin ==
    ASSUME TypeOK, NEW T, T \cap Common = {}, NEW n \in Nat, Moves, Within(queue, T, n)
    PROVE  Within(queue', T, n)
  BY AddsWithin, WithinTail, TailQueue DEF Moves, TypeOK

\* A receive brings every event that is left one place ahead.
LEMMA TakesWithin ==
    ASSUME TypeOK, queue # <<>>, NEW n \in Nat, Adds(Tail(queue), Common),
           Within(queue, News, n + 1)
    PROVE  Within(queue', News, n)
<1>1. News \cap Common = {}
  BY DEF Common
<1> QED BY <1>1, AddsWithin, WithinTail, TailQueue DEF TypeOK

\* Kinds of news are news.
LEMMA NewsKinds ==
    /\ News \cap Common = {}
    /\ {"WEBRTC_DISCONNECTED"} \cap Common = {}
    /\ {"WEBRTC_CONNECTED"} \cap Common = {}
    /\ {"VIGILANTE_TIMEOUT"} \cap Common = {}
    /\ \A q : Within(q, News, 0) => /\ Within(q, {"WEBRTC_DISCONNECTED"}, 0)
                                    /\ Within(q, {"WEBRTC_CONNECTED"}, 0)
                                    /\ Within(q, {"VIGILANTE_TIMEOUT"}, 0)
  BY DEF News, Common, Within

\* The session stays as it is, or is closed.
Sinks == UNCHANGED <<rtc, rtcMode>> \/ rtc' = "closed"

\* The news of a session stay true as long as it does not speak.
LEMMA FreshKept == ASSUME TypeOK, FreshInv, Moves, Sinks PROVE FreshInv'
  BY MovesWithin, NewsKinds DEF FreshInv, Sinks

\* A step that leaves the orchestrator where it is.
Stays == /\ UNCHANGED <<state, pc, activeMode>>
         /\ UNCHANGED ignitionMode \/ pc = "loop"
         /\ Sinks /\ Moves

\* It brings no event of a session closer to the next one, nor makes one stale.
LEMMA StaysKeeps == ASSUME TypeOK, NewsInv, Stays PROVE NewsInv'
<1>1. PlaceInv'
  BY MovesWithin, NewsKinds DEF NewsInv, PlaceInv, Stays, Sinks
<1>2. GuardInv'
  BY MovesWithin, NewsKinds DEF NewsInv, GuardInv, Stays, Sinks
<1> QED BY <1>1, <1>2, FreshKept DEF NewsInv, Stays

\* A step to a state from which no session ignites without a receive.
Rests == /\ state' \in {"WAIT_WIFI", "SLEEP", "STOPPING_WEBRTC", "FATAL_ERROR"}
         /\ pc' \notin {"audio", "start"}
         /\ Sinks /\ Moves

\* There only the session itself can make its news stale.
LEMMA RestsKeeps == ASSUME TypeOK, NewsInv, Rests PROVE NewsInv'
<1>1. PlaceInv' /\ GuardInv'
  BY DEF Rests, PlaceInv, GuardInv
<1> QED BY <1>1, FreshKept DEF NewsInv, Rests

\* After a restart the queue is empty.
LEMMA RestartNews == ASSUME NEW mode, Restart(mode) PROVE NewsInv'
  BY DEF Restart, NewsInv, PlaceInv, FreshInv, GuardInv, Within

\* What the handlers start posts at most a failure.
LEMMA StartTaskAdds ==
    ASSUME NEW task, NEW taskNext, NEW q, NEW failure \in Common,
           StartTask(task, taskNext, q, failure)
    PROVE  Adds(q, Common)
<1>1. queue' = q \/ queue' = Enqueue(q, Ev(failure))
  BY DEF StartTask
<1> QED BY <1>1, PostAdds DEF Adds

\* So does the start of an identity validation ...
LEMMA StartValidationAdds == ASSUME NEW q, StartValidation(q) PROVE Adds(q, Common)
<1>1. queue' = q \/ queue' = Enqueue(q, Ev("BLE_BUSY"))
  BY DEF StartValidation
<1> QED BY <1>1, PostAdds, CommonNames DEF Adds

\* ... and that of an alert.
LEMMA StartAlertAdds == ASSUME TypeOK, NEW q, StartAlert(q) PROVE Adds(q, Common)
<1> DEFINE e == [type |-> "ALERT_DISPATCH_FAILED", ts |-> alertTs]
<1>1. e \in Event /\ e.type \in Common
  BY DEF TypeOK, ValueTypes, Event, EventTypes, AlertResults, Common, News
<1>2. queue' = q \/ queue' = Enqueue(q, e)
  BY DEF StartAlert
<1> QED BY <1>1, <1>2 DEF Adds

\* A receive that posts nothing.
LEMMA TailMoves == ASSUME queue # <<>>, queue' = Tail(queue)
                   PROVE  Moves /\ Adds(Tail(queue), Common)
  BY DEF Moves, Adds

\* WAIT_WIFI and SLEEP, from wherever they are entered.
LEMMA EnterKeepsNews ==
    ASSUME TypeOK, NewsInv, NEW q, q = queue \/ (queue # <<>> /\ q = Tail(queue)),
           EnterWaitWifi(q) \/ EnterSleep(q)
    PROVE  NewsInv'
<1>1. CASE Restart("centinela")
  BY <1>1, RestartNews
<1>2. CASE ~Restart("centinela")
  <2>1. Rests
    BY <1>2 DEF EnterWaitWifi, EnterSleep, rtcVars, Rests, Sinks, Moves, Adds
  <2> QED BY <2>1, RestsKeeps
<1> QED BY <1>1, <1>2

\* The ways back, the end of the session, and the entries of quiet states.
LEMMA RestingNews ==
    ASSUME TypeOK, SessInv, NewsInv,
           \/ WifiLost \/ PreparingBusy \/ ReleasingFailed \/ StoppingStopped
           \/ IgniteRecover \/ ActiveAutoSleep \/ ActiveVigilanteOver \/ SessionLost
           \/ FatalError \/ WaitWifiTeardown \/ WaitWifiClearBits \/ SleepRelease
    PROVE  NewsInv'
<1>1. CASE WifiLost \/ PreparingBusy \/ ReleasingFailed \/ StoppingStopped \/ IgniteRecover
  BY <1>1, EnterKeepsNews DEF WifiLost, PreparingBusy, ReleasingFailed, StoppingStopped,
     IgniteRecover, Receive
<1>2. CASE ActiveAutoSleep \/ ActiveVigilanteOver
  BY <1>2, RestartNews DEF ActiveAutoSleep, ActiveVigilanteOver
<1>3. CASE SessionLost
  <2>1. Adds(Tail(queue), Common)
    BY <1>3, StartTaskAdds, CommonNames DEF SessionLost
  <2>2. Rests
    BY <1>3, <2>1 DEF SessionLost, Receive, rtcVars, Rests, Sinks, Moves
  <2> QED BY <2>2, RestsKeeps
<1>4. CASE FatalError
  <2>1. Rests
    BY <1>4, TailMoves DEF FatalError, Receive, Rests, Sinks
  <2> QED BY <2>1, RestsKeeps
<1>5. CASE WaitWifiTeardown \/ SleepRelease
  <2>1. Adds(queue, Common)
    BY <1>5, StopSmartAdds DEF WaitWifiTeardown, SleepRelease, FullRelease
  <2>2. Rests
    BY <1>5, <2>1 DEF WaitWifiTeardown, SleepRelease, rtcVars, SessInv, BlockInv, Rests,
       Sinks, Moves
  <2> QED BY <2>2, RestsKeeps
<1>6. CASE WaitWifiClearBits
  <2>1. Rests
    BY <1>6 DEF WaitWifiClearBits, rtcVars, SessInv, BlockInv, Rests, Sinks, Moves, Adds
  <2> QED BY <2>1, RestsKeeps
<1> QED BY <1>1, <1>2, <1>3, <1>4, <1>5, <1>6

\* Handlers that leave the orchestrator in its state, and ignored events.
LEMMA StayingNews ==
    ASSUME TypeOK, NewsInv,
           \/ ValidatingPresent \/ Ignore
           \/ ActiveMute(TRUE) \/ ActiveMute(FALSE) \/ ActiveIdle
    PROVE  NewsInv'
<1>1. CASE ValidatingPresent
  <2>1. Adds(Tail(queue), Common)
    BY <1>1, StartTaskAdds, CommonNames DEF ValidatingPresent
  <2>2. Stays
    BY <1>1, <2>1 DEF ValidatingPresent, Receive, rtcVars, Stays, Sinks, Moves
  <2> QED BY <2>2, StaysKeeps
<1>2. CASE Ignore
  <2>1. Stays
    BY <1>2, TailMoves DEF Ignore, rtcVars, modeVars, Stays, Sinks
  <2> QED BY <2>1, StaysKeeps
<1>3. CASE ActiveMute(TRUE) \/ ActiveMute(FALSE)
  <2>1. Stays
    BY <1>3, TailMoves DEF ActiveMute, SetMute, Receive, rtcVars, modeVars, Stays, Sinks
  <2> QED BY <2>1, StaysKeeps
<1>4. CASE ActiveIdle
  <2>1. Stays
    BY <1>4 DEF ActiveIdle, SetMute, rtcVars, modeVars, Stays, Sinks, Moves, Adds
  <2> QED BY <2>1, StaysKeeps
<1> QED BY <1>1, <1>2, <1>3, <1>4

\* On the way to the next session every receive takes one place from what is
\* left of the previous one; three are enough.
LEMMA AdvancingNews ==
    ASSUME TypeOK, SessInv, NewsInv, Len(queue) <= 3,
           \/ WifiReady \/ PreparingReady \/ ValidatingRejected \/ ValidatingBusy
    PROVE  NewsInv'
<1>1. queue # <<>> /\ pc = "loop" /\ UNCHANGED <<pc, rtc, rtcMode>>
  BY DEF WifiReady, PreparingReady, ValidatingRejected, ValidatingBusy, Receive, rtcVars
<1>2. Adds(Tail(queue), Common)
  BY StartTaskAdds, StartValidationAdds, CommonNames
     DEF WifiReady, PreparingReady, ValidatingRejected, ValidatingBusy
<1>3. FreshInv'
  BY <1>1, <1>2, FreshKept DEF NewsInv, Moves, Sinks
<1>4. CASE WifiReady
  <2>1. Within(queue, News, 3)
    BY DEF Within, TypeOK, Queue
  <2>2. Within(queue', News, 2)
    BY <1>1, <1>2, <2>1, TakesWithin
  <2> QED BY <1>1, <1>3, <1>4, <2>2 DEF WifiReady, NewsInv, PlaceInv, GuardInv
<1>5. CASE PreparingReady
  <2>1. Within(queue', News, 1)
    BY <1>1, <1>2, <1>5, TakesWithin DEF PreparingReady, NewsInv, PlaceInv
  <2> QED BY <1>1, <1>3, <1>5, <2>1 DEF PreparingReady, NewsInv, PlaceInv, GuardInv
<1>6. CASE ValidatingRejected \/ ValidatingBusy
  <2>1. Within(queue', News, 0)
    BY <1>1, <1>2, <1>6, TakesWithin
       DEF ValidatingRejected, ValidatingBusy, NewsInv, PlaceInv
  <2> QED BY <1>1, <1>3, <1>6, <2>1
          DEF ValidatingRejected, ValidatingBusy, NewsInv, PlaceInv, GuardInv
<1> QED BY <1>4, <1>5, <1>6

\* Ignition begins with nothing left of the previous session.
LEMMA IgnitingNews ==
    ASSUME TypeOK, NEW mode, queue # <<>>, EnterIgniting(mode), UNCHANGED <<rtc, rtcMode>>,
           rtc = "closed", ignitionMode' = mode,
           queue' = Tail(queue), Within(queue, News, 1) \/ Within(queue, News, 0)
    PROVE  NewsInv'
<1>1. Within(queue, News, 0 + 1)
  BY DEF Within
<1>2. Within(queue', News, 0)
  BY <1>1, TailMoves, TakesWithin
<1> QED BY <1>2, NewsKinds DEF EnterIgniting, NewsInv, PlaceInv, FreshInv, GuardInv

\* BLE has been released: sleep, the alert, or (dead code) the session.
LEMMA ReleasingNews ==
    ASSUME TypeOK, SessInv, NewsInv, ReleasingComplete
    PROVE  NewsInv'
<1>1. queue # <<>> /\ pc = "loop" /\ Within(queue, News, 0) /\ rtc = "closed"
  BY DEF ReleasingComplete, Receive, NewsInv, PlaceInv, SessInv, OpenInv, Lingering
<1>2. CASE EnterSleep(Tail(queue))
  BY <1>1, <1>2, EnterKeepsNews
<1>3. CASE EnterDispatching(Tail(queue))
  <2>1. Adds(Tail(queue), Common)
    BY <1>3, StartAlertAdds DEF EnterDispatching
  <2>2. Within(queue', News, 0) /\ FreshInv'
    BY <1>1, <1>3, <2>1, MovesWithin, NewsKinds, FreshKept
       DEF Moves, Sinks, NewsInv, EnterDispatching, rtcVars
  <2> QED BY <1>1, <1>3, <2>2 DEF EnterDispatching, NewsInv, PlaceInv, GuardInv
<1>4. CASE ~releaseToSleep /\ ~alertPending
  BY <1>1, <1>4, IgnitingNews DEF ReleasingComplete, rtcVars
<1> QED BY <1>2, <1>3, <1>4 DEF ReleasingComplete

\* The session is opened, in the mode that was decided, with a clean queue.
LEMMA OpeningNews ==
    ASSUME TypeOK, SessInv, NewsInv,
           \/ ValidatingDiscovered \/ AlertOver \/ IgniteAudio \/ IgniteStart
           \/ IgnitingConnected
    PROVE  NewsInv'
<1>1. CASE ValidatingDiscovered
  BY <1>1, IgnitingNews DEF ValidatingDiscovered, Receive, rtcVars, NewsInv, PlaceInv,
     SessInv, OpenInv, Lingering
<1>2. CASE AlertOver
  BY <1>2, IgnitingNews DEF AlertOver, rtcVars, NewsInv, PlaceInv, SessInv, OpenInv,
     Lingering
<1>3. CASE IgniteAudio
  <2>1. CASE queue' = queue
    BY <1>3, <2>1 DEF IgniteAudio, modeVars, SessInv, BlockInv, NewsInv, PlaceInv,
       FreshInv, GuardInv
  <2>2. CASE Post("WEBRTC_DISCONNECTED") /\ pc' = "loop"
    <3>1. state = "IGNITING" /\ rtc = "closed" /\ Within(queue, {"VIGILANTE_TIMEOUT"}, 0)
      BY <1>3, NewsKinds DEF IgniteAudio, SessInv, BlockInv, NewsInv, PlaceInv
    <3>2. Ev("WEBRTC_DISCONNECTED") \in Event
          /\ Ev("WEBRTC_DISCONNECTED").type \notin {"VIGILANTE_TIMEOUT"}
      BY EventNames DEF Ev, Event
    <3>3. Within(queue', {"VIGILANTE_TIMEOUT"}, 0)
      BY <2>2, <3>1, <3>2, WithinEnqueue DEF Post, TypeOK
    <3> QED BY <1>3, <2>2, <3>1, <3>3 DEF IgniteAudio, modeVars, NewsInv, PlaceInv,
            FreshInv, GuardInv
  <2> QED BY <1>3, <2>1, <2>2 DEF IgniteAudio
<1>4. CASE IgniteStart
  <2>1. /\ state = "IGNITING" /\ rtc = "closed" /\ Within(queue, News, 0)
        /\ ignitionMode = activeMode
    BY <1>4 DEF IgniteStart, SessInv, BlockInv, NewsInv, PlaceInv, GuardInv
  <2>2. Adds(queue, Common)
    BY <1>4, StopSmartAdds DEF IgniteStart
  <2>3. Within(queue', News, 0)
    BY <2>1, <2>2, NewsKinds, MovesWithin DEF Moves
  <2> QED BY <1>4, <2>1, <2>3, NewsKinds DEF IgniteStart, NewsInv, PlaceInv, FreshInv,
          GuardInv
<1>5. CASE IgnitingConnected
  <2>1. FreshInv'
    BY <1>5, TailMoves, FreshKept DEF IgnitingConnected, Receive, rtcVars, Sinks, NewsInv
  <2>2. GuardInv'
    BY <1>5, TailMoves, MovesWithin, NewsKinds
       DEF IgnitingConnected, Receive, rtcVars, modeVars, NewsInv, GuardInv
  <2> QED BY <1>5, <2>1, <2>2 DEF IgnitingConnected, Receive, NewsInv, PlaceInv
<1> QED BY <1>1, <1>2, <1>3, <1>4, <1>5

\* An open session says what is true of it.
LEMMA SpeakingNews ==
    ASSUME TypeOK, SessInv, NewsInv, RtcConnected \/ RtcDown \/ RtcSpoken
    PROVE  NewsInv'
<1>1. /\ UNCHANGED <<state, pc, activeMode, ignitionMode, rtcMode>>
      /\ rtc # "closed" /\ Lingering
  BY DEF RtcConnected, RtcDown, RtcSpoken, SessionFrame, orchVars, modeVars, SessInv,
     OpenInv
<1>2. PlaceInv'
  BY <1>1 DEF Lingering, NewsInv, PlaceInv
<1>3. ASSUME NEW t \in News, Post(t), NEW T, t \notin T, Within(queue, T, 0)
      PROVE  Within(queue', T, 0)
  <2>1. Ev(t) \in Event /\ Ev(t).type \notin T
    BY <1>3 DEF Ev, Event, News, EventTypes
  <2> QED BY <1>3, <2>1, WithinEnqueue DEF Post, TypeOK
<1>4. CASE RtcConnected
  BY <1>1, <1>2, <1>3, <1>4 DEF RtcConnected, News, NewsInv, PlaceInv, FreshInv, GuardInv
<1>5. CASE RtcDown
  BY <1>1, <1>2, <1>3, <1>5 DEF RtcDown, News, NewsInv, PlaceInv, FreshInv, GuardInv
<1>6. CASE RtcSpoken
  BY <1>1, <1>2, <1>3, <1>6 DEF RtcSpoken, News, NewsInv, PlaceInv, FreshInv, GuardInv
<1> QED BY <1>4, <1>5, <1>6

\* Every step, as long as at most three events wait.
LEMMA StepNews ==
    ASSUME TypeOK, SessInv, NewsInv, Len(queue) <= 3, [Next]_vars
    PROVE  NewsInv'
<1>1. CASE OrchestratorStep
  BY <1>1, RestingNews, StayingNews, AdvancingNews, ReleasingNews, OpeningNews
     DEF OrchestratorStep
<1>2. ASSUME Beside PROVE NewsInv'
  <2>1. Stays
    BY <1>2 DEF Beside, Stays, Sinks, Moves
  <2> QED BY <2>1, StaysKeeps
<1>3. CASE PrepareStep \/ ReleaseStep \/ StopStep \/ TaskExit \/ DiscoveryStep \/ SmartStep
  BY <1>2, <1>3, TasksBeside DEF PrepareStep, ReleaseStep, StopStep, DiscoveryStep, SmartStep
<1>4. ASSUME NEW ts \in alertTasks, AlertDone(ts) PROVE NewsInv'
  BY <1>2, <1>4, AlertDoneBeside
<1>5. CASE Environment
  <2>1. CASE FatalReboot \/ KillSwitch \/ PowerCycle
    BY <2>1, RestartNews DEF FatalReboot, KillSwitch, PowerCycle
  <2> QED BY <1>2, <1>5, <2>1, EnvironmentBeside, SpeakingNews DEF Environment
<1>6. CASE UNCHANGED vars
  <2>1. Stays
    BY <1>6 DEF vars, rtcVars, modeVars, Stays, Sinks, Moves, Adds
  <2> QED BY <2>1, StaysKeeps
<1> QED BY <1>1, <1>3, <1>4, <1>5, <1>6 DEF Next

\* An event that starts, ends or condemns a session is about the session that
\* is open now, for every depth of the queue and however many sessions, losses
\* of Wi-Fi and restarts, as long as at most three events wait.  Three is the
\* most: with four in the queue WEBRTC_CONNECTED of one session can stay until
\* the next one ignites.
THEOREM EventsWithShortBacklog ==
    Spec /\ [](Len(queue) <= 3) => []EventsOfThisSession
<1>1. Init => NewsInv
  BY DEF Init, NewsInv, PlaceInv, FreshInv, GuardInv, Within
<1>2. TypeOK /\ SessInv /\ NewsInv /\ Len(queue) <= 3 /\ [Next]_vars => NewsInv'
  BY StepNews
<1>3. TypeOK /\ NewsInv => EventsOfThisSession
  <2>1. SUFFICES ASSUME TypeOK, NewsInv, pc = "loop", queue # <<>>
                 PROVE  EventsOfThisSession
    BY DEF EventsOfThisSession
  <2>2. queue \in Seq(Event) /\ 1 \in 1..Len(queue) /\ Head(queue) = queue[1] /\ ~(1 <= 0)
    BY <2>1 DEF TypeOK, Queue
  <2>3. ASSUME NEW t, Within(queue, {t}, 0) PROVE Head(queue).type # t
    BY <2>2, <2>3 DEF Within
  <2>4. activeMode # "vigilante" => activeMode = "friendly"
    BY <2>1 DEF TypeOK, ValueTypes, Modes
  <2> QED BY <2>1, <2>3, <2>4 DEF NewsInv, FreshInv, GuardInv, EventsOfThisSession
<1> QED BY <1>1, <1>2, <1>3, SessionInvariance, PTL DEF Spec

==============================================================================
