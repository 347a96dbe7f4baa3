---------------------------- MODULE Orchestrator ----------------------------
(***************************************************************************)
(* The "Camila" session orchestrator: the state machine of                 *)
(* core/orchestrator_fsm.c, its event queue and statics                    *)
(* (orchestrator_helpers.c), the short-lived tasks that feed it            *)
(* (orchestrator_tasks.c) and the producers of its events: the network     *)
(* callback of main.c, the BLE smart task of ble_device_control.c, the     *)
(* WebRTC session of webrtc.c, the mute handler and the kill switch.       *)
(*                                                                         *)
(* One action is one uninterrupted stretch of one task.  An entry action   *)
(* that blocks (stop_webrtc, ble_device_full_release, start_webrtc) is     *)
(* split where it blocks: `state` already holds the new state, as          *)
(* fsm.c:91 assigns it first, while `pc` says how far the entry got and    *)
(* no event is received.                                                   *)
(*                                                                         *)
(* Left out: the LCD, logging, heap snapshots, CSI sensing (csi_handler is *)
(* a stub and nothing feeds ei_inference, so MOTION_DETECTED and           *)
(* ROOM_VACATED are never posted), and with them the states                *)
(* TEARING_DOWN_UI_FOR_SCAN and AUTO_ARM_BLE_SCANNING, which only a flag   *)
(* that nobody sets (s_teardown_ui_pending) would reach.                   *)
(***************************************************************************)
EXTENDS Naturals, Sequences, FiniteSets

CONSTANTS
    QueueLen,     \* depth of s_orchestrator_event_queue (8 in the code)
    MaxLosses,    \* bound: Wi-Fi losses per boot
    MaxPresses,   \* bound: mute requests (button, tool, Lua) per boot
    MaxFatals,    \* bound: fatal errors reported by signaling per boot
    PromptClear   \* TRUE: a task clears its handle before anyone else runs

ASSUME QueueLenAssumption == QueueLen \in Nat \ {0}
ASSUME BoundsAssumption   == {MaxLosses, MaxPresses, MaxFatals} \subseteq Nat
ASSUME PromptAssumption   == PromptClear \in BOOLEAN

VARIABLES
    state,          \* orchestrator_state_t state (fsm.c:402)
    pc,             \* "loop", or the blocking step of an entry action
    queue,          \* s_orchestrator_event_queue
    \* statics of orchestrator_helpers.c
    alertTs, alertPending, alertHandle,
    pendingMode, ignitionMode, activeMode, releaseToSleep,
    \* tasks of orchestrator_tasks.c
    prepare, release, rtcStop, discovery, discPosts, alertTasks, alertClock,
    \* BLE device control
    ble, smart,
    \* WebRTC, audio runtime, mute
    rtc, rtcMode, media, vigilanteMute, isMuted, micMuted, hwMute, idleTimer,
    \* Wi-Fi and event-group bit
    link, wifiBit,
    \* NVS boot mode, its RAM copy, the reboot timer of FATAL_ERROR
    nvsMode, bootMode, fatalTimer,
    \* bound counters and history
    losses, presses, fatals, owner, scanAborted

alertVars == <<alertTs, alertPending, alertHandle, alertTasks, alertClock>>
modeVars  == <<pendingMode, ignitionMode, activeMode, releaseToSleep>>
taskVars  == <<prepare, release, rtcStop, discovery, discPosts>>
bleVars   == <<ble, smart, scanAborted>>
rtcVars   == <<rtc, rtcMode, media>>
muteVars  == <<isMuted, micMuted, hwMute, idleTimer>>
linkVars  == <<link, wifiBit>>
bootVars  == <<nvsMode, bootMode, fatalTimer>>
envVars   == <<losses, presses, fatals>>

vars == <<state, pc, queue, alertVars, modeVars, taskVars, bleVars, rtcVars,
          vigilanteMute, muteVars, linkVars, bootVars, envVars, owner>>

----------------------------------------------------------------------------
(* Types *)

States == {"WAIT_WIFI", "SLEEP", "PREPARING_BLE", "VALIDATING_IDENTITY",
           "RELEASING_BLE", "DISPATCHING_ALERT", "IGNITING", "ACTIVE",
           "STOPPING_WEBRTC", "FATAL_ERROR"}

AlertResults == {"ALERT_DISPATCH_COMPLETE", "ALERT_DISPATCH_FAILED"}

EventTypes == AlertResults \cup
    {"WIFI_CONNECTED", "WIFI_DISCONNECTED", "BLE_READY", "BLE_BUSY",
     "IDENTITY_PRESENT", "IDENTITY_REJECTED", "DISCOVERY_COMPLETE",
     "BLE_RELEASE_COMPLETE", "BLE_RELEASE_FAILED", "WEBRTC_CONNECTED",
     "WEBRTC_DISCONNECTED", "WEBRTC_STOPPED", "AUTO_SLEEP_TIMEOUT",
     "VIGILANTE_TIMEOUT", "MIC_MUTED", "MIC_UNMUTED", "FATAL_ERROR"}

\* orchestrator_event_msg_t; ts is timestamp_ms, which only alerts carry.
\* Timestamps of different alerts differ: alertClock numbers them.
Event == [type : EventTypes, ts : Nat]

Ev(t) == [type |-> t, ts |-> 0]

\* The contents the queue can have.
Queue == {q \in Seq(Event) : Len(q) <= QueueLen}

Modes     == {"friendly", "vigilante"}
BootModes == {"directo", "centinela"}

----------------------------------------------------------------------------
(* Helpers *)

\* Definitions marked "mutant" are faults that the runs must notice: a
\* property is worth checking only if some plausible fault breaks it.

\* Mutant of Enqueue: one slot too many.
EnqueueOneTooMany(q, e) == IF Len(q) <= QueueLen THEN Append(q, e) ELSE q

\* xQueueSend with a timeout: an event that finds the queue full is dropped.
Enqueue(q, e) == IF Len(q) < QueueLen THEN Append(q, e) ELSE q

Pending(q) == {q[i] : i \in 1..Len(q)}

Post(t) == queue' = Enqueue(queue, Ev(t))

\* The orchestrator is back in xQueueReceive and takes an event of type t.
Receive(t) == /\ pc = "loop"
              /\ queue # <<>>
              /\ Head(queue).type = t

ResetAlertContext == /\ alertTs' = 0
                     /\ alertPending' = FALSE
                     /\ alertHandle' = FALSE
                     /\ pendingMode' = "friendly"
                     /\ UNCHANGED <<alertTasks, alertClock>>

ResetVigilanteContext == /\ activeMode' = "friendly"
                         /\ ignitionMode' = "friendly"

\* Power-on, with whatever boot mode NVS holds.
Init ==
    /\ nvsMode \in BootModes
    /\ state = "WAIT_WIFI" /\ pc = "loop" /\ queue = <<>>
    /\ alertTs = 0 /\ alertPending = FALSE /\ alertHandle = FALSE
    /\ alertTasks = {} /\ alertClock = 0
    /\ pendingMode = "friendly" /\ ignitionMode = "friendly"
    /\ activeMode = "friendly" /\ releaseToSleep = FALSE
    /\ prepare = "none" /\ release = "none" /\ rtcStop = "none"
    /\ discovery = "none" /\ discPosts = 0
    /\ ble = "off" /\ smart = "idle" /\ scanAborted = FALSE
    /\ rtc = "closed" /\ rtcMode = "friendly" /\ media = FALSE
    /\ vigilanteMute = FALSE
    /\ isMuted = FALSE /\ micMuted = FALSE /\ hwMute = FALSE /\ idleTimer = FALSE
    /\ link = FALSE /\ wifiBit = FALSE
    /\ bootMode = nvsMode /\ fatalTimer = FALSE
    /\ losses = 0 /\ presses = 0 /\ fatals = 0
    /\ owner = "never"

\* esp_restart(), a watchdog reset or a power cycle: only NVS survives.
Restart(mode) ==
    /\ nvsMode' = mode
    /\ state' = "WAIT_WIFI" /\ pc' = "loop" /\ queue' = <<>>
    /\ alertTs' = 0 /\ alertPending' = FALSE /\ alertHandle' = FALSE
    /\ alertTasks' = {} /\ alertClock' = 0
    /\ pendingMode' = "friendly" /\ ignitionMode' = "friendly"
    /\ activeMode' = "friendly" /\ releaseToSleep' = FALSE
    /\ prepare' = "none" /\ release' = "none" /\ rtcStop' = "none"
    /\ discovery' = "none" /\ discPosts' = 0
    /\ ble' = "off" /\ smart' = "idle" /\ scanAborted' = FALSE
    /\ rtc' = "closed" /\ rtcMode' = "friendly" /\ media' = FALSE
    /\ vigilanteMute' = FALSE
    /\ isMuted' = FALSE /\ micMuted' = FALSE /\ hwMute' = FALSE /\ idleTimer' = FALSE
    /\ link' = FALSE /\ wifiBit' = FALSE
    /\ bootMode' = mode /\ fatalTimer' = FALSE
    /\ losses' = 0 /\ presses' = 0 /\ fatals' = 0
    /\ owner' = "never"

\* orchestrator_start_*: nothing if the handle is set; a task; or, when
\* xTaskCreate fails, the failure event instead of the task.
StartTask(task, taskNext, q, failure) ==
    \/ task # "none" /\ taskNext = task      /\ queue' = q
    \/ task = "none" /\ taskNext = "running" /\ queue' = q
    \/ task = "none" /\ taskNext = "none"    /\ queue' = Enqueue(q, Ev(failure))

\* A task that posts its result still owns its handle until it clears it.
Posted == IF PromptClear THEN "none" ELSE "posted"

\* Mutant of StopSmart: only a discovery is stopped.
StopDiscoveryOnly(q) ==
    /\ smart' = IF smart = "discovering" THEN "idle" ELSE smart
    /\ queue' = q
    /\ UNCHANGED scanAborted

\* A validation that has started to scan always reports a verdict.
Verdict(q) == \/ queue' = Enqueue(q, Ev("IDENTITY_PRESENT"))
              \/ queue' = Enqueue(q, Ev("IDENTITY_REJECTED"))

\* ble_device_stop_smart_task on behalf of any task.  A validation that has
\* not begun ends silently; one that is scanning loses its scan and reports
\* what it has (REJECTED, unless the phone was just seen) now or, when the
\* 12 s wait for idle runs out, later ("orphan").
StopSmart(q) ==
    \/ /\ smart \in {"idle", "orphan"}
       /\ queue' = q
       /\ UNCHANGED <<smart, scanAborted>>
    \/ /\ smart \in {"signalled", "discovering"}
       /\ smart' = "idle"
       /\ queue' = q
       /\ UNCHANGED scanAborted
    \/ /\ smart = "validating"
       /\ scanAborted' = TRUE
       /\ \/ smart' = "idle"   /\ Verdict(q)
          \/ smart' = "orphan" /\ queue' = q

\* A validation gives up the central role when it ends (ble_common_release).
Disown == IF ble = "central" THEN "unowned" ELSE ble

BleAfterStop == ble' = IF smart = "validating" /\ smart' = "idle" THEN Disown
                                                                  ELSE ble

\* ble_device_full_release; it fails at least when the smart task hangs.
FullRelease(q) == StopSmart(q) /\ ble' = "off"

\* Mutant of TeardownMedia: the mute flag of the capture survives.
TeardownKeepsMute == media' = FALSE /\ UNCHANGED hwMute

\* media_sys_teardown
TeardownMedia == media' = FALSE /\ hwMute' = FALSE

----------------------------------------------------------------------------
(* Entry actions, orchestrator_enter_state *)

EnterWaitWifi(q) ==
    /\ state' = "WAIT_WIFI" /\ pc' = "wait_wifi" /\ queue' = q
    /\ ResetAlertContext
    /\ ResetVigilanteContext
    /\ releaseToSleep' = FALSE
    /\ isMuted' = FALSE
    /\ owner' = IF owner = "now" THEN "earlier" ELSE owner
    /\ UNCHANGED <<taskVars, bleVars, rtcVars, vigilanteMute, micMuted, hwMute,
                   idleTimer, linkVars, bootVars, envVars>>

\* Mutant of WaitWifiTeardown: the session is left open.
WaitWifiKeepsSession ==
    /\ pc = "wait_wifi" /\ pc' = "clear_bits"
    /\ StopSmart(queue) /\ ble' = "off"
    /\ UNCHANGED <<state, alertVars, modeVars, taskVars, rtcVars, vigilanteMute,
                   muteVars, linkVars, bootVars, envVars, owner>>

\* stop_webrtc, ble_device_stop_smart_task, ble_device_control_stop ...
WaitWifiTeardown ==
    /\ pc = "wait_wifi" /\ pc' = "clear_bits"
    /\ rtc' = "closed" /\ rtcMode' = "friendly" /\ TeardownMedia
    /\ StopSmart(queue) /\ ble' = "off"
    /\ UNCHANGED <<state, alertVars, modeVars, taskVars, vigilanteMute, isMuted,
                   micMuted, idleTimer, linkVars, bootVars, envVars, owner>>

\* ... and only then xEventGroupClearBits(WIFI_CONNECTED_BIT | ...).
WaitWifiClearBits ==
    /\ pc = "clear_bits" /\ pc' = "loop"
    /\ wifiBit' = FALSE
    /\ UNCHANGED <<state, queue, alertVars, modeVars, taskVars, bleVars, rtcVars,
                   vigilanteMute, muteVars, link, bootVars, envVars, owner>>

EnterSleep(q) ==
    \/ activeMode = "vigilante" /\ Restart("centinela")
    \/ /\ activeMode = "friendly"
       /\ state' = "SLEEP" /\ pc' = "sleep" /\ queue' = q
       /\ vigilanteMute' = FALSE
       /\ ResetAlertContext
       /\ ResetVigilanteContext
       /\ releaseToSleep' = FALSE
       /\ isMuted' = FALSE
       /\ UNCHANGED <<taskVars, bleVars, rtcVars, micMuted, hwMute, idleTimer,
                      linkVars, bootVars, envVars, owner>>

SleepRelease ==
    /\ pc = "sleep" /\ pc' = "loop"
    /\ FullRelease(queue)
    /\ UNCHANGED <<state, alertVars, modeVars, taskVars, rtcVars, vigilanteMute,
                   muteVars, linkVars, bootVars, envVars, owner>>

\* ble_device_start_identity_validation needs the central role and no
\* validation or discovery in progress; any error is reported as BLE_BUSY.
StartValidation(q) ==
    /\ scanAborted' = FALSE
    /\ \/ /\ ble = "central" /\ smart \in {"idle", "orphan"}
          /\ smart' = IF smart = "idle" THEN "signalled" ELSE smart
          /\ queue' = q
       \/ queue' = Enqueue(q, Ev("BLE_BUSY")) /\ UNCHANGED smart

\* orchestrator_start_alert_dispatch, and the failure posted by its caller.
StartAlert(q) ==
    \/ /\ alertPending /\ ~alertHandle
       /\ alertHandle' = TRUE /\ alertTasks' = alertTasks \cup {alertTs}
       /\ queue' = q
    \/ /\ queue' = Enqueue(q, [type |-> "ALERT_DISPATCH_FAILED", ts |-> alertTs])
       /\ UNCHANGED <<alertHandle, alertTasks>>

\* IGNITING until it blocks in the audio start.
EnterIgniting(mode) ==
    /\ state' = "IGNITING" /\ pc' = "audio"
    /\ isMuted' = FALSE
    /\ micMuted' = (micMuted /\ ~idleTimer) /\ idleTimer' = FALSE
    /\ activeMode' = mode
    /\ UNCHANGED hwMute

\* orchestrator_ensure_audio_runtime_ready
IgniteAudio ==
    /\ pc = "audio"
    /\ \/ pc' = "start" /\ media' = TRUE /\ UNCHANGED queue
       \/ pc' = "loop" /\ ~media /\ Post("WEBRTC_DISCONNECTED") /\ UNCHANGED media
    /\ UNCHANGED <<state, alertVars, modeVars, taskVars, bleVars, rtc, rtcMode,
                   vigilanteMute, muteVars, linkVars, bootVars, envVars, owner>>

\* ble_device_stop_smart_task and start_webrtc; it needs Wi-Fi and may fail
\* before or after it has closed the previous handle.
IgniteStart ==
    /\ pc = "start"
    /\ StopSmart(queue) /\ BleAfterStop
    /\ ignitionMode' = "friendly"
    /\ \/ link /\ rtc' = "starting" /\ rtcMode' = ignitionMode /\ pc' = "loop"
       \/ rtc' \in {rtc, "closed"} /\ rtcMode' = "friendly" /\ pc' = "recover"
    /\ UNCHANGED <<state, alertVars, pendingMode, activeMode, releaseToSleep,
                   taskVars, media, vigilanteMute, muteVars, linkVars, bootVars,
                   envVars, owner>>

\* 1.5 s later: sleep or wait for Wi-Fi, by the event-group bit.
IgniteRecover ==
    /\ pc = "recover"
    /\ IF wifiBit THEN EnterSleep(queue) ELSE EnterWaitWifi(queue)

----------------------------------------------------------------------------
(* Event handlers of app_startup_orchestrator_task *)

\* WIFI_DISCONNECTED, in every state but WAIT_WIFI and FATAL_ERROR.
WifiLost ==
    /\ state \notin {"WAIT_WIFI", "FATAL_ERROR"}
    /\ Receive("WIFI_DISCONNECTED")
    /\ EnterWaitWifi(Tail(queue))

WifiReady ==
    /\ state = "WAIT_WIFI" /\ Receive("WIFI_CONNECTED")
    /\ state' = "PREPARING_BLE"
    /\ StartTask(prepare, prepare', Tail(queue), "BLE_BUSY")
    /\ UNCHANGED <<pc, alertVars, modeVars, release, rtcStop, discovery, discPosts,
                   bleVars, rtcVars, vigilanteMute, muteVars, linkVars, bootVars,
                   envVars, owner>>

PreparingReady ==
    /\ state = "PREPARING_BLE" /\ Receive("BLE_READY")
    /\ state' = "VALIDATING_IDENTITY"
    /\ StartValidation(Tail(queue))
    /\ UNCHANGED <<pc, alertVars, modeVars, taskVars, ble, rtcVars, vigilanteMute,
                   muteVars, linkVars, bootVars, envVars, owner>>

PreparingBusy ==
    /\ state = "PREPARING_BLE" /\ Receive("BLE_BUSY")
    /\ EnterSleep(Tail(queue))

\* The owner is here: disarm, then look for devices before igniting.
ValidatingPresent ==
    /\ state = "VALIDATING_IDENTITY" /\ Receive("IDENTITY_PRESENT")
    /\ nvsMode'  = IF bootMode = "centinela" THEN "directo" ELSE nvsMode
    /\ bootMode' = "directo"
    /\ vigilanteMute' = FALSE
    /\ alertPending' = FALSE
    /\ pendingMode' = "friendly" /\ ignitionMode' = "friendly"
    /\ releaseToSleep' = FALSE
    /\ owner' = "now"
    /\ StartTask(discovery, discovery', Tail(queue), "DISCOVERY_COMPLETE")
    /\ UNCHANGED <<state, pc, alertTs, alertHandle, alertTasks, alertClock,
                   activeMode, prepare, release, rtcStop, discPosts, bleVars,
                   rtcVars, muteVars, linkVars, fatalTimer, envVars>>

ValidatingDiscovered ==
    /\ state = "VALIDATING_IDENTITY" /\ Receive("DISCOVERY_COMPLETE")
    /\ queue' = Tail(queue)
    /\ EnterIgniting(ignitionMode)
    /\ UNCHANGED <<alertVars, pendingMode, ignitionMode, releaseToSleep, taskVars,
                   bleVars, rtcVars, vigilanteMute, linkVars, bootVars, envVars,
                   owner>>

\* Nobody is here: raise the alert and go through BLE release to send it.
ValidatingRejected ==
    /\ state = "VALIDATING_IDENTITY" /\ Receive("IDENTITY_REJECTED")
    /\ IF alertTs = 0 THEN alertTs' = alertClock + 1 /\ alertClock' = alertClock + 1
                      ELSE UNCHANGED <<alertTs, alertClock>>
    /\ alertPending' = TRUE
    /\ pendingMode' = "vigilante"
    /\ releaseToSleep' = FALSE
    /\ vigilanteMute' = TRUE
    /\ state' = "RELEASING_BLE"
    /\ StartTask(release, release', Tail(queue), "BLE_RELEASE_FAILED")
    /\ UNCHANGED <<pc, alertHandle, alertTasks, ignitionMode, activeMode, prepare,
                   rtcStop, discovery, discPosts, bleVars, rtcVars, muteVars,
                   linkVars, bootVars, envVars, owner>>

\* Mutant of ValidatingBusy: the release forgets that it is for sleep.
ValidatingBusyNoPurpose ==
    /\ state = "VALIDATING_IDENTITY" /\ Receive("BLE_BUSY")
    /\ ResetAlertContext
    /\ state' = "RELEASING_BLE"
    /\ StartTask(release, release', Tail(queue), "BLE_RELEASE_FAILED")
    /\ UNCHANGED <<pc, ignitionMode, activeMode, releaseToSleep, prepare, rtcStop,
                   discovery, discPosts, bleVars, rtcVars, vigilanteMute, muteVars,
                   linkVars, bootVars, envVars, owner>>

\* The BLE stack, not the visitor, failed: sleep without an alert.
ValidatingBusy ==
    /\ state = "VALIDATING_IDENTITY" /\ Receive("BLE_BUSY")
    /\ ResetAlertContext
    /\ releaseToSleep' = TRUE
    /\ state' = "RELEASING_BLE"
    /\ StartTask(release, release', Tail(queue), "BLE_RELEASE_FAILED")
    /\ UNCHANGED <<pc, ignitionMode, activeMode, prepare, rtcStop, discovery,
                   discPosts, bleVars, rtcVars, vigilanteMute, muteVars, linkVars,
                   bootVars, envVars, owner>>

\* Mutant of ReleasingFailed: carry on to ignition.
ReleasingFailedIgnites ==
    /\ state = "RELEASING_BLE" /\ Receive("BLE_RELEASE_FAILED")
    /\ queue' = Tail(queue)
    /\ EnterIgniting(pendingMode)
    /\ UNCHANGED <<alertVars, pendingMode, ignitionMode, releaseToSleep, taskVars,
                   bleVars, rtcVars, vigilanteMute, linkVars, bootVars, envVars,
                   owner>>

ReleasingFailed ==
    /\ state = "RELEASING_BLE" /\ Receive("BLE_RELEASE_FAILED")
    /\ EnterSleep(Tail(queue))

EnterDispatching(q) ==
    /\ state' = "DISPATCHING_ALERT"
    /\ StartAlert(q)
    /\ UNCHANGED <<pc, alertTs, alertPending, alertClock, modeVars, taskVars,
                   bleVars, rtcVars, vigilanteMute, muteVars, linkVars, bootVars,
                   envVars, owner>>

\* The last branch is for a release that was neither for sleep nor for an
\* alert; ReleasePurpose says that the code never gets there.
ReleasingComplete ==
    /\ state = "RELEASING_BLE" /\ Receive("BLE_RELEASE_COMPLETE")
    /\ IF releaseToSleep THEN EnterSleep(Tail(queue))
       ELSE IF alertPending THEN EnterDispatching(Tail(queue))
       ELSE /\ queue' = Tail(queue)
            /\ ignitionMode' = pendingMode
            /\ EnterIgniting(pendingMode)
            /\ UNCHANGED <<alertVars, pendingMode, releaseToSleep, taskVars,
                           bleVars, rtcVars, vigilanteMute, linkVars, bootVars,
                           envVars, owner>>

\* Mutant of Matches: any alert result will do.
MatchesAny(e) == e.type \in AlertResults

\* orchestrator_alert_result_matches
Matches(e) == e.type \in AlertResults /\ e.ts = alertTs

AlertOver ==
    /\ state = "DISPATCHING_ALERT" /\ pc = "loop"
    /\ queue # <<>> /\ Matches(Head(queue))
    /\ queue' = Tail(queue)
    /\ ignitionMode' = pendingMode
    /\ ResetAlertContext
    /\ EnterIgniting(pendingMode)
    /\ UNCHANGED <<releaseToSleep, taskVars, bleVars, rtcVars, vigilanteMute,
                   linkVars, bootVars, envVars, owner>>

\* Mutant of IgnitingConnected: the microphone is opened on connection.
ConnectedUnsilenced ==
    /\ state = "IGNITING" /\ Receive("WEBRTC_CONNECTED")
    /\ state' = "ACTIVE"
    /\ queue' = Tail(queue)
    /\ vigilanteMute' = FALSE
    /\ UNCHANGED <<pc, alertVars, modeVars, taskVars, bleVars, rtcVars, muteVars,
                   linkVars, bootVars, envVars, owner>>

IgnitingConnected ==
    /\ state = "IGNITING" /\ Receive("WEBRTC_CONNECTED")
    /\ state' = "ACTIVE"
    /\ queue' = Tail(queue)
    /\ UNCHANGED <<pc, alertVars, modeVars, taskVars, bleVars, rtcVars,
                   vigilanteMute, muteVars, linkVars, bootVars, envVars, owner>>

\* AUTO_SLEEPING is entered and left within the same handler.
SessionLost ==
    /\ state \in {"IGNITING", "ACTIVE"} /\ Receive("WEBRTC_DISCONNECTED")
    /\ state' = "STOPPING_WEBRTC"
    /\ vigilanteMute' = FALSE
    /\ StartTask(rtcStop, rtcStop', Tail(queue), "WEBRTC_STOPPED")
    /\ UNCHANGED <<pc, alertVars, modeVars, prepare, release, discovery, discPosts,
                   bleVars, rtcVars, muteVars, linkVars, bootVars, envVars, owner>>

StoppingStopped ==
    /\ state = "STOPPING_WEBRTC" /\ Receive("WEBRTC_STOPPED")
    /\ EnterSleep(Tail(queue))

\* Mutant of SetMute: no timer for a mute the button already knows of.
SetMuteNoTimer(mute) ==
    /\ isMuted' = mute
    /\ micMuted' = mute
    /\ hwMute' = IF media THEN mute ELSE hwMute
    /\ idleTimer' = (mute /\ ~micMuted)
    /\ UNCHANGED <<state, pc, alertVars, modeVars, taskVars, bleVars, rtcVars,
                   vigilanteMute, linkVars, bootVars, envVars, owner>>

\* media_sys_mic_mute and the mute handler's bookkeeping for one request.
SetMute(mute) ==
    /\ isMuted' = mute
    /\ micMuted' = mute
    /\ hwMute' = IF media THEN mute ELSE hwMute
    /\ idleTimer' = mute
    /\ UNCHANGED <<state, pc, alertVars, modeVars, taskVars, bleVars, rtcVars,
                   vigilanteMute, linkVars, bootVars, envVars, owner>>

ActiveMute(mute) ==
    /\ state = "ACTIVE"
    /\ Receive(IF mute THEN "MIC_MUTED" ELSE "MIC_UNMUTED")
    /\ queue' = Tail(queue)
    /\ SetMute(mute)

\* The receive timed out and the session has been idle for three minutes.
ActiveIdle ==
    /\ state = "ACTIVE" /\ pc = "loop" /\ queue = <<>>
    /\ activeMode = "friendly" /\ ~isMuted
    /\ UNCHANGED queue
    /\ SetMute(TRUE)

ActiveAutoSleep ==
    /\ state = "ACTIVE" /\ Receive("AUTO_SLEEP_TIMEOUT")
    /\ activeMode = "friendly"
    /\ Restart(nvsMode)

\* VIGILANTE_TIMEOUT from the session, or from the monitor's hard timeout.
ActiveVigilanteOver ==
    /\ state = "ACTIVE"
    /\ \/ Receive("VIGILANTE_TIMEOUT")
       \/ pc = "loop" /\ queue = <<>> /\ activeMode = "vigilante"
    /\ Restart("centinela")

\* From any state: total isolation until the 15-minute timer reboots.
FatalError ==
    /\ Receive("FATAL_ERROR")
    /\ state' = "FATAL_ERROR"
    /\ queue' = Tail(queue)
    /\ TeardownMedia
    /\ fatalTimer' = TRUE
    /\ UNCHANGED <<pc, alertVars, modeVars, taskVars, bleVars, rtc, rtcMode,
                   vigilanteMute, isMuted, micMuted, idleTimer, linkVars, nvsMode,
                   bootMode, envVars, owner>>

Handled ==
    [WAIT_WIFI           |-> {"WIFI_CONNECTED"},
     SLEEP               |-> {"WIFI_DISCONNECTED"},
     PREPARING_BLE       |-> {"WIFI_DISCONNECTED", "BLE_READY", "BLE_BUSY"},
     VALIDATING_IDENTITY |-> {"WIFI_DISCONNECTED", "IDENTITY_PRESENT",
                              "DISCOVERY_COMPLETE", "IDENTITY_REJECTED", "BLE_BUSY"},
     RELEASING_BLE       |-> {"WIFI_DISCONNECTED", "BLE_RELEASE_COMPLETE",
                              "BLE_RELEASE_FAILED"},
     DISPATCHING_ALERT   |-> {"WIFI_DISCONNECTED"} \cup AlertResults,
     IGNITING            |-> {"WIFI_DISCONNECTED", "WEBRTC_CONNECTED",
                              "WEBRTC_DISCONNECTED"},
     ACTIVE              |-> {"WIFI_DISCONNECTED", "MIC_MUTED", "MIC_UNMUTED",
                              "AUTO_SLEEP_TIMEOUT", "VIGILANTE_TIMEOUT",
                              "WEBRTC_DISCONNECTED"},
     STOPPING_WEBRTC     |-> {"WIFI_DISCONNECTED", "WEBRTC_STOPPED"},
     FATAL_ERROR         |-> {}]

\* orchestrator_ignore_event: no transition for the event, an alert result
\* of another alert, or an idle timeout of a vigilante session.
Ignored(e) ==
    /\ e.type # "FATAL_ERROR"
    /\ \/ e.type \notin Handled[state]
       \/ state = "DISPATCHING_ALERT" /\ e.type \in AlertResults /\ ~Matches(e)
       \/ state = "ACTIVE" /\ e.type = "AUTO_SLEEP_TIMEOUT" /\ activeMode = "vigilante"

Ignore ==
    /\ pc = "loop" /\ queue # <<>> /\ Ignored(Head(queue))
    /\ queue' = Tail(queue)
    /\ UNCHANGED <<state, pc, alertVars, modeVars, taskVars, bleVars, rtcVars,
                   vigilanteMute, muteVars, linkVars, bootVars, envVars, owner>>

\* The orchestrator task.
OrchestratorStep ==
    \/ WifiLost \/ WifiReady \/ PreparingReady \/ PreparingBusy
    \/ ValidatingPresent \/ ValidatingDiscovered
    \/ ValidatingRejected \/ ValidatingBusy
    \/ ReleasingFailed \/ ReleasingComplete
    \/ AlertOver \/ IgnitingConnected \/ SessionLost \/ StoppingStopped
    \/ ActiveMute(TRUE) \/ ActiveMute(FALSE) \/ ActiveIdle
    \/ ActiveAutoSleep \/ ActiveVigilanteOver
    \/ FatalError \/ Ignore
    \/ WaitWifiTeardown \/ WaitWifiClearBits \/ SleepRelease
    \/ IgniteAudio \/ IgniteStart \/ IgniteRecover

----------------------------------------------------------------------------
(* Tasks of orchestrator_tasks.c *)

orchVars == <<state, pc, modeVars, owner>>
otherVars == <<alertVars, vigilanteMute, isMuted, micMuted, idleTimer, linkVars,
               bootVars, envVars>>

PrepareClean ==
    /\ prepare = "running"
    /\ FullRelease(queue)
    /\ prepare' \in IF smart' = "orphan" THEN {"busy"} ELSE {"clean", "busy"}
    /\ UNCHANGED <<orchVars, otherVars, release, rtcStop, discovery, discPosts,
                   rtcVars, hwMute>>

\* ble_common_ensure_ready and ble_device_control_start
PrepareBoot ==
    /\ prepare = "clean"
    /\ \/ prepare' = "up" /\ ble' = "central" /\ UNCHANGED <<queue, smart, scanAborted>>
       \/ prepare' = "busy" /\ FullRelease(queue)
    /\ UNCHANGED <<orchVars, otherVars, release, rtcStop, discovery, discPosts,
                   rtcVars, hwMute>>

\* ble_device_prepare_for_identity_scan, then BLE_READY
PrepareScan ==
    /\ prepare = "up"
    /\ \/ /\ ble = "central" /\ smart \in {"idle", "orphan"}
          /\ Post("BLE_READY") /\ prepare' = Posted
          /\ UNCHANGED bleVars
       \/ prepare' = "busy" /\ FullRelease(queue)
    /\ UNCHANGED <<orchVars, otherVars, release, rtcStop, discovery, discPosts,
                   rtcVars, hwMute>>

PrepareBusy ==
    /\ prepare = "busy" /\ prepare' = Posted
    /\ Post("BLE_BUSY")
    /\ UNCHANGED <<orchVars, otherVars, release, rtcStop, discovery, discPosts,
                   bleVars, rtcVars, hwMute>>

ReleaseRun ==
    /\ release = "running"
    /\ FullRelease(queue)
    /\ release' \in IF smart' = "orphan" THEN {"failed"} ELSE {"complete", "failed"}
    /\ UNCHANGED <<orchVars, otherVars, prepare, rtcStop, discovery, discPosts,
                   rtcVars, hwMute>>

\* Mutant of ReleaseReport: only success is reported.
ReleaseReportSuccess ==
    /\ release \in {"complete", "failed"} /\ release' = Posted
    /\ IF release = "complete" THEN Post("BLE_RELEASE_COMPLETE") ELSE UNCHANGED queue
    /\ UNCHANGED <<orchVars, otherVars, prepare, rtcStop, discovery, discPosts,
                   bleVars, rtcVars, hwMute>>

ReleaseReport ==
    /\ release \in {"complete", "failed"} /\ release' = Posted
    /\ Post(IF release = "complete" THEN "BLE_RELEASE_COMPLETE"
                                    ELSE "BLE_RELEASE_FAILED")
    /\ UNCHANGED <<orchVars, otherVars, prepare, rtcStop, discovery, discPosts,
                   bleVars, rtcVars, hwMute>>

\* stop_webrtc: take the handle and close it, whichever session it is of ...
StopClose ==
    /\ rtcStop = "running" /\ rtcStop' = "closed"
    /\ rtc' = "closed" /\ rtcMode' = "friendly"
    /\ UNCHANGED <<orchVars, otherVars, queue, prepare, release, discovery,
                   discPosts, bleVars, media, hwMute>>

\* ... then tear the media system down and report.
StopTeardown ==
    /\ rtcStop = "closed" /\ rtcStop' = Posted
    /\ TeardownMedia
    /\ Post("WEBRTC_STOPPED")
    /\ UNCHANGED <<orchVars, otherVars, prepare, release, discovery, discPosts,
                   bleVars, rtc, rtcMode>>

\* The task clears its handle and deletes itself.
TaskExit ==
    /\ \/ prepare = "posted" /\ prepare' = "none" /\ UNCHANGED <<release, rtcStop>>
       \/ release = "posted" /\ release' = "none" /\ UNCHANGED <<prepare, rtcStop>>
       \/ rtcStop = "posted" /\ rtcStop' = "none" /\ UNCHANGED <<prepare, release>>
    /\ UNCHANGED <<orchVars, otherVars, queue, discovery, discPosts, bleVars,
                   rtcVars, hwMute>>

\* 1.2 s after IDENTITY_PRESENT: ble_device_start_smart_task, which asks for
\* an initialised module but not for the central role.
DiscoveryStart ==
    /\ discovery = "running" /\ discovery' = "scanning"
    /\ smart' = IF ble # "off" /\ smart = "idle" THEN "discovering" ELSE smart
    /\ UNCHANGED <<orchVars, otherVars, queue, prepare, release, rtcStop, discPosts,
                   ble, scanAborted, rtcVars, hwMute>>

\* 5 s later: stop whatever the smart task is doing; the handle is cleared
\* before the event is posted.
DiscoveryStop ==
    /\ discovery = "scanning" /\ discovery' = "none"
    /\ StopSmart(queue) /\ BleAfterStop
    /\ discPosts' = discPosts + 1
    /\ UNCHANGED <<orchVars, otherVars, prepare, release, rtcStop, rtcVars, hwMute>>

DiscoveryPost ==
    /\ discPosts > 0 /\ discPosts' = discPosts - 1
    /\ Post("DISCOVERY_COMPLETE")
    /\ UNCHANGED <<orchVars, otherVars, prepare, release, rtcStop, discovery,
                   bleVars, rtcVars, hwMute>>

\* The alert task posts its result with its own timestamp and clears the
\* handle, even when the handle has meanwhile been given to another alert.
AlertDone(ts) ==
    /\ ts \in alertTasks /\ alertTasks' = alertTasks \ {ts}
    /\ alertHandle' = FALSE
    /\ \E result \in AlertResults :
           queue' = Enqueue(queue, [type |-> result, ts |-> ts])
    /\ UNCHANGED <<orchVars, alertTs, alertPending, alertClock, taskVars, bleVars,
                   rtcVars, vigilanteMute, muteVars, linkVars, bootVars, envVars>>

----------------------------------------------------------------------------
(* The smart BLE task *)

SmartBegin ==
    /\ smart = "signalled"
    /\ \/ smart' = "validating" /\ UNCHANGED <<queue, ble>>
       \/ smart' = "idle" /\ ble' = Disown /\ Post("BLE_BUSY")
    /\ UNCHANGED <<orchVars, otherVars, taskVars, scanAborted, rtcVars, hwMute>>

\* The phone was seen, or the window closed without it.
SmartVerdict ==
    /\ smart = "validating" /\ smart' = "idle"
    /\ ble' = Disown
    /\ Verdict(queue)
    /\ UNCHANGED <<orchVars, otherVars, taskVars, scanAborted, rtcVars, hwMute>>

SmartOrphanEnds ==
    /\ smart = "orphan" /\ smart' = "idle"
    /\ ble' = Disown
    /\ Verdict(queue)
    /\ UNCHANGED <<orchVars, otherVars, taskVars, scanAborted, rtcVars, hwMute>>

SmartDiscovered ==
    /\ smart = "discovering" /\ smart' = "idle"
    /\ UNCHANGED <<orchVars, otherVars, queue, taskVars, ble, scanAborted, rtcVars,
                   hwMute>>

SmartStep == SmartBegin \/ SmartVerdict \/ SmartOrphanEnds \/ SmartDiscovered

----------------------------------------------------------------------------
(* Network, WebRTC session, mute handler, kill switch *)

LinkUp ==
    /\ ~link /\ link' = TRUE /\ wifiBit' = TRUE
    /\ Post("WIFI_CONNECTED")
    /\ UNCHANGED <<orchVars, alertVars, taskVars, bleVars, rtcVars, vigilanteMute,
                   muteVars, bootVars, envVars>>

LinkDown ==
    /\ link /\ link' = FALSE /\ wifiBit' = FALSE
    /\ losses < MaxLosses /\ losses' = losses + 1
    /\ Post("WIFI_DISCONNECTED")
    /\ UNCHANGED <<orchVars, alertVars, taskVars, bleVars, rtcVars, vigilanteMute,
                   muteVars, bootVars, presses, fatals>>

\* robot_registry_migrate_task waits for WIFI_CONNECTED_BIT with clear-on-exit,
\* again and again until a migration succeeds.
MigrationTakesBit ==
    /\ wifiBit /\ wifiBit' = FALSE
    /\ UNCHANGED <<link, orchVars, alertVars, queue, taskVars, bleVars, rtcVars,
                   vigilanteMute, muteVars, bootVars, envVars>>

SessionFrame == UNCHANGED <<orchVars, otherVars, taskVars, bleVars, rtcMode, media,
                            hwMute>>

\* The first session.updated of the session.
RtcConnected ==
    /\ rtc = "starting" /\ rtc' = "up"
    /\ Post("WEBRTC_CONNECTED")
    /\ SessionFrame

\* Mutant of RtcDown: without the generation check, an event of an earlier
\* session is taken for one of this session.
RtcDownAnyGeneration ==
    /\ rtc \in {"starting", "up"} /\ UNCHANGED rtc
    /\ Post("WEBRTC_DISCONNECTED")
    /\ SessionFrame

\* CONNECT_FAILED, DATA_CHANNEL_DISCONNECTED or DISCONNECTED; a session may
\* report twice before it is closed.
RtcDown ==
    /\ \/ rtc \in {"starting", "up", "spoken"} /\ rtc' = "lost"
       \/ rtc = "lost" /\ rtc' = "gone"
    /\ Post("WEBRTC_DISCONNECTED")
    /\ SessionFrame

\* The warning has been spoken (modelled once per session).
RtcSpoken ==
    /\ rtc = "up" /\ rtcMode = "vigilante" /\ rtc' = "spoken"
    /\ Post("VIGILANTE_TIMEOUT")
    /\ SessionFrame

\* Signaling finds an error in the answer to the offer (quota, API key).
RtcFatal ==
    /\ rtc = "starting" \/ pc = "start"
    /\ fatals < MaxFatals /\ fatals' = fatals + 1
    /\ Post("FATAL_ERROR")
    /\ UNCHANGED <<orchVars, alertVars, taskVars, bleVars, rtcVars, vigilanteMute,
                   muteVars, linkVars, bootVars, losses, presses>>

MuteFrame == UNCHANGED <<orchVars, alertVars, taskVars, bleVars, rtcVars,
                         vigilanteMute, isMuted, hwMute, linkVars, bootVars,
                         losses, fatals>>

\* mute_evt_task: a level that differs from mic_muted is taken and posted.
MuteButton ==
    /\ presses < MaxPresses /\ presses' = presses + 1
    /\ micMuted' = ~micMuted
    /\ Post(IF micMuted' THEN "MIC_MUTED" ELSE "MIC_UNMUTED")
    /\ UNCHANGED idleTimer
    /\ MuteFrame

\* activate_mute_task and mic.set_mute: mic_muted is left to the orchestrator.
MuteRequest(mute) ==
    /\ presses < MaxPresses /\ presses' = presses + 1
    /\ Post(IF mute THEN "MIC_MUTED" ELSE "MIC_UNMUTED")
    /\ UNCHANGED <<micMuted, idleTimer>>
    /\ MuteFrame

\* vIdleTimerCallback after 14 minutes of mute.
IdleTimerExpires ==
    /\ idleTimer /\ idleTimer' = FALSE
    /\ Post("AUTO_SLEEP_TIMEOUT")
    /\ UNCHANGED <<micMuted, presses>>
    /\ MuteFrame

\* fatal_error_timer_cb
FatalReboot == fatalTimer /\ Restart(nvsMode)

\* kill_switch_long_press_cb
KillSwitch == Restart("centinela")

\* Power cut, brown-out or watchdog reset, between any two steps.
PowerCycle == Restart(nvsMode)

Environment ==
    \/ LinkUp \/ LinkDown \/ MigrationTakesBit
    \/ RtcConnected \/ RtcDown \/ RtcSpoken \/ RtcFatal
    \/ MuteButton \/ MuteRequest(TRUE) \/ MuteRequest(FALSE)
    \/ IdleTimerExpires \/ FatalReboot \/ KillSwitch \/ PowerCycle

PrepareStep   == PrepareClean \/ PrepareBoot \/ PrepareScan \/ PrepareBusy
ReleaseStep   == ReleaseRun \/ ReleaseReport
StopStep      == StopClose \/ StopTeardown
DiscoveryStep == DiscoveryStart \/ DiscoveryStop \/ DiscoveryPost

Next == \/ OrchestratorStep
        \/ PrepareStep \/ ReleaseStep \/ StopStep \/ TaskExit \/ DiscoveryStep
        \/ \E ts \in alertTasks : AlertDone(ts)
        \/ SmartStep
        \/ Environment

Spec == Init /\ [][Next]_vars

----------------------------------------------------------------------------
(* Fairness: every task the code starts is scheduled and every wait of the  *)
(* tasks is bounded (release 5 s, validation 15 s + 1 s, discovery 6.2 s,   *)
(* HTTP timeout of the alert, close of the session), so each task that can  *)
(* step does.  Nothing is assumed of Wi-Fi, of the peer or of the user.     *)

Fairness == /\ WF_vars(OrchestratorStep)
            /\ WF_vars(PrepareStep) /\ WF_vars(ReleaseStep) /\ WF_vars(StopStep)
            /\ WF_vars(TaskExit) /\ WF_vars(DiscoveryStep) /\ WF_vars(SmartStep)
            /\ WF_vars(\E ts \in alertTasks : AlertDone(ts))

FairSpec == Spec /\ Fairness

----------------------------------------------------------------------------
(* Properties *)

FlagTypes ==
    /\ alertPending \in BOOLEAN /\ alertHandle \in BOOLEAN
    /\ releaseToSleep \in BOOLEAN /\ scanAborted \in BOOLEAN
    /\ media \in BOOLEAN /\ vigilanteMute \in BOOLEAN /\ isMuted \in BOOLEAN
    /\ micMuted \in BOOLEAN /\ hwMute \in BOOLEAN /\ idleTimer \in BOOLEAN
    /\ link \in BOOLEAN /\ wifiBit \in BOOLEAN /\ fatalTimer \in BOOLEAN

ValueTypes ==
    /\ state \in States
    /\ pc \in {"loop", "wait_wifi", "clear_bits", "sleep", "audio", "start", "recover"}
    /\ alertTs \in Nat /\ alertClock \in Nat /\ alertTasks \subseteq Nat
    /\ pendingMode \in Modes /\ ignitionMode \in Modes
    /\ activeMode \in Modes /\ rtcMode \in Modes
    /\ prepare \in {"none", "running", "clean", "up", "busy", "posted"}
    /\ release \in {"none", "running", "complete", "failed", "posted"}
    /\ rtcStop \in {"none", "running", "closed", "posted"}
    /\ discovery \in {"none", "running", "scanning"} /\ discPosts \in Nat
    /\ ble \in {"off", "central", "unowned"}
    /\ smart \in {"idle", "signalled", "validating", "discovering", "orphan"}
    /\ rtc \in {"closed", "starting", "up", "spoken", "lost", "gone"}
    /\ nvsMode \in BootModes /\ bootMode \in BootModes
    /\ losses \in Nat /\ presses \in Nat /\ fatals \in Nat
    /\ owner \in {"never", "earlier", "now"}

\* Every variable holds one of the values its C type and its writers allow;
\* in particular the queue never exceeds its depth.
TypeOK == ValueTypes /\ FlagTypes /\ queue \in Queue

\* The intruder is being dealt with: alert on its way or session running.
Vigil == \/ state \in {"RELEASING_BLE", "DISPATCHING_ALERT"} /\ pendingMode = "vigilante"
         \/ state \in {"IGNITING", "ACTIVE"} /\ activeMode = "vigilante"

\* From the rejection to the end of the vigilante session the microphone
\* stays silenced (media_sys_set_vigilante_mute), whatever else happens.
VigilanteSilenced == Vigil => vigilanteMute

\* BLE is released for a reason: to sleep, or to send an alert; so the
\* ignition branch of RELEASING_BLE and the "no pending alert" branch of
\* DISPATCHING_ALERT are dead code.
ReleasePurpose ==
    /\ state = "RELEASING_BLE" => releaseToSleep \/ alertPending
    /\ state = "DISPATCHING_ALERT" => alertPending

\* A vigilante session ignites only after the alert of that rejection has
\* been attempted to the end: no result in the queue belongs to a running
\* alert task, and the mode changes while dispatching.
VigilanteAfterAlert ==
    [][activeMode = "friendly" /\ activeMode' = "vigilante"
         => state = "DISPATCHING_ALERT" /\ alertTs \notin alertTasks]_vars

\* A friendly conversation presupposes that the owner's phone has been seen
\* in this boot.
FriendlyEverValidated ==
    state \in {"IGNITING", "ACTIVE"} /\ activeMode = "friendly" => owner # "never"

\* No session is open while the orchestrator waits for Wi-Fi or uses the
\* radio for BLE, however the previous session ended.
QuietClosed ==
    /\ state \in {"PREPARING_BLE", "VALIDATING_IDENTITY", "RELEASING_BLE",
                  "DISPATCHING_ALERT"} => rtc = "closed"
    /\ state = "WAIT_WIFI" /\ pc # "wait_wifi" => rtc = "closed"

\* No identity scan runs while a session is open or being opened: both use
\* the radio.
NoScanInSession == rtc # "closed" => smart \notin {"signalled", "validating"}

\* An event that starts, ends or condemns a session is about the session
\* that is open now, not about an earlier one.
EventsOfThisSession ==
    pc = "loop" /\ queue # <<>> =>
        /\ Head(queue).type = "WEBRTC_DISCONNECTED" /\ state \in {"IGNITING", "ACTIVE"}
             => rtc \notin {"starting", "up", "spoken"}
        /\ Head(queue).type = "WEBRTC_CONNECTED" /\ state = "IGNITING"
             => rtc # "starting"
        /\ Head(queue).type = "VIGILANTE_TIMEOUT" /\ state = "ACTIVE"
             => activeMode = "vigilante"

\* Once ACTIVE, what the orchestrator believes of the microphone is what the
\* capture pipeline does.
MuteAgrees == state = "ACTIVE" /\ pc = "loop" /\ media => hwMute = isMuted

\* A muted session is never forgotten: its 14-minute timer runs, or the
\* reboot request is on its way.
MutedHasDeadline ==
    state = "ACTIVE" /\ isMuted =>
        \/ idleTimer
        \/ \E e \in Pending(queue) : e.type = "AUTO_SLEEP_TIMEOUT"
        \/ activeMode = "vigilante"

\* The orchestrator implements the policy of module SessionPolicy.
Phase == CASE state = "VALIDATING_IDENTITY" -> "verify"
           [] state = "DISPATCHING_ALERT" -> "alarm"
           [] state = "RELEASING_BLE" /\ alertPending -> "alarm"
           [] state \in {"IGNITING", "ACTIVE"} ->
                IF activeMode = "vigilante" THEN "guard" ELSE "talk"
           [] OTHER -> "idle"

Policy == INSTANCE SessionPolicy WITH phase <- Phase, seen <- owner # "never",
                                      silenced <- vigilanteMute

FollowsPolicy == Policy!PolicySpec

\* The states that wait for a task's report end, whatever happens to the task:
\* it cannot be made, it fails, the smart task hangs.
ReportAwaited == {"PREPARING_BLE", "RELEASING_BLE", "DISPATCHING_ALERT", "STOPPING_WEBRTC"}
WaitsEnd == \A s \in ReportAwaited : state = s ~> state # s

=============================================================================
