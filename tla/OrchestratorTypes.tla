-------------------------- MODULE OrchestratorTypes --------------------------
(***************************************************************************)
(* The type invariant of the orchestrator, proved for every queue depth    *)
(* and every bound.  Flags, other values and the queue are three separate  *)
(* facts, since different provers are good at each; the entry actions and  *)
(* task helpers have a lemma of their own, and so has every action.        *)
(***************************************************************************)
EXTENDS Orchestrator, SequenceTheorems, TLAPS

----------------------------------------------------------------------------
(* The event queue *)

\* The events that tasks and callbacks post are orchestrator events.
LEMMA EventNames ==
    /\ "WIFI_CONNECTED" \in EventTypes /\ "WIFI_DISCONNECTED" \in EventTypes
    /\ "BLE_READY" \in EventTypes /\ "BLE_BUSY" \in EventTypes
    /\ "IDENTITY_PRESENT" \in EventTypes /\ "IDENTITY_REJECTED" \in EventTypes
    /\ "DISCOVERY_COMPLETE" \in EventTypes
    /\ "BLE_RELEASE_COMPLETE" \in EventTypes /\ "BLE_RELEASE_FAILED" \in EventTypes
    /\ "WEBRTC_CONNECTED" \in EventTypes /\ "WEBRTC_DISCONNECTED" \in EventTypes
    /\ "WEBRTC_STOPPED" \in EventTypes /\ "AUTO_SLEEP_TIMEOUT" \in EventTypes
    /\ "VIGILANTE_TIMEOUT" \in EventTypes /\ "MIC_MUTED" \in EventTypes
    /\ "MIC_UNMUTED" \in EventTypes /\ "FATAL_ERROR" \in EventTypes
  BY DEF EventTypes

\* Posting never exceeds the depth of the queue.
LEMMA EnqueueQueue == ASSUME NEW q \in Queue, NEW e \in Event
                      PROVE  Enqueue(q, e) \in Queue
  BY QueueLenAssumption DEF Queue, Enqueue

\* An event without a timestamp can always be posted.
LEMMA PostQueue == ASSUME NEW q \in Queue, NEW t \in EventTypes
                   PROVE  Enqueue(q, Ev(t)) \in Queue
  <1>1. Ev(t) \in Event
    BY DEF Ev, Event
  <1> QED BY <1>1, EnqueueQueue

\* Receiving leaves a queue.
LEMMA TailQueue == ASSUME NEW q \in Queue, q # <<>>
                   PROVE  Tail(q) \in Queue
  <1>1. q \in Seq(Event) /\ Len(q) <= QueueLen
    BY DEF Queue
  <1>2. Tail(q) \in Seq(Event) /\ Len(Tail(q)) = Len(q) - 1
    BY <1>1, HeadTailProperties, Zenon
  <1>3. Len(q) \in Nat /\ QueueLen \in Nat
    BY <1>1, QueueLenAssumption
  <1> QED BY <1>1, <1>2, <1>3 DEF Queue

\* A restart leaves the empty queue.
LEMMA EmptyQueue == <<>> \in Queue
  BY QueueLenAssumption DEF Queue

\* The result of an alert is an event that carries its timestamp.
LEMMA AlertEvent == ASSUME NEW r \in AlertResults, NEW ts \in Nat
                    PROVE  [type |-> r, ts |-> ts] \in Event
  BY DEF AlertResults, Event, EventTypes

----------------------------------------------------------------------------
(* Helpers and entry actions *)

\* ble_device_stop_smart_task posts at most one verdict.
LEMMA StopSmartTypes ==
    ASSUME NEW q \in Queue, StopSmart(q), ValueTypes, FlagTypes
    PROVE  /\ queue' \in Queue
           /\ smart' \in {"idle", "signalled", "validating", "discovering", "orphan"}
           /\ scanAborted' \in BOOLEAN
<1>1. queue' = q \/ \E t \in EventTypes : queue' = Enqueue(q, Ev(t))
  BY EventNames DEF StopSmart, Verdict
<1>2. queue' \in Queue
  BY <1>1, PostQueue, Zenon
<1>3. smart' \in {"idle", "signalled", "validating", "discovering", "orphan"}
  BY DEF StopSmart, ValueTypes
<1>4. scanAborted' \in BOOLEAN
  BY Zenon DEF StopSmart, FlagTypes
<1> QED BY <1>2, <1>3, <1>4

\* orchestrator_start_* posts at most the failure event of the task.
LEMMA StartTaskTypes ==
    ASSUME NEW q \in Queue, NEW f \in EventTypes, NEW a, NEW b, StartTask(a, b, q, f)
    PROVE  queue' \in Queue /\ b \in {a, "running", "none"}
<1>1. queue' = q \/ queue' = Enqueue(q, Ev(f))
  BY DEF StartTask
<1>2. queue' \in Queue
  BY <1>1, PostQueue
<1> QED BY <1>2 DEF StartTask

\* orchestrator_start_alert_dispatch either starts a task or posts a failure.
LEMMA StartAlertTypes ==
    ASSUME NEW q \in Queue, StartAlert(q), ValueTypes, FlagTypes
    PROVE  queue' \in Queue /\ alertHandle' \in BOOLEAN /\ alertTasks' \subseteq Nat
<1>1. [type |-> "ALERT_DISPATCH_FAILED", ts |-> alertTs] \in Event
  BY DEF Event, EventTypes, AlertResults, ValueTypes
<1>2. queue' \in Queue
  BY <1>1, EnqueueQueue DEF StartAlert
<1>3. alertHandle' \in BOOLEAN
  BY Zenon DEF StartAlert, FlagTypes
<1>4. alertTasks' \subseteq Nat
  BY DEF StartAlert, ValueTypes
<1> QED BY <1>2, <1>3, <1>4

\* A restart gives every variable its boot value.
LEMMA RestartTypes ==
    ASSUME NEW mode \in BootModes, Restart(mode)
    PROVE  TypeOK'
<1>1. FlagTypes'
  BY Zenon DEF Restart, FlagTypes
<1>2. ValueTypes'
  BY SMT DEF Restart, ValueTypes, States, Modes, BootModes
<1>3. queue' \in Queue
  BY EmptyQueue, Zenon DEF Restart
<1> QED BY <1>1, <1>2, <1>3 DEF TypeOK

\* reset_alert_context clears flags.
LEMMA ResetAlertFlags ==
    ASSUME ResetAlertContext
    PROVE  alertPending' \in BOOLEAN /\ alertHandle' \in BOOLEAN
  BY Zenon DEF ResetAlertContext

\* Entry of STATE_WAIT_WIFI.
LEMMA EnterWaitWifiTypes ==
    ASSUME NEW q \in Queue, TypeOK, EnterWaitWifi(q)
    PROVE  TypeOK'
<1>1. releaseToSleep' \in BOOLEAN /\ isMuted' \in BOOLEAN
  BY Zenon DEF EnterWaitWifi
<1>2. FlagTypes'
  BY <1>1, ResetAlertFlags, SMT DEF EnterWaitWifi, FlagTypes, TypeOK, taskVars, bleVars,
     rtcVars, linkVars, bootVars, envVars
<1>3. ValueTypes'
  BY SMT DEF EnterWaitWifi, ValueTypes, TypeOK, ResetAlertContext,
     ResetVigilanteContext, taskVars, bleVars, rtcVars, linkVars, bootVars, envVars,
     States, Modes
<1> QED BY <1>2, <1>3, SMT DEF EnterWaitWifi, TypeOK

\* Entry of STATE_SLEEP, which may restart the device instead.
LEMMA EnterSleepTypes ==
    ASSUME NEW q \in Queue, TypeOK, EnterSleep(q)
    PROVE  TypeOK'
<1>1. CASE activeMode = "vigilante"
  <2>1. "centinela" \in BootModes /\ Restart("centinela")
    BY <1>1 DEF EnterSleep, BootModes
  <2> QED BY <2>1, RestartTypes
<1>2. CASE activeMode = "friendly"
  <2>1. /\ releaseToSleep' \in BOOLEAN /\ isMuted' \in BOOLEAN
        /\ vigilanteMute' \in BOOLEAN
    BY <1>2, Zenon DEF EnterSleep
  <2>2. FlagTypes'
    BY <1>2, <2>1, ResetAlertFlags, SMT DEF EnterSleep, FlagTypes, TypeOK, taskVars,
       bleVars, rtcVars, linkVars, bootVars, envVars
  <2>3. /\ state' = "SLEEP" /\ pc' = "sleep" /\ queue' = q
        /\ ResetAlertContext /\ ResetVigilanteContext
        /\ UNCHANGED <<taskVars, bleVars, rtcVars, linkVars, bootVars, envVars, owner>>
    BY <1>2, SMT DEF EnterSleep
  <2>4. ValueTypes'
    BY <2>3, SMT DEF ValueTypes, TypeOK, ResetAlertContext, ResetVigilanteContext,
       taskVars, bleVars, rtcVars, linkVars, bootVars, envVars, States, Modes
  <2> QED BY <2>2, <2>3, <2>4, SMT DEF TypeOK
<1> QED BY <1>1, <1>2 DEF EnterSleep

\* media_sys_teardown clears flags.
LEMMA TeardownFlags ==
    ASSUME TeardownMedia
    PROVE  media' \in BOOLEAN /\ hwMute' \in BOOLEAN
  BY Zenon DEF TeardownMedia

\* Entry of STATE_IGNITING.
LEMMA EnterIgnitingTypes ==
    ASSUME FlagTypes, NEW mode \in Modes, EnterIgniting(mode)
    PROVE  /\ isMuted' \in BOOLEAN /\ micMuted' \in BOOLEAN
           /\ idleTimer' \in BOOLEAN /\ hwMute' \in BOOLEAN
           /\ state' \in States
           /\ pc' = "audio"
           /\ activeMode' \in Modes
<1>1. isMuted' \in BOOLEAN /\ micMuted' \in BOOLEAN /\ idleTimer' \in BOOLEAN
  BY Zenon DEF EnterIgniting
<1> QED BY <1>1 DEF EnterIgniting, FlagTypes, States

\* media_sys_mic_mute with the mute handler's bookkeeping.
LEMMA SetMuteTypes ==
    ASSUME TypeOK, NEW mute \in BOOLEAN, SetMute(mute)
    PROVE  FlagTypes' /\ ValueTypes'
<1>1. FlagTypes'
  BY DEF SetMute, FlagTypes, TypeOK, alertVars, modeVars, taskVars, bleVars, rtcVars,
     linkVars, bootVars
<1>2. ValueTypes'
  BY DEF SetMute, ValueTypes, TypeOK, alertVars, modeVars, taskVars, bleVars, rtcVars,
     linkVars, bootVars, envVars
<1> QED BY <1>1, <1>2

\* ble_device_start_identity_validation posts at most one event.
LEMMA StartValidationTypes ==
    ASSUME NEW q \in Queue, StartValidation(q), ValueTypes
    PROVE  /\ queue' \in Queue
           /\ smart' \in {"idle", "signalled", "validating", "discovering", "orphan"}
           /\ scanAborted' \in BOOLEAN
<1>1. queue' \in Queue
  BY PostQueue, EventNames DEF StartValidation
<1>2. smart' \in {"idle", "signalled", "validating", "discovering", "orphan"}
  BY DEF StartValidation, ValueTypes
<1>3. scanAborted' \in BOOLEAN
  BY Zenon DEF StartValidation
<1> QED BY <1>1, <1>2, <1>3

\* orchestrator_post_event.
LEMMA PostTypes ==
    ASSUME queue \in Queue, NEW t \in EventTypes, Post(t)
    PROVE  queue' \in Queue
  BY PostQueue DEF Post

\* The verdict of a validation.
LEMMA VerdictTypes ==
    ASSUME NEW q \in Queue, Verdict(q)
    PROVE  queue' \in Queue
  BY PostQueue, EventNames DEF Verdict

\* Entry of STATE_DISPATCHING_ALERT.
LEMMA EnterDispatchingTypes ==
    ASSUME TypeOK, NEW q \in Queue, EnterDispatching(q)
    PROVE  TypeOK'
<1>1. /\ queue' \in Queue /\ alertHandle' \in BOOLEAN /\ alertTasks' \subseteq Nat
  BY StartAlertTypes DEF EnterDispatching, TypeOK
<1>2. FlagTypes'
  BY <1>1, SMT
     DEF EnterDispatching, TypeOK, FlagTypes, modeVars, bleVars, rtcVars, muteVars,
         linkVars, bootVars
<1>3. ValueTypes'
  BY <1>1, SMT
     DEF EnterDispatching, TypeOK, ValueTypes, States, modeVars, taskVars, bleVars,
         rtcVars, linkVars, bootVars, envVars
<1> QED BY <1>1, <1>2, <1>3 DEF TypeOK

----------------------------------------------------------------------------
(* Handlers of app_startup_orchestrator_task *)

\* Action WifiLost keeps every variable within its type.
LEMMA WifiLostTypes == ASSUME TypeOK, WifiLost PROVE TypeOK'
<1>1. Tail(queue) \in Queue
  BY TailQueue DEF TypeOK, Receive, WifiLost
<1> QED BY <1>1, EnterWaitWifiTypes, SMT DEF WifiLost

\* Action WifiReady keeps every variable within its type.
LEMMA WifiReadyTypes == ASSUME TypeOK, WifiReady PROVE TypeOK'
<1>1. Tail(queue) \in Queue
  BY TailQueue DEF TypeOK, Receive, WifiReady
<1>2. FlagTypes'
  BY <1>1, SMT
    DEF TypeOK, FlagTypes, Receive, WifiReady, alertVars, bleVars, bootVars,
      linkVars, modeVars, muteVars, rtcVars
<1>3. ValueTypes'
  BY <1>1, StartTaskTypes, EventNames, SMT
    DEF TypeOK, ValueTypes, Receive, WifiReady, alertVars, bleVars, bootVars,
      envVars, linkVars, modeVars, rtcVars, States, Modes, BootModes
<1>4. queue' \in Queue
  BY <1>1, StartTaskTypes, EventNames, SMT DEF TypeOK, Receive, WifiReady
<1> QED BY <1>2, <1>3, <1>4 DEF TypeOK

\* Action PreparingReady keeps every variable within its type.
LEMMA PreparingReadyTypes == ASSUME TypeOK, PreparingReady PROVE TypeOK'
<1>1. Tail(queue) \in Queue
  BY TailQueue DEF TypeOK, PreparingReady, Receive
<1>2. FlagTypes'
  BY <1>1, StartValidationTypes, SMT
    DEF TypeOK, FlagTypes, PreparingReady, Receive, alertVars, bootVars, linkVars,
      modeVars, muteVars, rtcVars
<1>3. ValueTypes'
  BY <1>1, StartValidationTypes, SMT
    DEF TypeOK, ValueTypes, PreparingReady, Receive, alertVars, bootVars, envVars,
      linkVars, modeVars, rtcVars, taskVars, States, Modes, BootModes
<1>4. queue' \in Queue
  BY <1>1, StartValidationTypes, SMT DEF TypeOK, PreparingReady, Receive
<1> QED BY <1>2, <1>3, <1>4 DEF TypeOK

\* Action PreparingBusy keeps every variable within its type.
LEMMA PreparingBusyTypes == ASSUME TypeOK, PreparingBusy PROVE TypeOK'
<1>1. Tail(queue) \in Queue
  BY TailQueue DEF TypeOK, PreparingBusy, Receive
<1> QED BY <1>1, EnterSleepTypes, SMT DEF PreparingBusy

\* Action ValidatingPresent keeps every variable within its type.
LEMMA ValidatingPresentTypes == ASSUME TypeOK, ValidatingPresent PROVE TypeOK'
<1>1. Tail(queue) \in Queue
  BY TailQueue DEF TypeOK, Receive, ValidatingPresent
<1>2. alertPending' \in BOOLEAN /\ releaseToSleep' \in BOOLEAN /\ vigilanteMute' \in BOOLEAN
  BY Zenon DEF ValidatingPresent
<1>3. FlagTypes'
  BY <1>1, <1>2, SMT
    DEF TypeOK, FlagTypes, Receive, ValidatingPresent, bleVars, linkVars,
      muteVars, rtcVars
<1>4. ValueTypes'
  BY <1>1, StartTaskTypes, EventNames, SMT
    DEF TypeOK, ValueTypes, Receive, ValidatingPresent, bleVars, envVars,
      linkVars, rtcVars, States, Modes, BootModes
<1>5. queue' \in Queue
  BY <1>1, StartTaskTypes, EventNames, SMT
    DEF TypeOK, Receive, ValidatingPresent
<1> QED BY <1>3, <1>4, <1>5 DEF TypeOK

\* Action ValidatingDiscovered keeps every variable within its type.
LEMMA ValidatingDiscoveredTypes ==
    ASSUME TypeOK, ValidatingDiscovered PROVE TypeOK'
<1>1. Tail(queue) \in Queue
  BY TailQueue DEF TypeOK, ValidatingDiscovered, Receive
<1>2. /\ ignitionMode \in Modes /\ EnterIgniting(ignitionMode)
      /\ queue' = Tail(queue)
      /\ UNCHANGED <<alertVars, pendingMode, ignitionMode, releaseToSleep, taskVars,
                     bleVars, rtcVars, vigilanteMute, linkVars, bootVars, envVars,
                     owner>>
  BY SMT DEF ValidatingDiscovered, TypeOK, ValueTypes
<1>3. FlagTypes'
  BY <1>2, EnterIgnitingTypes, SMT
     DEF TypeOK, FlagTypes, alertVars, bleVars, rtcVars, linkVars, bootVars
<1>4. ValueTypes'
  BY <1>2, EnterIgnitingTypes, SMT
     DEF TypeOK, ValueTypes, alertVars, taskVars, bleVars, rtcVars, linkVars,
         bootVars, envVars
<1> QED BY <1>1, <1>2, <1>3, <1>4 DEF TypeOK

\* Action ValidatingRejected keeps every variable within its type.
LEMMA ValidatingRejectedTypes == ASSUME TypeOK, ValidatingRejected PROVE TypeOK'
<1>1. Tail(queue) \in Queue
  BY TailQueue DEF TypeOK, Receive, ValidatingRejected
<1>2. alertPending' \in BOOLEAN /\ releaseToSleep' \in BOOLEAN /\ vigilanteMute' \in BOOLEAN
  BY Zenon DEF ValidatingRejected
<1>3. FlagTypes'
  BY <1>1, <1>2, SMT
    DEF TypeOK, FlagTypes, Receive, ValidatingRejected, bleVars, bootVars,
      linkVars, muteVars, rtcVars
<1>4. ValueTypes'
  BY <1>1, StartTaskTypes, EventNames, SMT
    DEF TypeOK, ValueTypes, Receive, ValidatingRejected, bleVars, bootVars,
      envVars, linkVars, rtcVars, States, Modes, BootModes
<1>5. queue' \in Queue
  BY <1>1, StartTaskTypes, EventNames, SMT
    DEF TypeOK, Receive, ValidatingRejected
<1> QED BY <1>3, <1>4, <1>5 DEF TypeOK

\* Action ValidatingBusy keeps every variable within its type.
LEMMA ValidatingBusyTypes == ASSUME TypeOK, ValidatingBusy PROVE TypeOK'
<1>1. Tail(queue) \in Queue
  BY TailQueue DEF TypeOK, Receive, ValidatingBusy
<1>2. releaseToSleep' \in BOOLEAN
  BY Zenon DEF ValidatingBusy
<1>3. FlagTypes'
  BY <1>1, <1>2, ResetAlertFlags, SMT
    DEF TypeOK, FlagTypes, Receive, ValidatingBusy, bleVars, bootVars, linkVars,
      muteVars, rtcVars
<1>4. ValueTypes'
  BY <1>1, StartTaskTypes, EventNames, SMT
    DEF TypeOK, ValueTypes, Receive, ValidatingBusy, bleVars, bootVars, envVars,
      linkVars, rtcVars, ResetAlertContext, States, Modes, BootModes
<1>5. queue' \in Queue
  BY <1>1, StartTaskTypes, EventNames, SMT DEF TypeOK, Receive, ValidatingBusy
<1> QED BY <1>3, <1>4, <1>5 DEF TypeOK

\* Action ReleasingFailed keeps every variable within its type.
LEMMA ReleasingFailedTypes == ASSUME TypeOK, ReleasingFailed PROVE TypeOK'
<1>1. Tail(queue) \in Queue
  BY TailQueue DEF TypeOK, Receive, ReleasingFailed
<1> QED BY <1>1, EnterSleepTypes, SMT DEF ReleasingFailed

\* Action ReleasingComplete keeps every variable within its type.
LEMMA ReleasingCompleteTypes == ASSUME TypeOK, ReleasingComplete PROVE TypeOK'
<1>0. Tail(queue) \in Queue
  BY TailQueue DEF TypeOK, ReleasingComplete, Receive
<1>1. CASE releaseToSleep
  BY <1>0, <1>1, EnterSleepTypes DEF ReleasingComplete
<1>2. CASE ~releaseToSleep /\ alertPending
  <2>1. EnterDispatching(Tail(queue))
    BY <1>2 DEF ReleasingComplete
  <2> QED BY <1>0, <2>1, EnterDispatchingTypes
<1>3. CASE ~releaseToSleep /\ ~alertPending
  <2>1. /\ pendingMode \in Modes /\ EnterIgniting(pendingMode)
        /\ queue' = Tail(queue) /\ ignitionMode' = pendingMode
        /\ UNCHANGED <<alertVars, pendingMode, releaseToSleep, taskVars, bleVars,
                       rtcVars, vigilanteMute, linkVars, bootVars, envVars, owner>>
    BY <1>3, SMT DEF ReleasingComplete, TypeOK, ValueTypes
  <2>2. FlagTypes'
    BY <2>1, EnterIgnitingTypes, SMT
       DEF TypeOK, FlagTypes, alertVars, bleVars, rtcVars, linkVars, bootVars
  <2>3. ValueTypes'
    BY <2>1, EnterIgnitingTypes, SMT
       DEF TypeOK, ValueTypes, alertVars, taskVars, bleVars, rtcVars, linkVars,
           bootVars, envVars
  <2> QED BY <1>0, <2>1, <2>2, <2>3 DEF TypeOK
<1> QED BY <1>1, <1>2, <1>3

\* Action AlertOver keeps every variable within its type.
LEMMA AlertOverTypes == ASSUME TypeOK, AlertOver PROVE TypeOK'
<1>1. Tail(queue) \in Queue
  BY TailQueue DEF TypeOK, AlertOver
<1>2. /\ pendingMode \in Modes /\ EnterIgniting(pendingMode)
      /\ queue' = Tail(queue) /\ ignitionMode' = pendingMode
      /\ ResetAlertContext
      /\ UNCHANGED <<releaseToSleep, taskVars, bleVars, rtcVars, vigilanteMute,
                     linkVars, bootVars, envVars, owner>>
  BY SMT DEF AlertOver, TypeOK, ValueTypes
<1>3. FlagTypes'
  BY <1>2, EnterIgnitingTypes, ResetAlertFlags, SMT
     DEF TypeOK, FlagTypes, bleVars, rtcVars, linkVars, bootVars
<1>4. ValueTypes'
  BY <1>2, EnterIgnitingTypes, SMT
     DEF TypeOK, ValueTypes, ResetAlertContext, taskVars, bleVars, rtcVars,
         linkVars, bootVars, envVars, Modes
<1> QED BY <1>1, <1>2, <1>3, <1>4 DEF TypeOK

\* Action IgnitingConnected keeps every variable within its type.
LEMMA IgnitingConnectedTypes == ASSUME TypeOK, IgnitingConnected PROVE TypeOK'
<1>1. Tail(queue) \in Queue
  BY TailQueue DEF TypeOK, IgnitingConnected, Receive
<1>2. FlagTypes'
  BY <1>1, SMT
    DEF TypeOK, FlagTypes, IgnitingConnected, Receive, alertVars, bleVars,
      bootVars, linkVars, modeVars, muteVars, rtcVars
<1>3. ValueTypes'
  BY <1>1, SMT
    DEF TypeOK, ValueTypes, IgnitingConnected, Receive, alertVars, bleVars,
      bootVars, envVars, linkVars, modeVars, rtcVars, taskVars, States, Modes,
      BootModes
<1>4. queue' \in Queue
  BY <1>1, SMT DEF TypeOK, IgnitingConnected, Receive
<1> QED BY <1>2, <1>3, <1>4 DEF TypeOK

\* Action SessionLost keeps every variable within its type.
LEMMA SessionLostTypes == ASSUME TypeOK, SessionLost PROVE TypeOK'
<1>1. Tail(queue) \in Queue
  BY TailQueue DEF TypeOK, Receive, SessionLost
<1>2. vigilanteMute' \in BOOLEAN
  BY Zenon DEF SessionLost
<1>3. FlagTypes'
  BY <1>1, <1>2, SMT
    DEF TypeOK, FlagTypes, Receive, SessionLost, alertVars, bleVars, bootVars,
      linkVars, modeVars, muteVars, rtcVars
<1>4. ValueTypes'
  BY <1>1, StartTaskTypes, EventNames, SMT
    DEF TypeOK, ValueTypes, Receive, SessionLost, alertVars, bleVars, bootVars,
      envVars, linkVars, modeVars, rtcVars, States, Modes, BootModes
<1>5. queue' \in Queue
  BY <1>1, StartTaskTypes, EventNames, SMT DEF TypeOK, Receive, SessionLost
<1> QED BY <1>3, <1>4, <1>5 DEF TypeOK

\* Action StoppingStopped keeps every variable within its type.
LEMMA StoppingStoppedTypes == ASSUME TypeOK, StoppingStopped PROVE TypeOK'
<1>1. Tail(queue) \in Queue
  BY TailQueue DEF TypeOK, Receive, StoppingStopped
<1> QED BY <1>1, EnterSleepTypes, SMT DEF StoppingStopped

\* Action ActiveMute keeps every variable within its type.
LEMMA ActiveMuteTypes == ASSUME TypeOK, NEW mute \in BOOLEAN, ActiveMute(mute) PROVE TypeOK'
<1>1. Tail(queue) \in Queue
  BY TailQueue DEF TypeOK, ActiveMute, Receive
<1>2. FlagTypes' /\ ValueTypes'
  BY SetMuteTypes DEF ActiveMute
<1> QED BY <1>1, <1>2 DEF ActiveMute, TypeOK

\* Action ActiveIdle keeps every variable within its type.
LEMMA ActiveIdleTypes == ASSUME TypeOK, ActiveIdle PROVE TypeOK'
<1>1. queue \in Queue
  BY DEF TypeOK
<1>2. FlagTypes' /\ ValueTypes'
  BY SetMuteTypes DEF ActiveIdle
<1> QED BY <1>1, <1>2 DEF ActiveIdle, TypeOK

\* Action ActiveAutoSleep keeps every variable within its type.
LEMMA ActiveAutoSleepTypes == ASSUME TypeOK, ActiveAutoSleep PROVE TypeOK'
  BY RestartTypes DEF ActiveAutoSleep, TypeOK, ValueTypes, BootModes

\* Action ActiveVigilanteOver keeps every variable within its type.
LEMMA ActiveVigilanteOverTypes == ASSUME TypeOK, ActiveVigilanteOver PROVE TypeOK'
  BY RestartTypes DEF ActiveVigilanteOver, TypeOK, ValueTypes, BootModes

\* Action FatalError keeps every variable within its type.
LEMMA FatalErrorTypes == ASSUME TypeOK, FatalError PROVE TypeOK'
<1>1. Tail(queue) \in Queue
  BY TailQueue DEF TypeOK, FatalError, Receive
<1>2. fatalTimer' \in BOOLEAN
  BY Zenon DEF FatalError
<1>3. FlagTypes'
  BY <1>1, <1>2, TeardownFlags, SMT
    DEF TypeOK, FlagTypes, FatalError, Receive, alertVars, bleVars, linkVars,
      modeVars
<1>4. ValueTypes'
  BY <1>1, SMT
    DEF TypeOK, ValueTypes, FatalError, Receive, alertVars, bleVars, envVars,
      linkVars, modeVars, taskVars, States, Modes, BootModes
<1>5. queue' \in Queue
  BY <1>1, SMT DEF TypeOK, FatalError, Receive
<1> QED BY <1>3, <1>4, <1>5 DEF TypeOK

\* Action Ignore keeps every variable within its type.
LEMMA IgnoreTypes == ASSUME TypeOK, Ignore PROVE TypeOK'
<1>1. Tail(queue) \in Queue
  BY TailQueue DEF TypeOK, Ignore
<1>2. FlagTypes'
  BY <1>1, SMT
    DEF TypeOK, FlagTypes, Ignore, alertVars, bleVars, bootVars, linkVars,
      modeVars, muteVars, rtcVars
<1>3. ValueTypes'
  BY <1>1, SMT
    DEF TypeOK, ValueTypes, Ignore, alertVars, bleVars, bootVars, envVars,
      linkVars, modeVars, rtcVars, taskVars, States, Modes, BootModes
<1>4. queue' \in Queue
  BY <1>1, SMT DEF TypeOK, Ignore
<1> QED BY <1>2, <1>3, <1>4 DEF TypeOK

\* Action WaitWifiTeardown keeps every variable within its type.
LEMMA WaitWifiTeardownTypes == ASSUME TypeOK, WaitWifiTeardown PROVE TypeOK'
<1>1. queue \in Queue
  BY DEF TypeOK
<1>2. FlagTypes'
  BY <1>1, StopSmartTypes, TeardownFlags, SMT
    DEF TypeOK, FlagTypes, WaitWifiTeardown, alertVars, bootVars, linkVars,
      modeVars
<1>3. ValueTypes'
  BY <1>1, StopSmartTypes, SMT
    DEF TypeOK, ValueTypes, WaitWifiTeardown, alertVars, bootVars, envVars,
      linkVars, modeVars, taskVars, States, Modes, BootModes
<1>4. queue' \in Queue
  BY <1>1, StopSmartTypes, SMT DEF TypeOK, WaitWifiTeardown
<1> QED BY <1>2, <1>3, <1>4 DEF TypeOK

\* Action WaitWifiClearBits keeps every variable within its type.
LEMMA WaitWifiClearBitsTypes == ASSUME TypeOK, WaitWifiClearBits PROVE TypeOK'
<1>1. queue \in Queue
  BY DEF TypeOK
<1>2. wifiBit' \in BOOLEAN
  BY Zenon DEF WaitWifiClearBits
<1>3. FlagTypes'
  BY <1>1, <1>2, SMT
    DEF TypeOK, FlagTypes, WaitWifiClearBits, alertVars, bleVars, bootVars,
      modeVars, muteVars, rtcVars
<1>4. ValueTypes'
  BY <1>1, SMT
    DEF TypeOK, ValueTypes, WaitWifiClearBits, alertVars, bleVars, bootVars,
      envVars, modeVars, rtcVars, taskVars, States, Modes, BootModes
<1>5. queue' \in Queue
  BY <1>1, SMT DEF TypeOK, WaitWifiClearBits
<1> QED BY <1>3, <1>4, <1>5 DEF TypeOK

\* Action SleepRelease keeps every variable within its type.
LEMMA SleepReleaseTypes == ASSUME TypeOK, SleepRelease PROVE TypeOK'
<1>1. queue \in Queue
  BY DEF TypeOK
<1>2. FlagTypes'
  BY <1>1, StopSmartTypes, SMT
    DEF TypeOK, FlagTypes, FullRelease, SleepRelease, alertVars, bootVars,
      linkVars, modeVars, muteVars, rtcVars
<1>3. ValueTypes'
  BY <1>1, StopSmartTypes, SMT
    DEF TypeOK, ValueTypes, FullRelease, SleepRelease, alertVars, bootVars,
      envVars, linkVars, modeVars, rtcVars, taskVars, States, Modes, BootModes
<1>4. queue' \in Queue
  BY <1>1, StopSmartTypes, SMT DEF TypeOK, FullRelease, SleepRelease
<1> QED BY <1>2, <1>3, <1>4 DEF TypeOK

\* Action IgniteAudio keeps every variable within its type.
LEMMA IgniteAudioTypes == ASSUME TypeOK, IgniteAudio PROVE TypeOK'
<1>1. queue \in Queue
  BY DEF TypeOK
<1>2. media' \in BOOLEAN
  BY Zenon DEF IgniteAudio, TypeOK, FlagTypes
<1>3. FlagTypes'
  BY <1>1, <1>2, SMT
    DEF TypeOK, FlagTypes, IgniteAudio, alertVars, bleVars, bootVars, linkVars,
      modeVars, muteVars
<1>4. ValueTypes'
  BY <1>1, SMT
    DEF TypeOK, ValueTypes, IgniteAudio, alertVars, bleVars, bootVars, envVars,
      linkVars, modeVars, taskVars, States, Modes, BootModes
<1>5. queue' \in Queue
  BY <1>1, PostTypes, EventNames, SMT DEF TypeOK, IgniteAudio
<1> QED BY <1>3, <1>4, <1>5 DEF TypeOK

\* Action IgniteStart keeps every variable within its type.
LEMMA IgniteStartTypes == ASSUME TypeOK, IgniteStart PROVE TypeOK'
<1>1. queue \in Queue
  BY DEF TypeOK
<1>2. FlagTypes'
  BY <1>1, StopSmartTypes, SMT
    DEF TypeOK, FlagTypes, IgniteStart, alertVars, bootVars, linkVars, muteVars
<1>3. ValueTypes'
  BY <1>1, StopSmartTypes, SMT
    DEF TypeOK, ValueTypes, BleAfterStop, Disown, IgniteStart, alertVars,
      bootVars, envVars, linkVars, taskVars, States, Modes, BootModes
<1>4. queue' \in Queue
  BY <1>1, StopSmartTypes, SMT DEF TypeOK, IgniteStart
<1> QED BY <1>2, <1>3, <1>4 DEF TypeOK

\* Action IgniteRecover keeps every variable within its type.
LEMMA IgniteRecoverTypes == ASSUME TypeOK, IgniteRecover PROVE TypeOK'
<1>1. queue \in Queue
  BY DEF TypeOK
<1> QED BY <1>1, EnterSleepTypes, EnterWaitWifiTypes, SMT DEF IgniteRecover

----------------------------------------------------------------------------
(* Tasks of orchestrator_tasks.c *)

\* Action PrepareClean keeps every variable within its type.
LEMMA PrepareCleanTypes == ASSUME TypeOK, PrepareClean PROVE TypeOK'
<1>1. queue \in Queue
  BY DEF TypeOK
<1>2. FlagTypes'
  BY <1>1, StopSmartTypes, SMT
    DEF TypeOK, FlagTypes, FullRelease, PrepareClean, alertVars, bootVars,
      linkVars, modeVars, orchVars, otherVars, rtcVars
<1>3. ValueTypes'
  BY <1>1, StopSmartTypes, SMT
    DEF TypeOK, ValueTypes, FullRelease, PrepareClean, alertVars, bootVars,
      envVars, linkVars, modeVars, orchVars, otherVars, rtcVars, States, Modes,
      BootModes
<1>4. queue' \in Queue
  BY <1>1, StopSmartTypes, SMT DEF TypeOK, FullRelease, PrepareClean
<1> QED BY <1>2, <1>3, <1>4 DEF TypeOK

\* Action PrepareBoot keeps every variable within its type.
LEMMA PrepareBootTypes == ASSUME TypeOK, PrepareBoot PROVE TypeOK'
<1>1. queue \in Queue
  BY DEF TypeOK
<1>2. FlagTypes'
  BY <1>1, StopSmartTypes, SMT
    DEF TypeOK, FlagTypes, FullRelease, PrepareBoot, alertVars, bootVars,
      linkVars, modeVars, orchVars, otherVars, rtcVars
<1>3. ValueTypes'
  BY <1>1, StopSmartTypes, SMT
    DEF TypeOK, ValueTypes, FullRelease, PrepareBoot, alertVars, bootVars,
      envVars, linkVars, modeVars, orchVars, otherVars, rtcVars, States, Modes,
      BootModes
<1>4. queue' \in Queue
  BY <1>1, StopSmartTypes, SMT DEF TypeOK, FullRelease, PrepareBoot
<1> QED BY <1>2, <1>3, <1>4 DEF TypeOK

\* Action PrepareScan keeps every variable within its type.
LEMMA PrepareScanTypes == ASSUME TypeOK, PrepareScan PROVE TypeOK'
<1>1. queue \in Queue
  BY DEF TypeOK
<1>2. FlagTypes'
  BY <1>1, StopSmartTypes, SMT
    DEF TypeOK, FlagTypes, FullRelease, PrepareScan, alertVars, bleVars, bootVars,
      linkVars, modeVars, orchVars, otherVars, rtcVars
<1>3. ValueTypes'
  BY <1>1, StopSmartTypes, SMT
    DEF TypeOK, ValueTypes, FullRelease, Posted, PrepareScan, alertVars, bleVars,
      bootVars, envVars, linkVars, modeVars, orchVars, otherVars, rtcVars,
      States, Modes, BootModes
<1>4. queue' \in Queue
  BY <1>1, PostTypes, StopSmartTypes, EventNames, SMT
    DEF TypeOK, FullRelease, PrepareScan
<1> QED BY <1>2, <1>3, <1>4 DEF TypeOK

\* Action PrepareBusy keeps every variable within its type.
LEMMA PrepareBusyTypes == ASSUME TypeOK, PrepareBusy PROVE TypeOK'
<1>1. queue \in Queue
  BY DEF TypeOK
<1>2. FlagTypes'
  BY <1>1, SMT
    DEF TypeOK, FlagTypes, PrepareBusy, alertVars, bleVars, bootVars, linkVars,
      modeVars, orchVars, otherVars, rtcVars
<1>3. ValueTypes'
  BY <1>1, SMT
    DEF TypeOK, ValueTypes, Posted, PrepareBusy, alertVars, bleVars, bootVars,
      envVars, linkVars, modeVars, orchVars, otherVars, rtcVars, States, Modes,
      BootModes
<1>4. queue' \in Queue
  BY <1>1, PostTypes, EventNames, SMT DEF TypeOK, PrepareBusy
<1> QED BY <1>2, <1>3, <1>4 DEF TypeOK

\* Action ReleaseRun keeps every variable within its type.
LEMMA ReleaseRunTypes == ASSUME TypeOK, ReleaseRun PROVE TypeOK'
<1>1. queue \in Queue
  BY DEF TypeOK
<1>2. FlagTypes'
  BY <1>1, StopSmartTypes, SMT
    DEF TypeOK, FlagTypes, FullRelease, ReleaseRun, alertVars, bootVars, linkVars,
      modeVars, orchVars, otherVars, rtcVars
<1>3. ValueTypes'
  BY <1>1, StopSmartTypes, SMT
    DEF TypeOK, ValueTypes, FullRelease, ReleaseRun, alertVars, bootVars, envVars,
      linkVars, modeVars, orchVars, otherVars, rtcVars, States, Modes, BootModes
<1>4. queue' \in Queue
  BY <1>1, StopSmartTypes, SMT DEF TypeOK, FullRelease, ReleaseRun
<1> QED BY <1>2, <1>3, <1>4 DEF TypeOK

\* Action ReleaseReport keeps every variable within its type.
LEMMA ReleaseReportTypes == ASSUME TypeOK, ReleaseReport PROVE TypeOK'
<1>1. queue \in Queue
  BY DEF TypeOK
<1>2. FlagTypes'
  BY <1>1, SMT
    DEF TypeOK, FlagTypes, ReleaseReport, alertVars, bleVars, bootVars, linkVars,
      modeVars, orchVars, otherVars, rtcVars
<1>3. ValueTypes'
  BY <1>1, SMT
    DEF TypeOK, ValueTypes, Posted, ReleaseReport, alertVars, bleVars, bootVars,
      envVars, linkVars, modeVars, orchVars, otherVars, rtcVars, States, Modes,
      BootModes
<1>4. queue' \in Queue
  BY <1>1, PostTypes, EventNames, SMT DEF TypeOK, ReleaseReport
<1> QED BY <1>2, <1>3, <1>4 DEF TypeOK

\* Action StopClose keeps every variable within its type.
LEMMA StopCloseTypes == ASSUME TypeOK, StopClose PROVE TypeOK'
<1>1. queue \in Queue
  BY DEF TypeOK
<1>2. FlagTypes'
  BY <1>1, SMT
    DEF TypeOK, FlagTypes, StopClose, alertVars, bleVars, bootVars, linkVars,
      modeVars, orchVars, otherVars
<1>3. ValueTypes'
  BY <1>1, SMT
    DEF TypeOK, ValueTypes, StopClose, alertVars, bleVars, bootVars, envVars,
      linkVars, modeVars, orchVars, otherVars, States, Modes, BootModes
<1>4. queue' \in Queue
  BY <1>1, SMT DEF TypeOK, StopClose
<1> QED BY <1>2, <1>3, <1>4 DEF TypeOK

\* Action StopTeardown keeps every variable within its type.
LEMMA StopTeardownTypes == ASSUME TypeOK, StopTeardown PROVE TypeOK'
<1>1. queue \in Queue
  BY DEF TypeOK
<1>2. FlagTypes'
  BY <1>1, TeardownFlags, SMT
    DEF TypeOK, FlagTypes, StopTeardown, alertVars, bleVars, bootVars, linkVars,
      modeVars, orchVars, otherVars
<1>3. ValueTypes'
  BY <1>1, SMT
    DEF TypeOK, ValueTypes, Posted, StopTeardown, alertVars, bleVars, bootVars,
      envVars, linkVars, modeVars, orchVars, otherVars, States, Modes, BootModes
<1>4. queue' \in Queue
  BY <1>1, PostTypes, EventNames, SMT DEF TypeOK, StopTeardown
<1> QED BY <1>2, <1>3, <1>4 DEF TypeOK

\* Action TaskExit keeps every variable within its type.
LEMMA TaskExitTypes == ASSUME TypeOK, TaskExit PROVE TypeOK'
<1>1. queue \in Queue
  BY DEF TypeOK
<1>2. FlagTypes'
  BY <1>1, SMT
    DEF TypeOK, FlagTypes, TaskExit, alertVars, bleVars, bootVars, linkVars,
      modeVars, orchVars, otherVars, rtcVars
<1>3. ValueTypes'
  BY <1>1, SMT
    DEF TypeOK, ValueTypes, TaskExit, alertVars, bleVars, bootVars, envVars,
      linkVars, modeVars, orchVars, otherVars, rtcVars, States, Modes, BootModes
<1>4. queue' \in Queue
  BY <1>1, SMT DEF TypeOK, TaskExit
<1> QED BY <1>2, <1>3, <1>4 DEF TypeOK

\* Action DiscoveryStart keeps every variable within its type.
LEMMA DiscoveryStartTypes == ASSUME TypeOK, DiscoveryStart PROVE TypeOK'
<1>1. queue \in Queue
  BY DEF TypeOK
<1>2. FlagTypes'
  BY <1>1, SMT
    DEF TypeOK, FlagTypes, DiscoveryStart, alertVars, bootVars, linkVars,
      modeVars, orchVars, otherVars, rtcVars
<1>3. ValueTypes'
  BY <1>1, SMT
    DEF TypeOK, ValueTypes, DiscoveryStart, alertVars, bootVars, envVars,
      linkVars, modeVars, orchVars, otherVars, rtcVars, States, Modes, BootModes
<1>4. queue' \in Queue
  BY <1>1, SMT DEF TypeOK, DiscoveryStart
<1> QED BY <1>2, <1>3, <1>4 DEF TypeOK

\* Action DiscoveryStop keeps every variable within its type.
LEMMA DiscoveryStopTypes == ASSUME TypeOK, DiscoveryStop PROVE TypeOK'
<1>1. queue \in Queue
  BY DEF TypeOK
<1>2. FlagTypes'
  BY <1>1, StopSmartTypes, SMT
    DEF TypeOK, FlagTypes, DiscoveryStop, alertVars, bootVars, linkVars, modeVars,
      orchVars, otherVars, rtcVars
<1>3. ValueTypes'
  BY <1>1, StopSmartTypes, SMT
    DEF TypeOK, ValueTypes, BleAfterStop, DiscoveryStop, Disown, alertVars,
      bootVars, envVars, linkVars, modeVars, orchVars, otherVars, rtcVars,
      States, Modes, BootModes
<1>4. queue' \in Queue
  BY <1>1, StopSmartTypes, SMT DEF TypeOK, DiscoveryStop
<1> QED BY <1>2, <1>3, <1>4 DEF TypeOK

\* Action DiscoveryPost keeps every variable within its type.
LEMMA DiscoveryPostTypes == ASSUME TypeOK, DiscoveryPost PROVE TypeOK'
<1>1. queue \in Queue
  BY DEF TypeOK
<1>2. FlagTypes'
  BY <1>1, SMT
    DEF TypeOK, FlagTypes, DiscoveryPost, alertVars, bleVars, bootVars, linkVars,
      modeVars, orchVars, otherVars, rtcVars
<1>3. ValueTypes'
  BY <1>1, SMT
    DEF TypeOK, ValueTypes, DiscoveryPost, alertVars, bleVars, bootVars, envVars,
      linkVars, modeVars, orchVars, otherVars, rtcVars, States, Modes, BootModes
<1>4. queue' \in Queue
  BY <1>1, PostTypes, EventNames, SMT DEF TypeOK, DiscoveryPost
<1> QED BY <1>2, <1>3, <1>4 DEF TypeOK

\* Action AlertDone keeps every variable within its type.
LEMMA AlertDoneTypes == ASSUME TypeOK, NEW ts \in alertTasks, AlertDone(ts) PROVE TypeOK'
<1>1. queue \in Queue
  BY DEF TypeOK
<1>2. alertHandle' \in BOOLEAN
  BY Zenon DEF AlertDone
<1>3. FlagTypes'
  BY <1>1, <1>2, SMT
    DEF TypeOK, FlagTypes, AlertDone, bleVars, bootVars, linkVars, modeVars,
      muteVars, orchVars, rtcVars
<1>4. ValueTypes'
  BY <1>1, SMT
    DEF TypeOK, ValueTypes, AlertDone, bleVars, bootVars, envVars, linkVars,
      modeVars, orchVars, rtcVars, taskVars, States, Modes, BootModes
<1>5. queue' \in Queue
  <2>1. PICK r \in AlertResults : queue' = Enqueue(queue, [type |-> r, ts |-> ts])
    BY DEF AlertDone
  <2>2. ts \in Nat
    BY DEF TypeOK, ValueTypes
  <2>3. [type |-> r, ts |-> ts] \in Event
    BY <2>2, AlertEvent
  <2> QED BY <1>1, <2>1, <2>3, EnqueueQueue
<1> QED BY <1>3, <1>4, <1>5 DEF TypeOK

----------------------------------------------------------------------------
(* The smart BLE task *)

\* Action SmartBegin keeps every variable within its type.
LEMMA SmartBeginTypes == ASSUME TypeOK, SmartBegin PROVE TypeOK'
<1>1. queue \in Queue
  BY DEF TypeOK
<1>2. FlagTypes'
  BY <1>1, SMT
    DEF TypeOK, FlagTypes, SmartBegin, alertVars, bootVars, linkVars, modeVars,
      orchVars, otherVars, rtcVars
<1>3. ValueTypes'
  BY <1>1, SMT
    DEF TypeOK, ValueTypes, Disown, SmartBegin, alertVars, bootVars, envVars,
      linkVars, modeVars, orchVars, otherVars, rtcVars, taskVars, States, Modes,
      BootModes
<1>4. queue' \in Queue
  BY <1>1, PostTypes, EventNames, SMT DEF TypeOK, SmartBegin
<1> QED BY <1>2, <1>3, <1>4 DEF TypeOK

\* Action SmartVerdict keeps every variable within its type.
LEMMA SmartVerdictTypes == ASSUME TypeOK, SmartVerdict PROVE TypeOK'
<1>1. queue \in Queue
  BY DEF TypeOK
<1>2. FlagTypes'
  BY <1>1, SMT
    DEF TypeOK, FlagTypes, SmartVerdict, alertVars, bootVars, linkVars, modeVars,
      orchVars, otherVars, rtcVars
<1>3. ValueTypes'
  BY <1>1, SMT
    DEF TypeOK, ValueTypes, Disown, SmartVerdict, alertVars, bootVars, envVars,
      linkVars, modeVars, orchVars, otherVars, rtcVars, taskVars, States, Modes,
      BootModes
<1>4. queue' \in Queue
  BY <1>1, VerdictTypes, SMT DEF TypeOK, SmartVerdict
<1> QED BY <1>2, <1>3, <1>4 DEF TypeOK

\* Action SmartOrphanEnds keeps every variable within its type.
LEMMA SmartOrphanEndsTypes == ASSUME TypeOK, SmartOrphanEnds PROVE TypeOK'
<1>1. queue \in Queue
  BY DEF TypeOK
<1>2. FlagTypes'
  BY <1>1, SMT
    DEF TypeOK, FlagTypes, SmartOrphanEnds, alertVars, bootVars, linkVars,
      modeVars, orchVars, otherVars, rtcVars
<1>3. ValueTypes'
  BY <1>1, SMT
    DEF TypeOK, ValueTypes, Disown, SmartOrphanEnds, alertVars, bootVars, envVars,
      linkVars, modeVars, orchVars, otherVars, rtcVars, taskVars, States, Modes,
      BootModes
<1>4. queue' \in Queue
  BY <1>1, VerdictTypes, SMT DEF TypeOK, SmartOrphanEnds
<1> QED BY <1>2, <1>3, <1>4 DEF TypeOK

\* Action SmartDiscovered keeps every variable within its type.
LEMMA SmartDiscoveredTypes == ASSUME TypeOK, SmartDiscovered PROVE TypeOK'
<1>1. queue \in Queue
  BY DEF TypeOK
<1>2. FlagTypes'
  BY <1>1, SMT
    DEF TypeOK, FlagTypes, SmartDiscovered, alertVars, bootVars, linkVars,
      modeVars, orchVars, otherVars, rtcVars
<1>3. ValueTypes'
  BY <1>1, SMT
    DEF TypeOK, ValueTypes, SmartDiscovered, alertVars, bootVars, envVars,
      linkVars, modeVars, orchVars, otherVars, rtcVars, taskVars, States, Modes,
      BootModes
<1>4. queue' \in Queue
  BY <1>1, SMT DEF TypeOK, SmartDiscovered
<1> QED BY <1>2, <1>3, <1>4 DEF TypeOK

----------------------------------------------------------------------------
(* Network, WebRTC session, mute handler, kill switch *)

\* Action LinkUp keeps every variable within its type.
LEMMA LinkUpTypes == ASSUME TypeOK, LinkUp PROVE TypeOK'
<1>1. queue \in Queue
  BY DEF TypeOK
<1>2. link' \in BOOLEAN /\ wifiBit' \in BOOLEAN
  BY Zenon DEF LinkUp
<1>3. FlagTypes'
  BY <1>1, <1>2, SMT
    DEF TypeOK, FlagTypes, LinkUp, alertVars, bleVars, bootVars, modeVars,
      muteVars, orchVars, rtcVars
<1>4. ValueTypes'
  BY <1>1, SMT
    DEF TypeOK, ValueTypes, LinkUp, alertVars, bleVars, bootVars, envVars,
      modeVars, orchVars, rtcVars, taskVars, States, Modes, BootModes
<1>5. queue' \in Queue
  BY <1>1, PostTypes, EventNames, SMT DEF TypeOK, LinkUp
<1> QED BY <1>3, <1>4, <1>5 DEF TypeOK

\* Action MigrationTakesBit keeps every variable within its type.
LEMMA MigrationTakesBitTypes == ASSUME TypeOK, MigrationTakesBit PROVE TypeOK'
<1>1. queue' \in Queue
  BY DEF TypeOK, MigrationTakesBit
<1>2. link' \in BOOLEAN /\ wifiBit' \in BOOLEAN
  BY Zenon DEF TypeOK, FlagTypes, MigrationTakesBit
<1>3. FlagTypes'
  BY <1>2, SMT
    DEF TypeOK, FlagTypes, MigrationTakesBit, alertVars, bleVars, bootVars, modeVars,
      muteVars, orchVars, rtcVars
<1>4. ValueTypes'
  BY SMT
    DEF TypeOK, ValueTypes, MigrationTakesBit, alertVars, bleVars, bootVars, envVars,
      modeVars, orchVars, rtcVars, taskVars, States, Modes, BootModes
<1> QED BY <1>1, <1>3, <1>4 DEF TypeOK

\* Action LinkDown keeps every variable within its type.
LEMMA LinkDownTypes == ASSUME TypeOK, LinkDown PROVE TypeOK'
<1>1. queue \in Queue
  BY DEF TypeOK
<1>2. link' \in BOOLEAN /\ wifiBit' \in BOOLEAN
  BY Zenon DEF LinkDown
<1>3. FlagTypes'
  BY <1>1, <1>2, SMT
    DEF TypeOK, FlagTypes, LinkDown, alertVars, bleVars, bootVars, modeVars,
      muteVars, orchVars, rtcVars
<1>4. ValueTypes'
  BY <1>1, SMT
    DEF TypeOK, ValueTypes, LinkDown, alertVars, bleVars, bootVars, modeVars,
      orchVars, rtcVars, taskVars, States, Modes, BootModes
<1>5. queue' \in Queue
  BY <1>1, PostTypes, EventNames, SMT DEF TypeOK, LinkDown
<1> QED BY <1>3, <1>4, <1>5 DEF TypeOK

\* Action RtcConnected keeps every variable within its type.
LEMMA RtcConnectedTypes == ASSUME TypeOK, RtcConnected PROVE TypeOK'
<1>1. queue \in Queue
  BY DEF TypeOK
<1>2. FlagTypes'
  BY <1>1, SMT
    DEF TypeOK, FlagTypes, RtcConnected, SessionFrame, alertVars, bleVars,
      bootVars, linkVars, modeVars, orchVars, otherVars
<1>3. ValueTypes'
  BY <1>1, SMT
    DEF TypeOK, ValueTypes, RtcConnected, SessionFrame, alertVars, bleVars,
      bootVars, envVars, linkVars, modeVars, orchVars, otherVars, taskVars,
      States, Modes, BootModes
<1>4. queue' \in Queue
  BY <1>1, PostTypes, EventNames, SMT DEF TypeOK, RtcConnected, SessionFrame
<1> QED BY <1>2, <1>3, <1>4 DEF TypeOK

\* Action RtcDown keeps every variable within its type.
LEMMA RtcDownTypes == ASSUME TypeOK, RtcDown PROVE TypeOK'
<1>1. queue \in Queue
  BY DEF TypeOK
<1>2. FlagTypes'
  BY <1>1, SMT
    DEF TypeOK, FlagTypes, RtcDown, SessionFrame, alertVars, bleVars, bootVars,
      linkVars, modeVars, orchVars, otherVars
<1>3. ValueTypes'
  BY <1>1, SMT
    DEF TypeOK, ValueTypes, RtcDown, SessionFrame, alertVars, bleVars, bootVars,
      envVars, linkVars, modeVars, orchVars, otherVars, taskVars, States, Modes,
      BootModes
<1>4. queue' \in Queue
  BY <1>1, PostTypes, EventNames, SMT DEF TypeOK, RtcDown, SessionFrame
<1> QED BY <1>2, <1>3, <1>4 DEF TypeOK

\* Action RtcSpoken keeps every variable within its type.
LEMMA RtcSpokenTypes == ASSUME TypeOK, RtcSpoken PROVE TypeOK'
<1>1. queue \in Queue
  BY DEF TypeOK
<1>2. FlagTypes'
  BY <1>1, SMT
    DEF TypeOK, FlagTypes, RtcSpoken, SessionFrame, alertVars, bleVars, bootVars,
      linkVars, modeVars, orchVars, otherVars
<1>3. ValueTypes'
  BY <1>1, SMT
    DEF TypeOK, ValueTypes, RtcSpoken, SessionFrame, alertVars, bleVars, bootVars,
      envVars, linkVars, modeVars, orchVars, otherVars, taskVars, States, Modes,
      BootModes
<1>4. queue' \in Queue
  BY <1>1, PostTypes, EventNames, SMT DEF TypeOK, RtcSpoken, SessionFrame
<1> QED BY <1>2, <1>3, <1>4 DEF TypeOK

\* Action RtcFatal keeps every variable within its type.
LEMMA RtcFatalTypes == ASSUME TypeOK, RtcFatal PROVE TypeOK'
<1>1. queue \in Queue
  BY DEF TypeOK
<1>2. FlagTypes'
  BY <1>1, SMT
    DEF TypeOK, FlagTypes, RtcFatal, alertVars, bleVars, bootVars, linkVars,
      modeVars, muteVars, orchVars, rtcVars
<1>3. ValueTypes'
  BY <1>1, SMT
    DEF TypeOK, ValueTypes, RtcFatal, alertVars, bleVars, bootVars, linkVars,
      modeVars, orchVars, rtcVars, taskVars, States, Modes, BootModes
<1>4. queue' \in Queue
  BY <1>1, PostTypes, EventNames, SMT DEF TypeOK, RtcFatal
<1> QED BY <1>2, <1>3, <1>4 DEF TypeOK

\* Action MuteButton keeps every variable within its type.
LEMMA MuteButtonTypes == ASSUME TypeOK, MuteButton PROVE TypeOK'
<1>1. queue \in Queue
  BY DEF TypeOK
<1>2. FlagTypes'
  BY <1>1, SMT
    DEF TypeOK, FlagTypes, MuteButton, MuteFrame, alertVars, bleVars, bootVars,
      linkVars, modeVars, orchVars, rtcVars
<1>3. ValueTypes'
  BY <1>1, SMT
    DEF TypeOK, ValueTypes, MuteButton, MuteFrame, alertVars, bleVars, bootVars,
      linkVars, modeVars, orchVars, rtcVars, taskVars, States, Modes, BootModes
<1>4. queue' \in Queue
  BY <1>1, PostTypes, EventNames, SMT DEF TypeOK, MuteButton, MuteFrame
<1> QED BY <1>2, <1>3, <1>4 DEF TypeOK

\* Action MuteRequest keeps every variable within its type.
LEMMA MuteRequestTypes ==
    ASSUME TypeOK, NEW mute \in BOOLEAN, MuteRequest(mute)
    PROVE  TypeOK'
<1>1. queue \in Queue
  BY DEF TypeOK
<1>2. FlagTypes'
  BY <1>1, SMT
    DEF TypeOK, FlagTypes, MuteFrame, MuteRequest, alertVars, bleVars, bootVars,
      linkVars, modeVars, orchVars, rtcVars
<1>3. ValueTypes'
  BY <1>1, SMT
    DEF TypeOK, ValueTypes, MuteFrame, MuteRequest, alertVars, bleVars, bootVars,
      linkVars, modeVars, orchVars, rtcVars, taskVars, States, Modes, BootModes
<1>4. queue' \in Queue
  BY <1>1, PostTypes, EventNames, SMT DEF TypeOK, MuteFrame, MuteRequest
<1> QED BY <1>2, <1>3, <1>4 DEF TypeOK

\* Action IdleTimerExpires keeps every variable within its type.
LEMMA IdleTimerExpiresTypes == ASSUME TypeOK, IdleTimerExpires PROVE TypeOK'
<1>1. queue \in Queue
  BY DEF TypeOK
<1>2. idleTimer' \in BOOLEAN
  BY Zenon DEF IdleTimerExpires
<1>3. FlagTypes'
  BY <1>1, <1>2, SMT
    DEF TypeOK, FlagTypes, IdleTimerExpires, MuteFrame, alertVars, bleVars,
      bootVars, linkVars, modeVars, orchVars, rtcVars
<1>4. ValueTypes'
  BY <1>1, SMT
    DEF TypeOK, ValueTypes, IdleTimerExpires, MuteFrame, alertVars, bleVars,
      bootVars, linkVars, modeVars, orchVars, rtcVars, taskVars, States, Modes,
      BootModes
<1>5. queue' \in Queue
  BY <1>1, PostTypes, EventNames, SMT DEF TypeOK, IdleTimerExpires, MuteFrame
<1> QED BY <1>3, <1>4, <1>5 DEF TypeOK

\* Action FatalReboot keeps every variable within its type.
LEMMA FatalRebootTypes == ASSUME TypeOK, FatalReboot PROVE TypeOK'
  BY RestartTypes DEF FatalReboot, TypeOK, ValueTypes, BootModes

\* Action KillSwitch keeps every variable within its type.
LEMMA KillSwitchTypes == ASSUME TypeOK, KillSwitch PROVE TypeOK'
  BY RestartTypes DEF KillSwitch, TypeOK, ValueTypes, BootModes

\* Action PowerCycle keeps every variable within its type.
LEMMA PowerCycleTypes == ASSUME TypeOK, PowerCycle PROVE TypeOK'
  BY RestartTypes DEF PowerCycle, TypeOK, ValueTypes, BootModes

----------------------------------------------------------------------------
(* The invariant *)

\* Power-on.
LEMMA InitTypes == Init => TypeOK
<1> SUFFICES ASSUME Init PROVE TypeOK
  OBVIOUS
<1>1. FlagTypes
  BY Zenon DEF Init, FlagTypes
<1>2. ValueTypes
  BY SMT DEF Init, ValueTypes, States, Modes, BootModes
<1> QED BY <1>1, <1>2, EmptyQueue DEF Init, TypeOK

\* Every step of app_startup_orchestrator_task preserves the types.
LEMMA OrchestratorStepTypes == ASSUME TypeOK, OrchestratorStep PROVE TypeOK'
  BY WifiLostTypes, WifiReadyTypes, PreparingReadyTypes, PreparingBusyTypes,
      ValidatingPresentTypes, ValidatingDiscoveredTypes,
      ValidatingRejectedTypes, ValidatingBusyTypes, ReleasingFailedTypes,
      ReleasingCompleteTypes, AlertOverTypes, IgnitingConnectedTypes,
      SessionLostTypes, StoppingStoppedTypes, ActiveMuteTypes, ActiveIdleTypes,
      ActiveAutoSleepTypes, ActiveVigilanteOverTypes, FatalErrorTypes,
      IgnoreTypes, WaitWifiTeardownTypes, WaitWifiClearBitsTypes,
      SleepReleaseTypes, IgniteAudioTypes, IgniteStartTypes, IgniteRecoverTypes,
      Zenon
    DEF OrchestratorStep

\* So does every step of the tasks it starts.
LEMMA TaskTypes ==
    ASSUME TypeOK,
           \/ PrepareStep \/ ReleaseStep \/ StopStep \/ TaskExit \/ DiscoveryStep
           \/ SmartStep \/ \E ts \in alertTasks : AlertDone(ts)
    PROVE  TypeOK'
  BY PrepareCleanTypes, PrepareBootTypes, PrepareScanTypes, PrepareBusyTypes,
      ReleaseRunTypes, ReleaseReportTypes, StopCloseTypes, StopTeardownTypes,
      TaskExitTypes, DiscoveryStartTypes, DiscoveryStopTypes,
      DiscoveryPostTypes, AlertDoneTypes, SmartBeginTypes, SmartVerdictTypes,
      SmartOrphanEndsTypes, SmartDiscoveredTypes, Zenon
    DEF PrepareStep, ReleaseStep, StopStep, DiscoveryStep, SmartStep

\* So does every callback, timer, button and reset.
LEMMA EnvironmentTypes == ASSUME TypeOK, Environment PROVE TypeOK'
  BY LinkUpTypes, LinkDownTypes, MigrationTakesBitTypes, RtcConnectedTypes, RtcDownTypes,
      RtcSpokenTypes, RtcFatalTypes, MuteButtonTypes, MuteRequestTypes,
      IdleTimerExpiresTypes, FatalRebootTypes, KillSwitchTypes, PowerCycleTypes,
      Zenon
    DEF Environment

\* So does a stuttering step.
LEMMA StutterTypes == ASSUME TypeOK, UNCHANGED vars PROVE TypeOK'
<1>1. FlagTypes'
  BY SMT DEF TypeOK, FlagTypes, vars, alertVars, modeVars, bleVars, rtcVars, muteVars,
             linkVars, bootVars
<1>2. ValueTypes'
  BY SMT DEF TypeOK, ValueTypes, vars, alertVars, modeVars, taskVars, bleVars, rtcVars,
             linkVars, bootVars, envVars
<1> QED BY <1>1, <1>2 DEF TypeOK, vars

(***************************************************************************)
(* The type invariant, for every queue depth and every bound: no handler,  *)
(* task or callback leaves a variable without a meaning, and the queue     *)
(* never holds more than its depth, however many producers post.           *)
(***************************************************************************)
THEOREM TypeCorrect == Spec => []TypeOK
<1>1. TypeOK /\ [Next]_vars => TypeOK'
  BY OrchestratorStepTypes, TaskTypes, EnvironmentTypes, StutterTypes, Zenon DEF Next
<1> QED BY InitTypes, <1>1, PTL DEF Spec
==============================================================================
