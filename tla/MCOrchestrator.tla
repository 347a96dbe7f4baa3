--------------------------- MODULE MCOrchestrator ---------------------------
(***************************************************************************)
(* The orchestrator on small instances, and what documents and comments of *)
(* the repository say of it that the code does not keep.                   *)
(***************************************************************************)
EXTENDS Orchestrator

\* README.md:45: Vigilante Mode is for a phone that is "not detected within
\* the validation window"; not for a window that was cut short by
\* ble_device_stop_smart_task, whose scan also ends in IDENTITY_REJECTED.
AlarmAfterFullWindow ==
    [][state = "VALIDATING_IDENTITY" /\ pendingMode' = "vigilante"
         => ~scanAborted]_vars

\* README.md:19: the identity is validated "before unlocking conversation",
\* also after the orchestrator has gone back to WAIT_WIFI.
OwnerBeforeConversation ==
    state = "ACTIVE" /\ activeMode = "friendly" => owner = "now"

\* app_events.h:21: WIFI_CONNECTED_BIT is the flag for "when WiFi has an IP",
\* and orchestrator_fsm.c:291 says "Wi-Fi L2 disconnected; transitioning to
\* STATE_WAIT_WIFI": after a failed ignition the device waits for Wi-Fi only
\* when it has none.  With Wi-Fi up nothing would end that wait.
RecoveryTellsLink ==
    [][IgniteRecover /\ state' = "WAIT_WIFI" => ~link]_vars

\* orchestrator_tasks.h:26: the identity validation is bounded, so the state
\* that waits for its verdict ends.
ValidatingEnds == state = "VALIDATING_IDENTITY" ~> state # "VALIDATING_IDENTITY"
=============================================================================
