---------------------------- MODULE WifiConnect ----------------------------
(***************************************************************************)
(* Wi-Fi connection of the Camila firmware: network.c and                  *)
(* wifi_session_state.c.                                                   *)
(*                                                                         *)
(* Two tasks share the statics of network.c.  The connector is app_main in *)
(* network_wifi_connect_main: it tries every stored credential a few times *)
(* and returns true or false.  The handler is the default event loop task  *)
(* in event_handler: it takes the driver's events in order, keeps          *)
(* network_connected and the name of the network, and reconnects once      *)
(* automatic reconnection is enabled.  They meet in an event group.        *)
(*                                                                         *)
(* The Wi-Fi driver and the access points are outside: they accept or      *)
(* refuse a call, obtain an address or not, and lose it whenever they      *)
(* like.  Every wait of the connector may time out at once.                *)
(***************************************************************************)
EXTENDS Naturals, Sequences

CONSTANTS MaxCreds,     \* WIFI_MAX_CREDS: the built-in credential and three from NVS
          RetryCount    \* WIFI_CONNECT_RETRY_COUNT

ASSUME CredsAssumption == MaxCreds \in Nat \ {0}
ASSUME RetryAssumption == RetryCount \in Nat \ {0}

VARIABLES
    wc,         \* where the connector is
    numCreds,   \* num_creds: how many credentials it found
    cred,       \* i: the credential it tries
    attempt,    \* attempt
    bits,       \* s_wifi_events
    started,    \* s_wifi_started
    connected,  \* network_connected, also what the application was last told
    auto,       \* s_auto_reconnect_enabled
    manual,     \* s_manual_disconnect
    attemptSsid,\* s_attempt_ssid
    ssid,       \* connected_ssid of wifi_session_state.c
    handler,    \* where the event handler is
    was,        \* was_connected of the disconnection being handled
    lostSsid,   \* ssid of the disconnection being handled
    drv,        \* the driver: off, idle, associating or with an address
    config,     \* the network esp_wifi_set_config chose
    target,     \* the network the driver is associating or associated with
    events      \* the queue of the default event loop

loopVars == <<numCreds, cred, attempt>>
connectorVars == <<wc, loopVars>>
flagVars == <<started, connected, auto, manual>>
nameVars == <<attemptSsid, ssid>>
handlerVars == <<handler, was, lostSsid>>
driverVars == <<drv, config, target, events>>
vars == <<connectorVars, bits, flagVars, nameVars, handlerVars, driverVars>>

Creds == 1..MaxCreds
NoSsid == 0
Ssids == Creds \union {NoSsid}

Started == [kind |-> "STA_START", net |-> NoSsid]
Stopped == [kind |-> "STA_STOP", net |-> NoSsid]
Disconnected(net) == [kind |-> "STA_DISCONNECTED", net |-> net]
GotIp(net) == [kind |-> "STA_GOT_IP", net |-> net]

Event == [kind : {"STA_START", "STA_STOP"}, net : {NoSsid}]
           \union [kind : {"STA_DISCONNECTED", "STA_GOT_IP"}, net : Creds]

Init ==
    /\ wc = "begin" /\ numCreds \in 0..MaxCreds /\ cred = 1 /\ attempt = 1
    /\ bits = {}
    /\ started = FALSE /\ connected = FALSE /\ auto = FALSE /\ manual = FALSE
    /\ attemptSsid = NoSsid /\ ssid = NoSsid
    /\ handler = "idle" /\ was = FALSE /\ lostSsid = NoSsid
    /\ drv = "off" /\ config = NoSsid /\ target = NoSsid /\ events = <<>>

-----------------------------------------------------------------------------
(* Calls into the driver.                                                  *)

Linked == drv \in {"joining", "ip"}

\* The association that ends when the driver leaves it is reported.
Farewell == IF Linked THEN <<Disconnected(target)>> ELSE <<>>

ConnectAccepted ==
    /\ drv # "off" /\ config # NoSsid
    /\ events' = events \o Farewell
    /\ drv' = "joining" /\ target' = config
    /\ UNCHANGED config

DriverDisconnect ==
    /\ events' = events \o Farewell
    /\ drv' = IF Linked THEN "idle" ELSE drv
    /\ UNCHANGED <<config, target>>

DriverStop ==
    /\ events' = IF drv = "off" THEN events ELSE events \o Farewell \o <<Stopped>>
    /\ drv' = "off"
    /\ UNCHANGED <<config, target>>

-----------------------------------------------------------------------------
(* The connector: network_wifi_connect_main.                               *)

\* Where the loop goes when credential i is used up.
NextCredential ==
    IF cred < numCreds
      THEN wc' = "configure" /\ cred' = cred + 1 /\ UNCHANGED attempt
      ELSE wc' = "giveUp" /\ UNCHANGED <<cred, attempt>>

\* Mutant: one attempt too many.
AttemptFailedOneMore ==
    IF attempt <= RetryCount
      THEN wc' = "backoff" /\ UNCHANGED <<cred, attempt>>
      ELSE NextCredential

\* Where the loop goes when an attempt has failed.
AttemptFailed ==
    IF attempt < RetryCount
      THEN wc' = "backoff" /\ UNCHANGED <<cred, attempt>>
      ELSE NextCredential

Begin ==
    /\ wc = "begin"
    /\ IF numCreds = 0 THEN wc' = "failed" /\ UNCHANGED <<auto, manual, bits>>
                       ELSE wc' = "start" /\ auto' = FALSE /\ manual' = FALSE /\ bits' = {}
    /\ UNCHANGED <<loopVars, started, connected, nameVars, handlerVars, driverVars>>

StartRadio ==
    /\ wc = "start"
    /\ \/ wc' = "failed" /\ UNCHANGED driverVars      \* set_mode or start fails
       \/ /\ wc' = "waitStart"
          /\ drv' = "idle" /\ events' = Append(events, Started)
          /\ UNCHANGED <<config, target>>
    /\ UNCHANGED <<loopVars, bits, flagVars, nameVars, handlerVars>>

\* The wait returns with the bit or after five seconds.
WaitStart ==
    /\ wc = "waitStart"
    /\ wc' = IF "STARTED" \in bits THEN "configure" ELSE "checkStart"
    /\ UNCHANGED <<loopVars, bits, flagVars, nameVars, handlerVars, driverVars>>

CheckStart ==
    /\ wc = "checkStart"
    /\ IF started THEN wc' = "configure" /\ UNCHANGED driverVars
                  ELSE wc' = "failed" /\ DriverStop
    /\ UNCHANGED <<loopVars, bits, flagVars, nameVars, handlerVars>>

Configure ==
    /\ wc = "configure"
    /\ \/ wc' = "attempt" /\ attempt' = 1 /\ config' = cred /\ UNCHANGED cred
       \/ NextCredential /\ UNCHANGED config           \* set_config fails
    /\ UNCHANGED <<numCreds, bits, flagVars, nameVars, handlerVars, drv, target, events>>

StartAttempt ==
    /\ wc = "attempt"
    /\ bits' = bits \ {"GOT_IP", "DISCONNECTED"}
    /\ attemptSsid' = cred
    /\ wc' = "connect"
    /\ UNCHANGED <<loopVars, flagVars, ssid, handlerVars, driverVars>>

Connect ==
    /\ wc = "connect"
    /\ \/ ConnectAccepted /\ wc' = "wait" /\ UNCHANGED <<cred, attempt>>
       \/ UNCHANGED driverVars /\ AttemptFailed        \* the call returns an error
    /\ UNCHANGED <<numCreds, bits, flagVars, nameVars, handlerVars>>

\* Mutant: the wait has no timeout, as with portMAX_DELAY.
WaitForLinkForever ==
    /\ wc = "wait" /\ bits \intersect {"GOT_IP", "DISCONNECTED"} # {}
    /\ bits' = bits \ {"GOT_IP", "DISCONNECTED"}
    /\ IF "GOT_IP" \in bits /\ connected THEN wc' = "succeed" /\ UNCHANGED <<cred, attempt>>
       ELSE IF "DISCONNECTED" \in bits THEN AttemptFailed
       ELSE wc' = "abandon" /\ UNCHANGED <<cred, attempt>>
    /\ UNCHANGED <<numCreds, flagVars, nameVars, handlerVars, driverVars>>

\* The wait returns with a bit or, with none, after fifteen seconds.  The
\* network_is_connected after it is in the same step: a disconnection handled
\* between the two has the effect of one handled before.
WaitForLink ==
    /\ wc = "wait"
    /\ bits' = bits \ {"GOT_IP", "DISCONNECTED"}
    /\ IF "GOT_IP" \in bits /\ connected THEN wc' = "succeed" /\ UNCHANGED <<cred, attempt>>
       ELSE IF "DISCONNECTED" \in bits THEN AttemptFailed
       ELSE wc' = "abandon" /\ UNCHANGED <<cred, attempt>>
    /\ UNCHANGED <<numCreds, flagVars, nameVars, handlerVars, driverVars>>

Succeed ==
    /\ wc = "succeed"
    /\ wc' = "connected" /\ auto' = TRUE
    /\ UNCHANGED <<loopVars, bits, started, connected, manual, nameVars, handlerVars,
                   driverVars>>

Abandon ==
    /\ wc = "abandon"
    /\ wc' = "drain" /\ manual' = TRUE /\ DriverDisconnect
    /\ UNCHANGED <<loopVars, bits, started, connected, auto, nameVars, handlerVars>>

\* The wait for the disconnection ends with its bit or after a second.
Drain ==
    /\ wc = "drain"
    /\ bits' = bits \ {"DISCONNECTED"}
    /\ manual' = FALSE /\ AttemptFailed
    /\ UNCHANGED <<numCreds, started, connected, auto, nameVars, handlerVars, driverVars>>

Backoff ==
    /\ wc = "backoff"
    /\ wc' = "attempt" /\ attempt' = attempt + 1
    /\ UNCHANGED <<numCreds, cred, bits, flagVars, nameVars, handlerVars, driverVars>>

GiveUp ==
    /\ wc = "giveUp"
    /\ wc' = "stop" /\ auto' = FALSE /\ manual' = TRUE /\ DriverDisconnect
    /\ UNCHANGED <<loopVars, bits, started, connected, nameVars, handlerVars>>

StopRadio ==
    /\ wc = "stop"
    /\ wc' = "failed" /\ manual' = FALSE /\ DriverStop
    /\ UNCHANGED <<loopVars, bits, started, connected, auto, nameVars, handlerVars>>

-----------------------------------------------------------------------------
(* The event handler.                                                      *)

Receives(kind) ==
    /\ handler = "idle"
    /\ events # <<>> /\ Head(events).kind = kind
    /\ events' = Tail(events)
    /\ UNCHANGED <<drv, config, target>>

OnStart ==
    /\ Receives("STA_START")
    /\ started' = TRUE
    /\ bits' = bits \union {"STARTED"}
    /\ UNCHANGED <<connectorVars, connected, auto, manual, nameVars, handlerVars>>

\* Mutant: the bits of the stopped radio stay set.
OnStopKeepsBits ==
    /\ Receives("STA_STOP")
    /\ started' = FALSE /\ auto' = FALSE
    /\ UNCHANGED <<connectorVars, bits, connected, manual, nameVars, handlerVars>>

OnStop ==
    /\ Receives("STA_STOP")
    /\ started' = FALSE /\ auto' = FALSE
    /\ bits' = {}
    /\ UNCHANGED <<connectorVars, connected, manual, nameVars, handlerVars>>

\* Mutant: a disconnection asked for by the connector is not handled.
OnDisconnectedUnlessManual ==
    /\ Receives("STA_DISCONNECTED")
    /\ was' = connected /\ lostSsid' = Head(events).net
    /\ connected' = (connected /\ manual)
    /\ handler' = IF manual THEN "idle" ELSE "lost"
    /\ UNCHANGED <<connectorVars, bits, started, auto, manual, nameVars>>

\* network_set_connected(false) and the callback, which may block.
OnDisconnected ==
    /\ Receives("STA_DISCONNECTED")
    /\ was' = connected /\ lostSsid' = Head(events).net
    /\ connected' = FALSE
    /\ handler' = "lost"
    /\ UNCHANGED <<connectorVars, bits, started, auto, manual, nameVars>>

ReportLoss ==
    /\ handler = "lost"
    /\ ssid' = NoSsid
    /\ bits' = bits \union {"DISCONNECTED"}
    /\ handler' = "mayReconnect"
    /\ UNCHANGED <<connectorVars, flagVars, attemptSsid, was, lostSsid, driverVars>>

\* Mutant: manual disconnections are all that is excluded.
MayReconnectInLoop == was /\ ~manual

\* The condition under which the handler calls esp_wifi_connect.
MayReconnect == was /\ auto /\ ~manual

Reconnect ==
    /\ handler = "mayReconnect"
    /\ IF MayReconnect
         THEN attemptSsid' = lostSsid /\ (ConnectAccepted \/ UNCHANGED driverVars)
         ELSE UNCHANGED <<attemptSsid, driverVars>>
    /\ handler' = "idle"
    /\ UNCHANGED <<connectorVars, bits, flagVars, ssid, was, lostSsid>>

\* Mutant: without an answer of the driver the name is not set.
OnGotIpUnnamed ==
    /\ Receives("STA_GOT_IP")
    /\ \/ Linked /\ ssid' = target
       \/ drv # "ip" /\ ssid' = ssid
    /\ handler' = "gotIp"
    /\ UNCHANGED <<connectorVars, bits, flagVars, attemptSsid, was, lostSsid>>

\* esp_wifi_sta_get_ap_info answers while the driver is associated, with an
\* address or before.
OnGotIp ==
    /\ Receives("STA_GOT_IP")
    /\ \/ Linked /\ ssid' = target
       \/ drv # "ip" /\ ssid' = attemptSsid
    /\ handler' = "gotIp"
    /\ UNCHANGED <<connectorVars, bits, flagVars, attemptSsid, was, lostSsid>>

\* network_set_connected(true) and the callback.
ReportLink ==
    /\ handler = "gotIp"
    /\ connected' = TRUE
    /\ handler' = "signalLink"
    /\ UNCHANGED <<connectorVars, bits, started, auto, manual, nameVars, was, lostSsid,
                   driverVars>>

SignalLink ==
    /\ handler = "signalLink"
    /\ bits' = bits \union {"GOT_IP"}
    /\ handler' = "idle"
    /\ UNCHANGED <<connectorVars, flagVars, nameVars, was, lostSsid, driverVars>>

-----------------------------------------------------------------------------
(* The driver and the access points.                                       *)

Obtain ==
    /\ drv = "joining"
    /\ drv' = "ip" /\ events' = Append(events, GotIp(target))
    /\ UNCHANGED <<connectorVars, bits, flagVars, nameVars, handlerVars, config, target>>

\* An attempt fails, or an established link is lost.
Lose ==
    /\ Linked
    /\ drv' = "idle" /\ events' = Append(events, Disconnected(target))
    /\ UNCHANGED <<connectorVars, bits, flagVars, nameVars, handlerVars, config, target>>

-----------------------------------------------------------------------------
Connector ==
    \/ Begin \/ StartRadio \/ WaitStart \/ CheckStart \/ Configure \/ StartAttempt
    \/ Connect \/ WaitForLink \/ Succeed \/ Abandon \/ Drain \/ Backoff
    \/ GiveUp \/ StopRadio

Handler ==
    \/ OnStart \/ OnStop \/ OnDisconnected \/ ReportLoss \/ Reconnect
    \/ OnGotIp \/ ReportLink \/ SignalLink

Driver == Obtain \/ Lose

Next == Connector \/ Handler \/ Driver

Spec == Init /\ [][Next]_vars

\* Both tasks are scheduled and every wait of the connector has a timeout.
\* Nothing is assumed of the driver: it may associate forever.
FairSpec == Spec /\ WF_vars(Connector) /\ WF_vars(Handler)

-----------------------------------------------------------------------------
TypeOK ==
    /\ wc \in {"begin", "start", "waitStart", "checkStart", "configure", "attempt",
               "connect", "wait", "succeed", "abandon", "drain", "backoff", "giveUp",
               "stop", "connected", "failed"}
    /\ numCreds \in 0..MaxCreds /\ cred \in Creds
    /\ attempt \in 1..RetryCount
    /\ bits \in SUBSET {"STARTED", "GOT_IP", "DISCONNECTED"}
    /\ started \in BOOLEAN /\ connected \in BOOLEAN
    /\ auto \in BOOLEAN /\ manual \in BOOLEAN
    /\ attemptSsid \in Ssids /\ ssid \in Ssids
    /\ handler \in {"idle", "lost", "mayReconnect", "gotIp", "signalLink"}
    /\ was \in BOOLEAN /\ lostSsid \in Ssids
    /\ drv \in {"off", "idle", "joining", "ip"}
    /\ config \in Ssids /\ target \in Ssids
    /\ events \in Seq(Event)

Settled == handler = "idle" /\ events = <<>>

\* Once every event has been handled, network_connected is the truth and
\* connected_ssid names the network, whatever calls, timeouts, late events
\* and reconnections came before (network.c:237-347).
SettledBelief ==
    Settled =>
      /\ connected = (drv = "ip")
      /\ ssid = IF drv = "ip" THEN target ELSE NoSsid

\* Whoever sees network_is_connected can read the name of the network: the
\* registry and the drivers key their records by it (network.c:294, :340).
LinkHasSsid == connected => ssid # NoSsid

\* After network_wifi_connect_main has returned false the radio is off and,
\* once the events are handled, nothing remains of the attempts: main goes on
\* to provisioning with a clean slate (network.c:437-442, :523-529).
FailureIsClean ==
    wc = "failed" =>
      /\ drv = "off" /\ ~auto /\ ~manual
      /\ Settled => ~connected /\ ~started /\ bits = {} /\ ssid = NoSsid

\* The handler calls esp_wifi_connect only after the loop has succeeded: the
\* two never both drive the radio (network.c:301 against :471).
OneDriver == handler = "mayReconnect" /\ MayReconnect => wc = "connected"

\* network_wifi_connect_main returns, although an access point may neither
\* refuse nor give an address (network.c:479-510).
ConnectEnds == <>(wc \in {"connected", "failed"})
=============================================================================
