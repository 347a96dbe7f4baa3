----------------------------- MODULE MotorPulse -----------------------------
(***************************************************************************)
(* Commands to BLE robots: ble_device_send_command_by_alias_or_name.       *)
(*                                                                         *)
(* A robot keeps moving until it is told to stop.  A movement therefore    *)
(* leaves a task behind that sends STOP after its duration, unless a later *)
(* command has advanced the generation; and the idle timer stops the robot *)
(* and closes its link after 3 s without a command.  Both exist once for   *)
(* all robots: one generation, one link that the timer watches.  None of   *)
(* this has a lock, and commands come from several tasks.                  *)
(*                                                                         *)
(* Robots and NimBLE are outside: a write may fail, a link may be lost at  *)
(* any moment.  Links are numbered as they are made; NimBLE uses a handle  *)
(* again.  How a connection is made (three attempts, two phases) is one    *)
(* step, which fails or hands over a link whose characteristic is known.   *)
(***************************************************************************)
EXTENDS Naturals

CONSTANTS
    Robots,
    Commanders, \* tasks that send commands
    MaxLinks,   \* how many links are made
    MaxOrders   \* how many commands are given and refreshes made

ASSUME MotorAssumption == MaxLinks \in Nat /\ MaxOrders \in Nat

VARIABLES
    radio,      \* the link NimBLE has with every robot
    entry,      \* conn_handle of the robot's entry in discovered_devices
    lastLink,   \* how many links have been made
    closing,    \* links that are being terminated
    driving,    \* robots that are moving
    order,      \* what every task is doing
    given,      \* how many there have been of these
    stopGen,    \* s_pulse_stop_generation
    pulses,     \* the tasks ble_pulse_stop_task
    watched,    \* s_ondemand_active_conn_handle
    timer,      \* the idle timer: "armed" or "off"
    idler,      \* its callback
    refresh,    \* the link the Lua worker is about to refresh
    crossed     \* history: moving robots that lost their guard to another link

robotVars == <<radio, entry, lastLink, closing, driving>>
watchVars == <<stopGen, pulses, watched, timer, idler, refresh, crossed>>
orderVars == <<order, given>>
motorVars == <<robotVars, orderVars, watchVars>>

NoLink == 0
Links == 1..MaxLinks

\* "roam" is one of the autonomous modes, "query" a sensor or the servo.
Commands == {"move", "roam", "stop", "query"}
Idle == [at |-> "away", on |-> NoLink]

MotorInit ==
    /\ radio = [r \in Robots |-> NoLink] /\ entry = [r \in Robots |-> NoLink]
    /\ lastLink = 0 /\ closing = {} /\ driving = {}
    /\ order = [c \in Commanders |-> Idle] /\ given = 0
    /\ stopGen = 0 /\ pulses = {} /\ watched = NoLink
    /\ timer = "off" /\ idler = [at |-> "waiting", on |-> NoLink] /\ refresh = NoLink
    /\ crossed = {}

Linked(h) == \E r \in Robots : radio[r] = h /\ h # NoLink

\* The robots whose guard goes to link h.
Crossing(h) == crossed \union {r \in driving : radio[r] \notin {NoLink, h}}

\* ble_ondemand_touch_activity
TouchActivity(h) ==
    /\ watched' = h /\ timer' = "armed"
    /\ crossed' = Crossing(h)

-----------------------------------------------------------------------------
(* A command. *)

Stage(c, p) == order' = [order EXCEPT ![c].at = p] /\ given' = given
Ends(c) == order' = [order EXCEPT ![c] = Idle] /\ given' = given

\* The robot's entry is looked up; a link that is up is used again.
GiveOrder(c, r, w) ==
    /\ order[c] = Idle /\ given < MaxOrders
    /\ given' = given + 1
    /\ order' = [order EXCEPT ![c] =
            [at |-> IF entry[r] = NoLink THEN "connecting" ELSE "linked",
             on |-> entry[r], robot |-> r, what |-> w]]
    /\ UNCHANGED <<robotVars, watchVars>>

Connect(c) ==
    LET r == order[c].robot
        h == lastLink + 1
    IN /\ order[c].at = "connecting" /\ radio[r] = NoLink /\ lastLink < MaxLinks
       /\ radio' = [radio EXCEPT ![r] = h] /\ entry' = [entry EXCEPT ![r] = h]
       /\ lastLink' = h
       /\ order' = [order EXCEPT ![c] = [at |-> "linked", on |-> h, robot |-> r, what |-> @.what]]
       /\ UNCHANGED <<given, closing, driving, watchVars>>

\* The entry is reset even if another command has made the link meanwhile.
ConnectFails(c) ==
    /\ order[c].at = "connecting"
    /\ entry' = [entry EXCEPT ![order[c].robot] = NoLink]
    /\ Ends(c)
    /\ UNCHANGED <<radio, lastLink, closing, driving, watchVars>>

\* send_elegoo_command_payload with a movement: the write is accepted or not.
SendMotion(c) ==
    /\ order[c].at = "linked" /\ order[c].what \in {"move", "roam"}
    /\ \/ /\ radio[order[c].robot] = order[c].on
          /\ driving' = driving \union {order[c].robot}
          /\ crossed' = crossed \ {order[c].robot}
       \/ UNCHANGED <<driving, crossed>>
    /\ Stage(c, "sent")
    /\ UNCHANGED <<radio, entry, lastLink, closing,
                   stopGen, pulses, watched, timer, idler, refresh>>

\* s_pulse_stop_generation++: after a movement, before a STOP.
NextGeneration(c) ==
    /\ \/ order[c].at = "sent" /\ order[c].what = "move"
       \/ order[c].at = "linked" /\ order[c].what = "stop"
    /\ stopGen' = stopGen + 1
    /\ crossed' = Crossing(order[c].on)
    /\ Stage(c, "counted")
    /\ UNCHANGED <<robotVars, pulses, watched, timer, idler, refresh>>

\* A STOP written to link h, by whomever.
WriteStop(h) == driving' \in {driving, driving \ {r \in Robots : radio[r] = h}}

SendStop(c) ==
    /\ order[c].at = "counted" /\ order[c].what = "stop"
    /\ WriteStop(order[c].on)
    /\ Stage(c, "sent")
    /\ UNCHANGED <<radio, entry, lastLink, closing, watchVars>>

\* mutant: the idle timer is not started
StartPulseOnly(c) ==
    /\ order[c].at = "counted" /\ order[c].what = "move"
    /\ pulses' \in {pulses,
                    pulses \union {[at |-> "waits", on |-> order[c].on, gen |-> stopGen, by |-> c]}}
    /\ Ends(c)
    /\ UNCHANGED <<robotVars, stopGen, watched, timer, idler, refresh, crossed>>

\* A movement's last step: the STOP task takes the generation as it is by now; it
\* may not be creatable.
StartPulse(c) ==
    /\ order[c].at = "counted" /\ order[c].what = "move"
    /\ pulses' \in {pulses,
                    pulses \union {[at |-> "waits", on |-> order[c].on, gen |-> stopGen, by |-> c]}}
    /\ TouchActivity(order[c].on)
    /\ Ends(c)
    /\ UNCHANGED <<robotVars, stopGen, idler, refresh>>

\* The last step of every other command.
Touch(c) ==
    /\ \/ order[c].at = "sent" /\ order[c].what \in {"roam", "stop"}
       \/ order[c].at = "linked" /\ order[c].what = "query"
    /\ TouchActivity(order[c].on)
    /\ Ends(c)
    /\ UNCHANGED <<robotVars, stopGen, pulses, idler, refresh>>

\* A sensor cannot be subscribed to: the link is given up.
QueryAborts(c) ==
    /\ order[c].at = "linked" /\ order[c].what = "query"
    /\ closing' = IF Linked(order[c].on) THEN closing \union {order[c].on} ELSE closing
    /\ Ends(c)
    /\ UNCHANGED <<radio, entry, lastLink, driving, watchVars>>

-----------------------------------------------------------------------------
(* ble_pulse_stop_task *)

PulseChecks(p) ==
    /\ p.at = "waits"
    /\ pulses' = (pulses \ {p}) \union
                 (IF p.gen = stopGen /\ Linked(p.on) THEN {[p EXCEPT !.at = "stops"]} ELSE {})
    /\ UNCHANGED <<robotVars, orderVars, stopGen, watched, timer, idler, refresh, crossed>>

PulseStops(p) ==
    /\ p.at = "stops"
    /\ WriteStop(p.on)
    /\ TouchActivity(p.on)
    /\ pulses' = pulses \ {p}
    /\ UNCHANGED <<radio, entry, lastLink, closing, orderVars, stopGen, idler, refresh>>

-----------------------------------------------------------------------------
(* ondemand_idle_timer_callback *)

IdleFires ==
    /\ timer = "armed" /\ idler.at = "waiting"
    /\ timer' = "off"
    /\ idler' = [at |-> IF Linked(watched) THEN "stopping" ELSE "clearing", on |-> watched]
    /\ UNCHANGED <<robotVars, orderVars, stopGen, pulses, watched, refresh, crossed>>

\* STOP, then ble_gap_terminate
IdleStops ==
    /\ idler.at = "stopping"
    /\ WriteStop(idler.on)
    /\ closing' = IF Linked(idler.on) THEN closing \union {idler.on} ELSE closing
    /\ idler' = [idler EXCEPT !.at = "clearing"]
    /\ UNCHANGED <<radio, entry, lastLink, orderVars, stopGen, pulses, watched, timer, refresh, crossed>>

\* What another task has put there meanwhile is lost.
IdleClears ==
    /\ idler.at = "clearing"
    /\ watched' = NoLink
    /\ crossed' = crossed \union {r \in driving : radio[r] = watched /\ watched # idler.on}
    /\ idler' = [at |-> "waiting", on |-> NoLink]
    /\ UNCHANGED <<robotVars, orderVars, stopGen, pulses, timer, refresh>>

-----------------------------------------------------------------------------
(* The Lua worker and the radio. *)

\* ble_device_refresh_ondemand_activity reads the link it then touches.
RefreshReads ==
    /\ refresh = NoLink /\ watched # NoLink /\ given < MaxOrders
    /\ refresh' = watched
    /\ given' = given + 1
    /\ UNCHANGED <<robotVars, order, stopGen, pulses, watched, timer, idler, crossed>>

RefreshTouches ==
    /\ refresh # NoLink
    /\ TouchActivity(refresh) /\ refresh' = NoLink
    /\ UNCHANGED <<robotVars, orderVars, stopGen, pulses, idler>>

\* A robot's link ends.  If its entry has forgotten the link, the handler resets
\* the entry of the robot that was connected last, whichever this is.
Disconnect(r, q) ==
    /\ radio[r] # NoLink
    /\ entry[r] = radio[r] => q = r
    /\ radio' = [radio EXCEPT ![r] = NoLink] /\ entry' = [entry EXCEPT ![q] = NoLink]
    /\ closing' = closing \ {radio[r]}
    /\ IF watched = radio[r]
         THEN watched' = NoLink /\ timer' = "off"
         ELSE UNCHANGED <<watched, timer>>
    /\ UNCHANGED <<lastLink, driving, orderVars, stopGen, pulses, idler, refresh, crossed>>

CommandStep(c) ==
    \/ \E r \in Robots, w \in Commands : GiveOrder(c, r, w)
    \/ Connect(c) \/ ConnectFails(c)
    \/ SendMotion(c) \/ NextGeneration(c) \/ StartPulse(c) \/ SendStop(c)
    \/ Touch(c) \/ QueryAborts(c)
PulseStep == \E p \in pulses : PulseChecks(p) \/ PulseStops(p)
IdleStep == IdleFires \/ IdleStops \/ IdleClears

MotorNext ==
    \/ \E c \in Commanders : CommandStep(c)
    \/ PulseStep \/ IdleStep
    \/ RefreshReads \/ RefreshTouches
    \/ \E r \in Robots, q \in Robots : Disconnect(r, q)

MotorSpec == MotorInit /\ [][MotorNext]_motorVars

-----------------------------------------------------------------------------
Orders ==
    [at : {"connecting"}, on : {NoLink}, robot : Robots, what : Commands] \union
    [at : {"linked", "sent", "counted"}, on : Links, robot : Robots, what : Commands]

MotorTypeOK ==
    /\ radio \in [Robots -> {NoLink} \union Links] /\ entry \in [Robots -> {NoLink} \union Links]
    /\ lastLink \in {NoLink} \union Links /\ closing \subseteq Links /\ driving \subseteq Robots
    /\ order \in [Commanders -> {Idle} \union Orders]
    /\ given \in 0..MaxOrders /\ stopGen \in Nat
    /\ pulses \subseteq [at : {"waits", "stops"}, on : Links, gen : Nat, by : Commanders]
    /\ watched \in {NoLink} \union Links /\ timer \in {"armed", "off"}
    /\ idler \in [at : {"waiting", "stopping", "clearing"}, on : {NoLink} \union Links]
    /\ refresh \in {NoLink} \union Links /\ crossed \subseteq Robots

\* Somebody will still write STOP to link h, close it, or start the timer on it.
Guarded(h) ==
    \/ h \in closing \/ refresh = h
    \/ timer = "armed" /\ watched = h
    \/ idler.at = "stopping" /\ idler.on = h
    \/ \E p \in pulses : p.on = h /\ (p.at = "waits" => p.gen = stopGen)
    \/ \E c \in Commanders : order[c].on = h

\* No robot within reach is left moving with nobody to stop it, whatever writes
\* and task creations fail and however commands to it overlap, unless another
\* link has had a command, a refresh or the timer's callback since (crossed):
\* the generation and the timer are shared by all robots.
MotionIsGuarded ==
    \A r \in driving \ crossed : radio[r] # NoLink => Guarded(radio[r])
=============================================================================
