------------------------- MODULE WifiConnectProofs -------------------------
(***************************************************************************)
(* Proofs about WifiConnect for any number of credentials and of attempts. *)
(*                                                                         *)
(* The queue of the event loop is what stands between the driver and       *)
(* network_connected.  The first part says what the last link event in a   *)
(* queue tells; the second proves the invariant that ties the driver, the  *)
(* queue and the statics together; the theorems follow, and at the end the *)
(* bound on what network_wifi_connect_main can take.                       *)
(***************************************************************************)
EXTENDS WifiConnect, Integers, TLAPS

-----------------------------------------------------------------------------
(* Queues of events.                                                       *)

LinkEvent == [kind : {"STA_DISCONNECTED", "STA_GOT_IP"}, net : Creds]

LinkAt(s, i) == i \in 1..Len(s) /\ s[i] \in LinkEvent

NoLink(s) == \A i \in 1..Len(s) : ~LinkAt(s, i)

LastLink(s, i) == LinkAt(s, i) /\ \A j \in 1..Len(s) : j > i => ~LinkAt(s, j)

\* The last link event in s, if any, says whether the driver has an address.
Says(s, up) ==
    \A i \in 1..Len(s) : LastLink(s, i) => (s[i].kind = "STA_GOT_IP" <=> up)

EndsStopped(s) == s # <<>> /\ s[Len(s)] = Stopped

\* The two events that are not about the link.
LEMMA PlainEvents ==
    /\ Started \in Event /\ Started \notin LinkEvent
    /\ Stopped \in Event /\ Stopped \notin LinkEvent
  BY DEF Started, Stopped, Event, LinkEvent

\* The kinds of events tell the two sorts apart.
LEMMA EventKinds ==
    ASSUME NEW e \in Event
    PROVE  /\ e \in LinkEvent <=> e.kind \in {"STA_DISCONNECTED", "STA_GOT_IP"}
           /\ e \in LinkEvent => e.net \in Creds
           /\ e.kind = "STA_STOP" => e = Stopped
  BY DEF Event, LinkEvent, Stopped, NoSsid

\* The events that are about the link.
LEMMA LinkEvents ==
    ASSUME NEW net \in Creds
    PROVE  /\ Disconnected(net) \in Event /\ Disconnected(net) \in LinkEvent
           /\ GotIp(net) \in Event /\ GotIp(net) \in LinkEvent
           /\ Disconnected(net).kind = "STA_DISCONNECTED"
           /\ GotIp(net).kind = "STA_GOT_IP"
  BY DEF Disconnected, GotIp, Event, LinkEvent

\* Posting a link event makes it the last word.
LEMMA AppendLink ==
    ASSUME NEW s \in Seq(Event), NEW e \in Event, e \in LinkEvent
    PROVE  /\ ~NoLink(Append(s, e))
           /\ Says(Append(s, e), e.kind = "STA_GOT_IP")
           /\ ~EndsStopped(Append(s, e))
  <1> DEFINE t == Append(s, e)
  <1>1. t \in Seq(Event) /\ Len(t) = Len(s) + 1 /\ t[Len(t)] = e /\ Len(t) \in Nat
    OBVIOUS
  <1> HIDE DEF t
  <1>2. LinkAt(t, Len(t)) /\ Len(t) \in 1..Len(t)
    BY <1>1 DEF LinkAt
  <1>3. ~NoLink(t)
    BY <1>2 DEF NoLink
  <1>4. Says(t, e.kind = "STA_GOT_IP")
    <2>1. ASSUME NEW i \in 1..Len(t), LastLink(t, i)
          PROVE  i = Len(t)
      BY <1>1, <1>2, <2>1 DEF LastLink
    <2> QED BY <1>1, <2>1 DEF Says
  <1>5. ~EndsStopped(t)
    BY <1>1, PlainEvents DEF EndsStopped
  <1> QED BY <1>3, <1>4, <1>5 DEF t

\* Posting a start or stop event changes nothing of what the queue says.
LEMMA AppendPlain ==
    ASSUME NEW s \in Seq(Event), NEW e \in Event, e \notin LinkEvent, NEW up \in BOOLEAN
    PROVE  /\ NoLink(Append(s, e)) <=> NoLink(s)
           /\ Says(s, up) => Says(Append(s, e), up)
  <1> DEFINE t == Append(s, e)
  <1>1. /\ Len(t) = Len(s) + 1 /\ t[Len(t)] = e /\ Len(s) \in Nat
        /\ \A i \in 1..Len(s) : t[i] = s[i]
    OBVIOUS
  <1> HIDE DEF t
  <1>2. \A i : LinkAt(t, i) <=> LinkAt(s, i)
    BY <1>1 DEF LinkAt
  <1>3. NoLink(t) <=> NoLink(s)
    BY <1>1, <1>2 DEF NoLink, LinkAt
  <1>4. ASSUME Says(s, up) PROVE Says(t, up)
    <2>1. SUFFICES ASSUME NEW i \in 1..Len(t), LastLink(t, i)
                   PROVE  t[i].kind = "STA_GOT_IP" <=> up
      BY DEF Says
    <2>2. i \in 1..Len(s) /\ t[i] = s[i] /\ LinkAt(s, i)
      BY <1>1, <1>2, <2>1 DEF LastLink, LinkAt
    <2>3. LastLink(s, i)
      BY <1>1, <1>2, <2>1, <2>2 DEF LastLink
    <2> QED BY <1>4, <2>2, <2>3 DEF Says
  <1> QED BY <1>3, <1>4 DEF t

\* Taking an event: what the rest of the queue says is what all of it said,
\* and if nothing about the link is left, the event taken said it.
LEMMA TakeEvent ==
    ASSUME NEW s \in Seq(Event), s # <<>>, NEW up \in BOOLEAN, Says(s, up)
    PROVE  /\ Head(s) \in Event /\ Tail(s) \in Seq(Event)
           /\ Says(Tail(s), up)
           /\ NoLink(s) => Head(s) \notin LinkEvent
           /\ Head(s) \notin LinkEvent => (NoLink(Tail(s)) <=> NoLink(s))
           /\ Head(s) \in LinkEvent /\ NoLink(Tail(s))
                => (Head(s).kind = "STA_GOT_IP" <=> up)
           /\ EndsStopped(s)
                => EndsStopped(Tail(s)) \/ (Head(s) = Stopped /\ Tail(s) = <<>>)
  <1> DEFINE t == Tail(s)
  <1>1. /\ Head(s) \in Event /\ t \in Seq(Event) /\ Head(s) = s[1]
        /\ Len(s) \in Nat /\ Len(s) > 0 /\ Len(t) = Len(s) - 1
        /\ \A i \in 1..Len(t) : t[i] = s[i + 1]
    OBVIOUS
  <1>2. t = <<>> <=> Len(t) = 0
    BY <1>1
  <1> HIDE DEF t
  <1>3. \A i \in 1..Len(t) : LinkAt(t, i) <=> LinkAt(s, i + 1)
    BY <1>1 DEF LinkAt
  <1>4. Says(t, up)
    <2>1. SUFFICES ASSUME NEW i \in 1..Len(t), LastLink(t, i)
                   PROVE  t[i].kind = "STA_GOT_IP" <=> up
      BY DEF Says
    <2>2. i + 1 \in 1..Len(s) /\ t[i] = s[i + 1] /\ LinkAt(s, i + 1)
      BY <1>1, <1>3, <2>1 DEF LastLink
    <2>3. ASSUME NEW j \in 1..Len(s), j > i + 1 PROVE ~LinkAt(s, j)
      <3>1. j - 1 \in 1..Len(t) /\ j - 1 > i /\ (j - 1) + 1 = j
        BY <1>1, <2>3
      <3> QED BY <1>3, <2>1, <3>1 DEF LastLink
    <2> QED BY <2>2, <2>3 DEF Says, LastLink
  <1>5. ASSUME Head(s) \notin LinkEvent PROVE NoLink(t) <=> NoLink(s)
    <2>1. ASSUME NoLink(t), NEW j \in 1..Len(s) PROVE ~LinkAt(s, j)
      <3>1. CASE j = 1
        BY <1>1, <1>5, <3>1 DEF LinkAt
      <3>2. CASE j # 1
        <4>1. j - 1 \in 1..Len(t) /\ (j - 1) + 1 = j
          BY <1>1, <3>2
        <4> QED BY <1>3, <2>1, <4>1 DEF NoLink
      <3> QED BY <3>1, <3>2
    <2>2. ASSUME NoLink(s) PROVE NoLink(t)
      BY <1>1, <1>3, <2>2 DEF NoLink
    <2> QED BY <2>1, <2>2 DEF NoLink
  <1>6. ASSUME Head(s) \in LinkEvent, NoLink(t) PROVE Head(s).kind = "STA_GOT_IP" <=> up
    <2>1. ASSUME NEW j \in 1..Len(s), j > 1 PROVE ~LinkAt(s, j)
      <3>1. j - 1 \in 1..Len(t) /\ (j - 1) + 1 = j
        BY <1>1, <2>1
      <3> QED BY <1>3, <1>6, <3>1 DEF NoLink
    <2>2. 1 \in 1..Len(s) /\ LastLink(s, 1)
      BY <1>1, <1>6, <2>1 DEF LastLink, LinkAt
    <2> QED BY <1>1, <2>2 DEF Says
  <1>7. ASSUME EndsStopped(s) PROVE EndsStopped(t) \/ (Head(s) = Stopped /\ t = <<>>)
    BY <1>1, <1>2, <1>7 DEF EndsStopped
  <1>8. NoLink(s) => Head(s) \notin LinkEvent
    BY <1>1 DEF NoLink, LinkAt
  <1> QED BY <1>1, <1>4, <1>5, <1>6, <1>7, <1>8 DEF t

-----------------------------------------------------------------------------
(* The inductive invariant.                                                *)

\* What the types leave open: a driver that is associated knows with whom,
\* and a backoff comes before another attempt.
TargetInv ==
    /\ Linked => target \in Creds
    /\ handler \in {"lost", "mayReconnect"} => lostSsid \in Creds
    /\ wc = "backoff" => attempt < RetryCount

\* Nothing has been said of a link before the first attempt names one.
NamedFirst ==
    attemptSsid = NoSsid =>
      /\ wc \in {"begin", "start", "waitStart", "checkStart", "configure", "attempt",
                 "giveUp", "stop", "failed"}
      /\ ~Linked
      /\ NoLink(events)

Believed == connected \/ handler = "gotIp"

\* The queue tells the truth in the end; when it is silent, the handler has
\* it already.
BeliefInv ==
    /\ Says(events, drv = "ip")
    /\ NoLink(events) =>
         /\ Believed <=> drv = "ip"
         /\ drv = "ip" => ssid = target

\* The name goes with the belief, except while the handler changes both.
NameInv ==
    /\ Believed => ssid # NoSsid
    /\ handler \in {"lost", "mayReconnect"} => ~connected
    /\ handler = "signalLink" => connected
    /\ handler \in {"idle", "mayReconnect"} /\ ~connected => ssid = NoSsid

\* A radio that is off has been reset, or a stop event is about to reset it.
OffInv ==
    drv = "off" =>
      \/ EndsStopped(events)
      \/ events = <<>> /\ handler = "idle" /\ ~started /\ bits = {}

\* Which step of the connector has which flag, and what it leaves on failure.
FlagInv ==
    /\ auto => wc = "connected"
    /\ manual => wc \in {"drain", "stop"}
    /\ wc \in {"begin", "start", "failed"} => drv = "off"

IInv ==
    /\ TargetInv /\ NamedFirst /\ BeliefInv /\ NameInv /\ OffInv /\ FlagInv

Inv == TypeOK /\ IInv

\* The two halves of TypeOK, which different provers are good at.
FlagsOK ==
    /\ started \in BOOLEAN /\ connected \in BOOLEAN
    /\ auto \in BOOLEAN /\ manual \in BOOLEAN
    /\ was \in BOOLEAN

ValuesOK ==
    /\ wc \in {"begin", "start", "waitStart", "checkStart", "configure", "attempt",
               "connect", "wait", "succeed", "abandon", "drain", "backoff", "giveUp",
               "stop", "connected", "failed"}
    /\ numCreds \in 0..MaxCreds /\ cred \in Creds
    /\ attempt \in 1..RetryCount
    /\ bits \in SUBSET {"STARTED", "GOT_IP", "DISCONNECTED"}
    /\ attemptSsid \in Ssids /\ ssid \in Ssids
    /\ handler \in {"idle", "lost", "mayReconnect", "gotIp", "signalLink"}
    /\ lostSsid \in Ssids
    /\ drv \in {"off", "idle", "joining", "ip"}
    /\ config \in Ssids /\ target \in Ssids
    /\ events \in Seq(Event)

\* TypeOK is its two halves, now and after a step.
LEMMA TypeHalves == (TypeOK <=> FlagsOK /\ ValuesOK) /\ (TypeOK' <=> FlagsOK' /\ ValuesOK')
  BY DEF TypeOK, FlagsOK, ValuesOK

\* The program starts with no link, no events and every static cleared.
LEMMA InitInv == Init => Inv
  <1> SUFFICES ASSUME Init PROVE Inv
    OBVIOUS
  <1> USE CredsAssumption, RetryAssumption
  <1>1. TypeOK
    <2>1. FlagsOK
      BY Zenon DEF Init, FlagsOK
    <2>2. ValuesOK
      BY DEF Init, ValuesOK, Creds, Ssids, NoSsid
    <2> QED BY <2>1, <2>2, TypeHalves
  <1>2. IInv
    BY DEF Init, IInv, TargetInv, NamedFirst, BeliefInv, NameInv, OffInv, FlagInv,
       Believed, Linked, NoLink, Says, NoSsid
  <1> QED BY <1>1, <1>2 DEF Inv

\* A step that leaves driver, names and belief alone keeps what ties them
\* together.
LEMMA Kept ==
    ASSUME Inv, UNCHANGED <<started, connected, ssid, drv, target, events>>,
           bits' \subseteq bits,
           handler' = handler \/ (handler = "mayReconnect" /\ handler' = "idle")
    PROVE  BeliefInv' /\ NameInv' /\ OffInv'
  <1>1. BeliefInv' /\ NameInv'
    BY DEF Inv, IInv, BeliefInv, NameInv, Believed
  <1>2. OffInv'
    BY DEF Inv, IInv, OffInv
  <1> QED BY <1>1, <1>2

\* The loop goes on within its bounds.
LEMMA LoopTypes ==
    ASSUME Inv, NextCredential \/ AttemptFailed
    PROVE  /\ cred' \in Creds /\ attempt' \in 1..RetryCount
           /\ wc' \in {"configure", "giveUp", "backoff"}
           /\ NextCredential => wc' # "backoff"
           /\ wc' = "backoff" => attempt' < RetryCount /\ AttemptFailed
           /\ attempt' = attempt
  <1> USE CredsAssumption, RetryAssumption
  <1> QED BY DEF Inv, TypeOK, NextCredential, AttemptFailed, Creds

\* The steps of the connector that make no call into the driver.
LEMMA LocalInv ==
    ASSUME Inv,
           \/ Begin \/ WaitStart \/ Configure \/ StartAttempt \/ WaitForLink
           \/ Succeed \/ Drain \/ Backoff
    PROVE  Inv'
  <1> USE CredsAssumption, RetryAssumption
  <1>1. ASSUME Begin PROVE Inv'
    <2>1. FlagsOK'
      BY <1>1, TypeHalves, Zenon DEF Begin, Inv, FlagsOK, flagVars, handlerVars
    <2>2. ValuesOK' /\ TargetInv' /\ NamedFirst' /\ FlagInv'
      BY <1>1 DEF Begin, Inv, TypeOK, ValuesOK, IInv, TargetInv, NamedFirst, FlagInv,
         Linked, Creds, Ssids, NoSsid, loopVars, flagVars, nameVars, handlerVars,
         driverVars
    <2>3. BeliefInv' /\ NameInv' /\ OffInv'
      BY <1>1, Kept DEF Begin, Inv, TypeOK, flagVars, nameVars, handlerVars, driverVars
    <2> QED BY <2>1, <2>2, <2>3, TypeHalves DEF Inv, IInv
  <1>2. ASSUME WaitStart PROVE Inv'
    <2>1. FlagsOK'
      BY <1>2, TypeHalves, Zenon DEF WaitStart, Inv, FlagsOK, flagVars, handlerVars
    <2>2. ValuesOK' /\ TargetInv' /\ NamedFirst' /\ FlagInv'
      BY <1>2 DEF WaitStart, Inv, TypeOK, ValuesOK, IInv, TargetInv, NamedFirst, FlagInv,
         Linked, Creds, Ssids, NoSsid, loopVars, flagVars, nameVars, handlerVars,
         driverVars
    <2>3. BeliefInv' /\ NameInv' /\ OffInv'
      BY <1>2, Kept DEF WaitStart, Inv, TypeOK, flagVars, nameVars, handlerVars,
         driverVars
    <2> QED BY <2>1, <2>2, <2>3, TypeHalves DEF Inv, IInv
  <1>3. ASSUME Configure PROVE Inv'
    <2>1. FlagsOK'
      BY <1>3, TypeHalves, Zenon DEF Configure, Inv, FlagsOK, flagVars, handlerVars
    <2>2. ValuesOK' /\ TargetInv' /\ NamedFirst' /\ FlagInv'
      BY <1>3, LoopTypes DEF Configure, Inv, TypeOK, ValuesOK, IInv, TargetInv,
         NamedFirst, FlagInv, Linked, Creds, Ssids, NoSsid, loopVars, flagVars, nameVars,
         handlerVars, driverVars
    <2>3. BeliefInv' /\ NameInv' /\ OffInv'
      BY <1>3, Kept DEF Configure, Inv, TypeOK, flagVars, nameVars, handlerVars,
         driverVars
    <2> QED BY <2>1, <2>2, <2>3, TypeHalves DEF Inv, IInv
  <1>4. ASSUME StartAttempt PROVE Inv'
    <2>1. FlagsOK'
      BY <1>4, TypeHalves, Zenon DEF StartAttempt, Inv, FlagsOK, flagVars, handlerVars
    <2>2. ValuesOK' /\ TargetInv' /\ NamedFirst' /\ FlagInv'
      BY <1>4 DEF StartAttempt, Inv, TypeOK, ValuesOK, IInv, TargetInv, NamedFirst,
         FlagInv, Linked, Creds, Ssids, NoSsid, loopVars, flagVars, nameVars, handlerVars,
         driverVars
    <2>3. BeliefInv' /\ NameInv' /\ OffInv'
      BY <1>4, Kept DEF StartAttempt, Inv, TypeOK, flagVars, nameVars, handlerVars,
         driverVars
    <2> QED BY <2>1, <2>2, <2>3, TypeHalves DEF Inv, IInv
  <1>5. ASSUME WaitForLink PROVE Inv'
    <2>1. FlagsOK'
      BY <1>5, TypeHalves, Zenon DEF WaitForLink, Inv, FlagsOK, flagVars, handlerVars
    <2>2. ValuesOK' /\ TargetInv' /\ NamedFirst' /\ FlagInv'
      BY <1>5, LoopTypes DEF WaitForLink, Inv, TypeOK, ValuesOK, IInv, TargetInv,
         NamedFirst, FlagInv, Linked, Creds, Ssids, NoSsid, loopVars, flagVars, nameVars,
         handlerVars, driverVars
    <2>3. BeliefInv' /\ NameInv' /\ OffInv'
      BY <1>5, Kept DEF WaitForLink, Inv, TypeOK, flagVars, nameVars, handlerVars,
         driverVars
    <2> QED BY <2>1, <2>2, <2>3, TypeHalves DEF Inv, IInv
  <1>6. ASSUME Succeed PROVE Inv'
    <2>1. FlagsOK'
      BY <1>6, TypeHalves, Zenon DEF Succeed, Inv, FlagsOK, flagVars, handlerVars
    <2>2. ValuesOK' /\ TargetInv' /\ NamedFirst' /\ FlagInv'
      BY <1>6 DEF Succeed, Inv, TypeOK, ValuesOK, IInv, TargetInv, NamedFirst, FlagInv,
         Linked, Creds, Ssids, NoSsid, loopVars, flagVars, nameVars, handlerVars,
         driverVars
    <2>3. BeliefInv' /\ NameInv' /\ OffInv'
      BY <1>6, Kept DEF Succeed, Inv, TypeOK, flagVars, nameVars, handlerVars, driverVars
    <2> QED BY <2>1, <2>2, <2>3, TypeHalves DEF Inv, IInv
  <1>7. ASSUME Drain PROVE Inv'
    <2>1. FlagsOK'
      BY <1>7, TypeHalves, Zenon DEF Drain, Inv, FlagsOK, flagVars, handlerVars
    <2>2. ValuesOK' /\ TargetInv' /\ NamedFirst' /\ FlagInv'
      BY <1>7, LoopTypes DEF Drain, Inv, TypeOK, ValuesOK, IInv, TargetInv, NamedFirst,
         FlagInv, Linked, Creds, Ssids, NoSsid, loopVars, flagVars, nameVars, handlerVars,
         driverVars
    <2>3. BeliefInv' /\ NameInv' /\ OffInv'
      BY <1>7, Kept DEF Drain, Inv, TypeOK, flagVars, nameVars, handlerVars, driverVars
    <2> QED BY <2>1, <2>2, <2>3, TypeHalves DEF Inv, IInv
  <1>8. ASSUME Backoff PROVE Inv'
    <2>1. FlagsOK'
      BY <1>8, TypeHalves, Zenon DEF Backoff, Inv, FlagsOK, flagVars, handlerVars
    <2>2. ValuesOK' /\ TargetInv' /\ NamedFirst' /\ FlagInv'
      BY <1>8 DEF Backoff, Inv, TypeOK, ValuesOK, IInv, TargetInv, NamedFirst, FlagInv,
         Linked, Creds, Ssids, NoSsid, loopVars, flagVars, nameVars, handlerVars,
         driverVars
    <2>3. BeliefInv' /\ NameInv' /\ OffInv'
      BY <1>8, Kept DEF Backoff, Inv, TypeOK, flagVars, nameVars, handlerVars, driverVars
    <2> QED BY <2>1, <2>2, <2>3, TypeHalves DEF Inv, IInv
  <1> QED BY <1>1, <1>2, <1>3, <1>4, <1>5, <1>6, <1>7, <1>8

\* What a call that ends an association does to the driver and the queue.
LEMMA FarewellTells ==
    ASSUME Inv
    PROVE  /\ events \o Farewell \in Seq(Event)
           /\ Says(events \o Farewell, FALSE)
           /\ NoLink(events \o Farewell) => NoLink(events) /\ drv # "ip"
           /\ ~Linked => events \o Farewell = events
  <1>0. events \in Seq(Event)
    BY DEF Inv, TypeOK
  <1>1. CASE Linked
    <2>1. target \in Creds
      BY <1>1 DEF Inv, IInv, TargetInv
    <2> DEFINE e == Disconnected(target)
    <2>2. e \in Event /\ e \in LinkEvent /\ e.kind = "STA_DISCONNECTED"
      BY <2>1, LinkEvents
    <2>3. Farewell = <<e>>
      BY <1>1 DEF Farewell
    <2> HIDE DEF e
    <2>4. events \o Farewell = Append(events, e)
      BY <1>0, <2>2, <2>3
    <2>5. ~NoLink(Append(events, e)) /\ Says(Append(events, e), e.kind = "STA_GOT_IP")
      BY <1>0, <2>2, AppendLink
    <2>6. Says(Append(events, e), FALSE)
      BY <2>2, <2>5 DEF Says
    <2>7. Append(events, e) \in Seq(Event)
      BY <1>0, <2>2
    <2> QED BY <1>1, <2>4, <2>5, <2>6, <2>7, Zenon
  <1>2. CASE ~Linked
    <2>1. events \o Farewell = events
      BY <1>0, <1>2 DEF Farewell
    <2>2. drv # "ip" /\ Says(events, drv = "ip")
      BY <1>2 DEF Linked, Inv, IInv, BeliefInv
    <2>3. Says(events, FALSE)
      BY <2>2 DEF Says
    <2> QED BY <1>0, <2>1, <2>2, <2>3
  <1> QED BY <1>1, <1>2

\* The three calls: the queue tells of the driver as it then is.
LEMMA Calls ==
    ASSUME Inv, ConnectAccepted \/ DriverDisconnect \/ DriverStop
    PROVE  /\ events' \in Seq(Event) /\ drv' \in {"off", "idle", "joining"}
           /\ config' \in Ssids /\ target' \in Ssids
           /\ Linked' => target' \in Creds
           /\ DriverDisconnect \/ DriverStop => ~Linked'
           /\ Says(events', drv' = "ip")
           /\ NoLink(events') => NoLink(events) /\ drv # "ip"
           /\ ~Linked /\ NoLink(events) => NoLink(events')
           /\ drv' = "off" => EndsStopped(events') \/ (drv = "off" /\ events' = events)
           /\ drv = "off" => drv' = "off"
           /\ DriverStop => drv' = "off"
  <1>0. events \in Seq(Event)
    BY DEF Inv, TypeOK
  <1>1. /\ drv' \in {"off", "idle", "joining"} /\ config' \in Ssids /\ target' \in Ssids
        /\ Linked' => target' \in Creds
        /\ DriverDisconnect \/ DriverStop => ~Linked'
        /\ drv = "off" => drv' = "off"
        /\ DriverStop => drv' = "off"
    BY DEF Inv, TypeOK, Ssids, Linked, ConnectAccepted, DriverDisconnect, DriverStop
  <1>2. (drv' = "ip") = FALSE
    BY <1>1
  <1>3. ASSUME events' = events \o Farewell, drv' = "off" => drv = "off"
        PROVE  /\ events' \in Seq(Event) /\ Says(events', drv' = "ip")
               /\ NoLink(events') => NoLink(events) /\ drv # "ip"
               /\ ~Linked /\ NoLink(events) => NoLink(events')
               /\ drv' = "off" => drv = "off" /\ events' = events
    BY <1>2, <1>3, FarewellTells DEF Linked
  <1>4. CASE ConnectAccepted
    BY <1>1, <1>3, <1>4 DEF ConnectAccepted
  <1>5. CASE DriverDisconnect
    BY <1>1, <1>3, <1>5 DEF DriverDisconnect, Linked
  <1>6. CASE DriverStop /\ drv = "off"
    <2>1. events' = events /\ drv' = "off"
      BY <1>6 DEF DriverStop
    <2>2. Says(events, FALSE)
      BY <1>6 DEF Inv, IInv, BeliefInv, Says
    <2> QED BY <1>0, <1>1, <1>2, <1>6, <2>1, <2>2
  <1>7. CASE DriverStop /\ drv # "off"
    <2> DEFINE s == events \o Farewell
    <2>1. s \in Seq(Event) /\ Says(s, FALSE)
          /\ (NoLink(s) => NoLink(events) /\ drv # "ip")
          /\ (~Linked => s = events)
      BY FarewellTells
    <2>2. events' = s \o <<Stopped>> /\ drv' = "off"
      BY <1>7 DEF DriverStop
    <2> HIDE DEF s
    <2>3. events' = Append(s, Stopped)
      BY <2>1, <2>2, PlainEvents
    <2>4. (NoLink(events') <=> NoLink(s)) /\ Says(events', FALSE)
      BY <2>1, <2>3, PlainEvents, AppendPlain
    <2>5. events' \in Seq(Event) /\ EndsStopped(events')
      BY <2>1, <2>3, PlainEvents DEF EndsStopped
    <2> QED BY <1>1, <1>2, <2>1, <2>2, <2>4, <2>5
  <1> QED BY <1>4, <1>5, <1>6, <1>7

\* A call by the connector or the handler, with belief and name left alone.
LEMMA CallKeeps ==
    ASSUME Inv, ConnectAccepted \/ DriverDisconnect \/ DriverStop,
           UNCHANGED <<started, connected, ssid>>, bits' \subseteq bits,
           handler' = handler \/ (handler = "mayReconnect" /\ handler' = "idle")
    PROVE  BeliefInv' /\ NameInv' /\ OffInv'
  <1>1. BeliefInv'
    BY Calls DEF Inv, IInv, BeliefInv, Believed
  <1>2. NameInv'
    BY DEF Inv, IInv, NameInv, Believed
  <1>3. OffInv'
    BY Calls DEF Inv, IInv, OffInv
  <1> QED BY <1>1, <1>2, <1>3

\* The steps of the connector that call the driver.
LEMMA CallInv ==
    ASSUME Inv, Connect \/ Abandon \/ GiveUp \/ StopRadio
    PROVE  Inv'
  <1> USE CredsAssumption, RetryAssumption
  <1>1. ASSUME Abandon PROVE Inv'
    <2>1. FlagsOK'
      BY <1>1, TypeHalves, Zenon DEF Abandon, Inv, FlagsOK, flagVars, handlerVars
    <2>2. ValuesOK' /\ TargetInv' /\ NamedFirst' /\ FlagInv'
      BY <1>1, Calls DEF Abandon, Inv, TypeOK, ValuesOK, IInv, TargetInv, NamedFirst,
         FlagInv, Linked, Creds, Ssids, NoSsid, loopVars, flagVars, nameVars, handlerVars
    <2>3. BeliefInv' /\ NameInv' /\ OffInv'
      BY <1>1, CallKeeps DEF Abandon, flagVars, nameVars, handlerVars
    <2> QED BY <2>1, <2>2, <2>3, TypeHalves DEF Inv, IInv
  <1>2. ASSUME GiveUp PROVE Inv'
    <2>1. FlagsOK'
      BY <1>2, TypeHalves, Zenon DEF GiveUp, Inv, FlagsOK, flagVars, handlerVars
    <2>2. ValuesOK' /\ TargetInv' /\ NamedFirst' /\ FlagInv'
      BY <1>2, Calls DEF GiveUp, Inv, TypeOK, ValuesOK, IInv, TargetInv, NamedFirst,
         FlagInv, Linked, Creds, Ssids, NoSsid, loopVars, flagVars, nameVars, handlerVars
    <2>3. BeliefInv' /\ NameInv' /\ OffInv'
      BY <1>2, CallKeeps DEF GiveUp, flagVars, nameVars, handlerVars
    <2> QED BY <2>1, <2>2, <2>3, TypeHalves DEF Inv, IInv
  <1>3. ASSUME StopRadio PROVE Inv'
    <2>1. FlagsOK'
      BY <1>3, TypeHalves, Zenon DEF StopRadio, Inv, FlagsOK, flagVars, handlerVars
    <2>2. ValuesOK' /\ TargetInv' /\ NamedFirst' /\ FlagInv'
      BY <1>3, Calls DEF StopRadio, Inv, TypeOK, ValuesOK, IInv, TargetInv, NamedFirst,
         FlagInv, Linked, Creds, Ssids, NoSsid, loopVars, flagVars, nameVars, handlerVars
    <2>3. BeliefInv' /\ NameInv' /\ OffInv'
      BY <1>3, CallKeeps DEF StopRadio, flagVars, nameVars, handlerVars
    <2> QED BY <2>1, <2>2, <2>3, TypeHalves DEF Inv, IInv
  <1>4. ASSUME Connect, ConnectAccepted, wc' = "wait", UNCHANGED <<cred, attempt>>
        PROVE  Inv'
    <2>1. FlagsOK'
      BY <1>4, TypeHalves, Zenon DEF Connect, Inv, FlagsOK, flagVars, handlerVars
    <2>2. ValuesOK' /\ TargetInv' /\ NamedFirst' /\ FlagInv'
      BY <1>4, Calls DEF Connect, Inv, TypeOK, ValuesOK, IInv, TargetInv, NamedFirst,
         FlagInv, Linked, Creds, Ssids, NoSsid, loopVars, flagVars, nameVars, handlerVars
    <2>3. BeliefInv' /\ NameInv' /\ OffInv'
      BY <1>4, CallKeeps DEF Connect, flagVars, nameVars, handlerVars
    <2> QED BY <2>1, <2>2, <2>3, TypeHalves DEF Inv, IInv
  <1>5. ASSUME Connect, UNCHANGED driverVars, AttemptFailed PROVE Inv'
    <2>1. FlagsOK'
      BY <1>5, TypeHalves, Zenon DEF Connect, Inv, FlagsOK, flagVars, handlerVars
    <2>2. ValuesOK' /\ TargetInv' /\ NamedFirst' /\ FlagInv'
      BY <1>5, LoopTypes DEF Connect, Inv, TypeOK, ValuesOK, IInv, TargetInv, NamedFirst,
         FlagInv, Linked, Creds, Ssids, NoSsid, loopVars, flagVars, nameVars, handlerVars,
         driverVars
    <2>3. BeliefInv' /\ NameInv' /\ OffInv'
      BY <1>5, Kept DEF Connect, driverVars, flagVars, nameVars, handlerVars
    <2> QED BY <2>1, <2>2, <2>3, TypeHalves DEF Inv, IInv
  <1> QED BY <1>1, <1>2, <1>3, <1>4, <1>5 DEF Connect

\* esp_wifi_start and the check of the wait after it.
LEMMA StartInv ==
    ASSUME Inv, StartRadio \/ CheckStart
    PROVE  Inv'
  <1>0. events \in Seq(Event)
    BY DEF Inv, TypeOK
  <1>1. ASSUME StartRadio PROVE Inv'
    <2>1. FlagsOK'
      BY <1>1, TypeHalves, Zenon DEF StartRadio, Inv, FlagsOK, flagVars, handlerVars
    <2>2. ASSUME UNCHANGED driverVars PROVE Inv'
      <3>1. ValuesOK' /\ TargetInv' /\ NamedFirst' /\ FlagInv'
        BY <1>1, <2>2 DEF StartRadio, Inv, TypeOK, ValuesOK, IInv, TargetInv, NamedFirst,
           FlagInv, Linked, Creds, Ssids, NoSsid, connectorVars, loopVars, flagVars,
           nameVars, handlerVars, driverVars
      <3>2. BeliefInv' /\ NameInv' /\ OffInv'
        BY <1>1, <2>2, Kept DEF StartRadio, flagVars, nameVars, handlerVars, driverVars
      <3> QED BY <2>1, <3>1, <3>2, TypeHalves DEF Inv, IInv
    <2>3. ASSUME drv' = "idle", events' = Append(events, Started), wc' = "waitStart",
                 UNCHANGED <<config, target>>
          PROVE  Inv'
      <3>1. drv = "off" /\ Says(events, FALSE)
        BY <1>1 DEF StartRadio, Inv, IInv, FlagInv, BeliefInv, Says
      <3>2. (NoLink(events') <=> NoLink(events)) /\ Says(events', FALSE)
            /\ events' \in Seq(Event)
        <4> DEFINE e == Started
        <4>1. e \in Event /\ e \notin LinkEvent
          BY PlainEvents
        <4>2. events' = Append(events, e)
          BY <2>3
        <4> HIDE DEF e
        <4>3. (NoLink(events') <=> NoLink(events)) /\ Says(events', FALSE)
          BY <1>0, <3>1, <4>1, <4>2, AppendPlain
        <4>4. events' \in Seq(Event)
          BY <1>0, <4>1, <4>2
        <4> QED BY <4>3, <4>4
      <3>3. ValuesOK' /\ TargetInv' /\ NamedFirst' /\ FlagInv'
        BY <1>1, <2>3, <3>1, <3>2 DEF StartRadio, Inv, TypeOK, ValuesOK, IInv, TargetInv,
           NamedFirst, FlagInv, Linked, Creds, Ssids, NoSsid, connectorVars, loopVars,
           flagVars, nameVars, handlerVars, driverVars
      <3>4. BeliefInv'
        BY <1>1, <2>3, <3>1, <3>2
        DEF StartRadio, Inv, IInv, BeliefInv, Believed, Says, flagVars, nameVars,
           handlerVars
      <3>5. NameInv' /\ OffInv'
        BY <1>1, <2>3
        DEF StartRadio, Inv, IInv, NameInv, OffInv, Believed, flagVars, nameVars,
           handlerVars
      <3> QED BY <2>1, <3>3, <3>4, <3>5, TypeHalves DEF Inv, IInv
    <2> QED BY <1>1, <2>2, <2>3 DEF StartRadio
  <1>2. ASSUME CheckStart, started PROVE Inv'
    <2>1. FlagsOK'
      BY <1>2, TypeHalves, Zenon DEF CheckStart, Inv, FlagsOK, flagVars, handlerVars
    <2>2. ValuesOK' /\ TargetInv' /\ NamedFirst' /\ FlagInv'
      BY <1>2 DEF CheckStart, Inv, TypeOK, ValuesOK, IInv, TargetInv, NamedFirst, FlagInv,
         Linked, Creds, Ssids, NoSsid, connectorVars, loopVars, flagVars, nameVars,
         handlerVars, driverVars
    <2>3. BeliefInv' /\ NameInv' /\ OffInv'
      BY <1>2, Kept DEF CheckStart, flagVars, nameVars, handlerVars, driverVars
    <2> QED BY <2>1, <2>2, <2>3, TypeHalves DEF Inv, IInv
  <1>3. ASSUME CheckStart, ~started PROVE Inv'
    <2>1. FlagsOK'
      BY <1>3, TypeHalves, Zenon DEF CheckStart, Inv, FlagsOK, flagVars, handlerVars
    <2>2. ValuesOK' /\ TargetInv' /\ NamedFirst' /\ FlagInv'
      BY <1>3, Calls DEF CheckStart, Inv, TypeOK, ValuesOK, IInv, TargetInv, NamedFirst,
         FlagInv, Linked, Creds, Ssids, NoSsid, connectorVars, loopVars, flagVars,
         nameVars, handlerVars, driverVars
    <2>3. BeliefInv' /\ NameInv' /\ OffInv'
      BY <1>3, CallKeeps DEF CheckStart, flagVars, nameVars, handlerVars
    <2> QED BY <2>1, <2>2, <2>3, TypeHalves DEF Inv, IInv
  <1> QED BY <1>1, <1>2, <1>3

\* What the handler knows when it takes an event.
LEMMA Taken ==
    ASSUME Inv, NEW kind, Receives(kind)
    PROVE  /\ events' \in Seq(Event) /\ Head(events) \in Event
           /\ Head(events).kind = kind /\ handler = "idle"
           /\ UNCHANGED <<drv, config, target>>
           /\ Says(events', drv' = "ip")
           /\ NoLink(events) => Head(events) \notin LinkEvent
           /\ Head(events) \notin LinkEvent => (NoLink(events') <=> NoLink(events))
           /\ Head(events) \in LinkEvent /\ NoLink(events')
                => (kind = "STA_GOT_IP" <=> drv = "ip")
           /\ drv = "off" => \/ EndsStopped(events')
                             \/ kind = "STA_STOP" /\ events' = <<>>
  <1>1. /\ events \in Seq(Event) /\ events # <<>> /\ events' = Tail(events)
        /\ Head(events).kind = kind /\ handler = "idle" /\ UNCHANGED <<drv, config, target>>
    BY DEF Receives, Inv, TypeOK
  <1> DEFINE up == drv = "ip"
  <1>2. Says(events, up) /\ up \in BOOLEAN
    BY DEF Inv, IInv, BeliefInv
  <1>3. drv = "off" => EndsStopped(events)
    BY <1>1 DEF Inv, IInv, OffInv
  <1> HIDE DEF up
  <1>4. /\ Says(events', up)
        /\ Head(events) \in Event /\ events' \in Seq(Event)
        /\ NoLink(events) => Head(events) \notin LinkEvent
        /\ Head(events) \notin LinkEvent => (NoLink(events') <=> NoLink(events))
        /\ Head(events) \in LinkEvent /\ NoLink(events') => (kind = "STA_GOT_IP" <=> up)
        /\ EndsStopped(events)
             => EndsStopped(events') \/ (Head(events) = Stopped /\ events' = <<>>)
    BY <1>1, <1>2, TakeEvent
  <1>5. (drv' = "ip") = up
    BY <1>1 DEF up
  <1>6. Says(events', drv' = "ip")
    BY <1>4, <1>5 DEF Says
  <1> QED BY <1>1, <1>3, <1>4, <1>6 DEF Stopped, up

\* The handler takes an event.
LEMMA TakeInv ==
    ASSUME Inv, OnStart \/ OnStop \/ OnDisconnected \/ OnGotIp
    PROVE  Inv'
  <1>1. ASSUME OnStart PROVE Inv'
    <2>1. FlagsOK'
      BY <1>1, TypeHalves, Zenon DEF OnStart, Inv, FlagsOK, flagVars, handlerVars
    <2>2. Receives("STA_START")
      BY <1>1 DEF OnStart
    <2>3. Head(events) \in LinkEvent <=> "STA_START" \in {"STA_DISCONNECTED", "STA_GOT_IP"}
      BY <2>2, Taken, EventKinds
    <2>4. ValuesOK' /\ TargetInv' /\ NamedFirst' /\ FlagInv'
      BY <1>1, <2>2, <2>3, Taken, EventKinds DEF OnStart, Inv, TypeOK, ValuesOK, IInv,
         TargetInv, NamedFirst, FlagInv, Linked, Creds, Ssids, NoSsid, connectorVars,
         loopVars, flagVars, nameVars, handlerVars, driverVars
    <2>5. BeliefInv' /\ NameInv' /\ OffInv'
      BY <1>1, <2>2, <2>3, Taken DEF OnStart, Inv, TypeOK, ValuesOK, IInv, TargetInv,
         NamedFirst, FlagInv, Linked, Creds, Ssids, NoSsid, connectorVars, loopVars,
         flagVars, nameVars, handlerVars, driverVars, BeliefInv, NameInv, OffInv, Believed
    <2> QED BY <2>1, <2>4, <2>5, TypeHalves DEF Inv, IInv
  <1>2. ASSUME OnStop PROVE Inv'
    <2>1. FlagsOK'
      BY <1>2, TypeHalves, Zenon DEF OnStop, Inv, FlagsOK, flagVars, handlerVars
    <2>2. Receives("STA_STOP")
      BY <1>2 DEF OnStop
    <2>3. Head(events) \in LinkEvent <=> "STA_STOP" \in {"STA_DISCONNECTED", "STA_GOT_IP"}
      BY <2>2, Taken, EventKinds
    <2>4. ValuesOK' /\ TargetInv' /\ NamedFirst' /\ FlagInv'
      BY <1>2, <2>2, <2>3, Taken, EventKinds DEF OnStop, Inv, TypeOK, ValuesOK, IInv,
         TargetInv, NamedFirst, FlagInv, Linked, Creds, Ssids, NoSsid, connectorVars,
         loopVars, flagVars, nameVars, handlerVars, driverVars
    <2>5. BeliefInv' /\ NameInv' /\ OffInv'
      BY <1>2, <2>2, <2>3, Taken DEF OnStop, Inv, TypeOK, ValuesOK, IInv, TargetInv,
         NamedFirst, FlagInv, Linked, Creds, Ssids, NoSsid, connectorVars, loopVars,
         flagVars, nameVars, handlerVars, driverVars, BeliefInv, NameInv, OffInv, Believed
    <2> QED BY <2>1, <2>4, <2>5, TypeHalves DEF Inv, IInv
  <1>3. ASSUME OnDisconnected PROVE Inv'
    <2>1. FlagsOK'
      BY <1>3, TypeHalves, Zenon DEF OnDisconnected, Inv, FlagsOK, flagVars, handlerVars
    <2>2. Receives("STA_DISCONNECTED")
      BY <1>3 DEF OnDisconnected
    <2>3. Head(events) \in LinkEvent
            <=> "STA_DISCONNECTED" \in {"STA_DISCONNECTED", "STA_GOT_IP"}
      BY <2>2, Taken, EventKinds
    <2>4. ValuesOK' /\ TargetInv' /\ NamedFirst' /\ FlagInv'
      BY <1>3, <2>2, <2>3, Taken, EventKinds DEF OnDisconnected, Inv, TypeOK, ValuesOK,
         IInv, TargetInv, NamedFirst, FlagInv, Linked, Creds, Ssids, NoSsid,
         connectorVars, loopVars, flagVars, nameVars, handlerVars, driverVars
    <2>5. BeliefInv' /\ NameInv' /\ OffInv'
      BY <1>3, <2>2, <2>3, Taken DEF OnDisconnected, Inv, TypeOK, ValuesOK, IInv,
         TargetInv, NamedFirst, FlagInv, Linked, Creds, Ssids, NoSsid, connectorVars,
         loopVars, flagVars, nameVars, handlerVars, driverVars, BeliefInv, NameInv,
         OffInv, Believed
    <2> QED BY <2>1, <2>4, <2>5, TypeHalves DEF Inv, IInv
  <1>4. ASSUME OnGotIp PROVE Inv'
    <2>1. FlagsOK'
      BY <1>4, TypeHalves, Zenon DEF OnGotIp, Inv, FlagsOK, flagVars, handlerVars
    <2>2. Receives("STA_GOT_IP")
      BY <1>4 DEF OnGotIp
    <2>3. Head(events) \in LinkEvent <=> "STA_GOT_IP" \in {"STA_DISCONNECTED", "STA_GOT_IP"}
      BY <2>2, Taken, EventKinds
    <2>4. ValuesOK' /\ TargetInv' /\ NamedFirst' /\ FlagInv'
      BY <1>4, <2>2, <2>3, Taken, EventKinds DEF OnGotIp, Inv, TypeOK, ValuesOK, IInv,
         TargetInv, NamedFirst, FlagInv, Linked, Creds, Ssids, NoSsid, connectorVars,
         loopVars, flagVars, nameVars, handlerVars, driverVars
    <2>5. BeliefInv' /\ NameInv' /\ OffInv'
      BY <1>4, <2>2, <2>3, Taken DEF OnGotIp, Inv, TypeOK, ValuesOK, IInv, TargetInv,
         NamedFirst, FlagInv, Linked, Creds, Ssids, NoSsid, connectorVars, loopVars,
         flagVars, nameVars, handlerVars, driverVars, BeliefInv, NameInv, OffInv, Believed
    <2> QED BY <2>1, <2>4, <2>5, TypeHalves DEF Inv, IInv
  <1> QED BY <1>1, <1>2, <1>3, <1>4

\* The handler's steps after it has taken an event.
LEMMA HandleInv ==
    ASSUME Inv, ReportLoss \/ Reconnect \/ ReportLink \/ SignalLink
    PROVE  Inv'
  <1>1. ASSUME ReportLoss PROVE Inv'
    <2>1. FlagsOK'
      BY <1>1, TypeHalves, Zenon DEF ReportLoss, Inv, FlagsOK, flagVars, handlerVars
    <2>2. ValuesOK' /\ TargetInv' /\ NamedFirst' /\ FlagInv'
      BY <1>1 DEF ReportLoss, Inv, TypeOK, ValuesOK, IInv, TargetInv, NamedFirst, FlagInv,
         Linked, Creds, Ssids, NoSsid, connectorVars, loopVars, flagVars, nameVars,
         handlerVars, driverVars
    <2>3. BeliefInv' /\ NameInv' /\ OffInv'
      BY <1>1 DEF ReportLoss, Inv, TypeOK, ValuesOK, IInv, TargetInv, NamedFirst, FlagInv,
         Linked, Creds, Ssids, NoSsid, connectorVars, loopVars, flagVars, nameVars,
         handlerVars, driverVars, BeliefInv, NameInv, OffInv, Believed
    <2> QED BY <2>1, <2>2, <2>3, TypeHalves DEF Inv, IInv
  <1>2. ASSUME ReportLink PROVE Inv'
    <2>1. FlagsOK'
      BY <1>2, TypeHalves, Zenon DEF ReportLink, Inv, FlagsOK, flagVars, handlerVars
    <2>2. ValuesOK' /\ TargetInv' /\ NamedFirst' /\ FlagInv'
      BY <1>2 DEF ReportLink, Inv, TypeOK, ValuesOK, IInv, TargetInv, NamedFirst, FlagInv,
         Linked, Creds, Ssids, NoSsid, connectorVars, loopVars, flagVars, nameVars,
         handlerVars, driverVars
    <2>3. BeliefInv' /\ NameInv' /\ OffInv'
      BY <1>2 DEF ReportLink, Inv, TypeOK, ValuesOK, IInv, TargetInv, NamedFirst, FlagInv,
         Linked, Creds, Ssids, NoSsid, connectorVars, loopVars, flagVars, nameVars,
         handlerVars, driverVars, BeliefInv, NameInv, OffInv, Believed
    <2> QED BY <2>1, <2>2, <2>3, TypeHalves DEF Inv, IInv
  <1>3. ASSUME SignalLink PROVE Inv'
    <2>1. FlagsOK'
      BY <1>3, TypeHalves, Zenon DEF SignalLink, Inv, FlagsOK, flagVars, handlerVars
    <2>2. ValuesOK' /\ TargetInv' /\ NamedFirst' /\ FlagInv'
      BY <1>3 DEF SignalLink, Inv, TypeOK, ValuesOK, IInv, TargetInv, NamedFirst, FlagInv,
         Linked, Creds, Ssids, NoSsid, connectorVars, loopVars, flagVars, nameVars,
         handlerVars, driverVars
    <2>3. BeliefInv' /\ NameInv' /\ OffInv'
      BY <1>3 DEF SignalLink, Inv, TypeOK, ValuesOK, IInv, TargetInv, NamedFirst, FlagInv,
         Linked, Creds, Ssids, NoSsid, connectorVars, loopVars, flagVars, nameVars,
         handlerVars, driverVars, BeliefInv, NameInv, OffInv, Believed
    <2> QED BY <2>1, <2>2, <2>3, TypeHalves DEF Inv, IInv
  <1>4. ASSUME Reconnect, MayReconnect, ConnectAccepted PROVE Inv'
    <2>1. FlagsOK'
      BY <1>4, TypeHalves, Zenon DEF Reconnect, Inv, FlagsOK, flagVars, handlerVars
    <2>2. ValuesOK' /\ TargetInv' /\ NamedFirst' /\ FlagInv'
      BY <1>4, Calls DEF Reconnect, ConnectAccepted, Inv, TypeOK, ValuesOK, IInv,
         TargetInv, NamedFirst, FlagInv, Linked, Creds, Ssids, NoSsid, connectorVars,
         loopVars, flagVars, nameVars, handlerVars, driverVars
    <2>3. BeliefInv' /\ NameInv' /\ OffInv'
      BY <1>4, CallKeeps DEF Reconnect, flagVars
    <2> QED BY <2>1, <2>2, <2>3, TypeHalves DEF Inv, IInv
  <1>5. ASSUME Reconnect, UNCHANGED driverVars PROVE Inv'
    <2>1. FlagsOK'
      BY <1>5, TypeHalves, Zenon DEF Reconnect, Inv, FlagsOK, flagVars, handlerVars
    <2>2. ValuesOK' /\ TargetInv' /\ NamedFirst' /\ FlagInv'
      BY <1>5 DEF Reconnect, Inv, TypeOK, ValuesOK, IInv, TargetInv, NamedFirst, FlagInv,
         Linked, Creds, Ssids, NoSsid, connectorVars, loopVars, flagVars, nameVars,
         handlerVars, driverVars
    <2>3. BeliefInv' /\ NameInv' /\ OffInv'
      BY <1>5, Kept DEF Reconnect, flagVars, driverVars
    <2> QED BY <2>1, <2>2, <2>3, TypeHalves DEF Inv, IInv
  <1> QED BY <1>1, <1>2, <1>3, <1>4, <1>5 DEF Reconnect

\* The driver obtains or loses the link on its own.
LEMMA DriverInv ==
    ASSUME Inv, Obtain \/ Lose
    PROVE  Inv'
  <1>0. events \in Seq(Event)
    BY DEF Inv, TypeOK
  <1> DEFINE e == IF Obtain THEN GotIp(target) ELSE Disconnected(target)
  <1>1. /\ target \in Creds /\ Linked
        /\ drv' \in {"idle", "ip"} /\ events' = Append(events, e)
        /\ UNCHANGED <<connectorVars, bits, flagVars, nameVars, handlerVars,
                       config, target>>
    BY DEF Obtain, Lose, Linked, Inv, IInv, TargetInv
  <1>2. e \in Event /\ e \in LinkEvent /\ (e.kind = "STA_GOT_IP" <=> drv' = "ip")
    BY <1>1, LinkEvents DEF Obtain, Lose
  <1> HIDE DEF e
  <1>3. ~NoLink(events') /\ Says(events', e.kind = "STA_GOT_IP") /\ events' \in Seq(Event)
    BY <1>0, <1>1, <1>2, AppendLink
  <1>4. Says(events', drv' = "ip")
    BY <1>2, <1>3 DEF Says
  <1>5. FlagsOK'
    BY <1>1, TypeHalves, Zenon DEF Inv, FlagsOK, flagVars, handlerVars
  <1>6. ValuesOK' /\ TargetInv' /\ NamedFirst' /\ FlagInv'
    BY <1>1, <1>3 DEF Inv, TypeOK, ValuesOK, IInv, TargetInv, NamedFirst, FlagInv, Linked,
       Creds, Ssids, NoSsid, connectorVars, loopVars, flagVars, nameVars, handlerVars,
       driverVars
  <1>7. BeliefInv' /\ NameInv' /\ OffInv'
    BY <1>1, <1>3, <1>4 DEF Inv, IInv, BeliefInv, NameInv, OffInv, Believed, Linked,
       flagVars, nameVars, handlerVars
  <1> QED BY <1>5, <1>6, <1>7, TypeHalves DEF Inv, IInv

\* Every step of connector, handler and driver keeps the invariant.
LEMMA StepInv == Inv /\ [Next]_vars => Inv'
  <1> SUFFICES ASSUME Inv, [Next]_vars PROVE Inv'
    OBVIOUS
  <1>1. CASE Connector
    BY <1>1, LocalInv, CallInv, StartInv DEF Connector
  <1>2. CASE Handler
    BY <1>2, TakeInv, HandleInv DEF Handler
  <1>3. CASE Driver
    BY <1>3, DriverInv DEF Driver
  <1>4. CASE UNCHANGED vars
    BY <1>4 DEF vars, Inv, TypeOK, ValuesOK, IInv, TargetInv, NamedFirst, FlagInv, Linked,
       Creds, Ssids, NoSsid, connectorVars, loopVars, flagVars, nameVars, handlerVars,
       driverVars, BeliefInv, NameInv, OffInv, Believed
  <1> QED BY <1>1, <1>2, <1>3, <1>4 DEF Next

-----------------------------------------------------------------------------
(* Theorems.                                                               *)

\* The invariant that ties driver, queue and statics together holds always.
THEOREM Invariance == Spec => []Inv
  BY InitInv, StepInv, PTL DEF Spec

\* Every static of network.c keeps its type.
THEOREM TypeCorrect == Spec => []TypeOK
  <1>1. Inv => TypeOK
    BY DEF Inv
  <1> QED BY <1>1, Invariance, PTL

\* network_connected and connected_ssid are right whenever the event loop
\* has caught up with the driver.
THEOREM BeliefIsRight == Spec => []SettledBelief
  <1>1. Inv => SettledBelief
    <2> SUFFICES ASSUME Inv, Settled PROVE connected = (drv = "ip")
                                           /\ ssid = IF drv = "ip" THEN target ELSE NoSsid
      BY DEF SettledBelief
    <2>1. NoLink(events) /\ handler = "idle"
      BY DEF Settled, NoLink, LinkAt
    <2>2. connected <=> drv = "ip"
      BY <2>1 DEF Inv, IInv, BeliefInv, Believed
    <2>3. connected \in BOOLEAN
      BY DEF Inv, TypeOK
    <2>4. ssid = IF drv = "ip" THEN target ELSE NoSsid
      BY <2>1, <2>2 DEF Inv, IInv, BeliefInv, NameInv
    <2> QED BY <2>2, <2>3, <2>4
  <1> QED BY <1>1, Invariance, PTL

\* A connected application can always read the name of its network.
THEOREM NameIsKnown == Spec => []LinkHasSsid
  <1>1. Inv => LinkHasSsid
    BY DEF Inv, IInv, NameInv, Believed, LinkHasSsid
  <1> QED BY <1>1, Invariance, PTL

\* A failed connection leaves nothing behind.
THEOREM FailureCleansUp == Spec => []FailureIsClean
  <1>1. Inv => FailureIsClean
    <2> SUFFICES ASSUME Inv, wc = "failed"
                 PROVE  /\ drv = "off" /\ ~auto /\ ~manual
                        /\ Settled => ~connected /\ ~started /\ bits = {} /\ ssid = NoSsid
      BY DEF FailureIsClean
    <2>1. drv = "off" /\ ~auto /\ ~manual
      BY DEF Inv, IInv, FlagInv
    <2>2. ASSUME Settled PROVE ~connected /\ ~started /\ bits = {} /\ ssid = NoSsid
      <3>1. NoLink(events) /\ handler = "idle" /\ ~EndsStopped(events)
        BY <2>2 DEF Settled, NoLink, LinkAt, EndsStopped
      <3>2. ~connected /\ ssid = NoSsid
        BY <2>1, <3>1 DEF Inv, IInv, BeliefInv, NameInv, Believed
      <3> QED BY <2>1, <3>1, <3>2 DEF Inv, IInv, OffInv
    <2> QED BY <2>1, <2>2
  <1> QED BY <1>1, Invariance, PTL

\* Loop and handler never both drive the radio.
THEOREM OneAtATime == Spec => []OneDriver
  <1>1. Inv => OneDriver
    BY DEF Inv, IInv, FlagInv, OneDriver, MayReconnect
  <1> QED BY <1>1, Invariance, PTL

-----------------------------------------------------------------------------
(* How long network_wifi_connect_main can take.                            *)

\* The steps of one attempt that are left, from where the connector is in it.
AttemptPart ==
    [p \in {"attempt", "connect", "wait", "abandon", "drain", "backoff"} |->
       CASE p = "attempt" -> 6 [] p = "connect" -> 5 [] p = "wait" -> 4
         [] p = "abandon" -> 3 [] p = "drain" -> 2 [] p = "backoff" -> 1]

\* The steps before the first credential is configured.
StartPart ==
    [p \in {"begin", "start", "waitStart", "checkStart", "configure"} |->
       CASE p = "begin" -> 4 [] p = "start" -> 3 [] p = "waitStart" -> 2
         [] p = "checkStart" -> 1 [] p = "configure" -> 0]

\* A credential takes its configuration and its attempts.
CredSteps == 6 * RetryCount + 1

\* How many steps the connector may still take, at most.
StepsLeft ==
    CASE wc \in {"connected", "failed"} -> 0
      [] wc \in {"succeed", "stop"} -> 1
      [] wc = "giveUp" -> 2
      [] wc \in DOMAIN AttemptPart ->
           2 + (numCreds - cred) * CredSteps + 6 * (RetryCount - attempt) + AttemptPart[wc]
      [] wc \in DOMAIN StartPart ->
           2 + (numCreds - cred) * CredSteps + CredSteps + StartPart[wc]

\* Only a device without any credential has none to try, and it fails at once.
HasCredential == cred <= numCreds \/ (numCreds = 0 /\ cred = 1 /\ wc \in {"begin", "failed"})

\* The connector tries credentials that it has found.
LEMMA CredentialKept == Spec => []HasCredential
<1>1. Init => HasCredential
  BY CredsAssumption DEF Init, HasCredential
<1>2. ASSUME Inv, HasCredential, [Next]_vars PROVE HasCredential'
  <2> USE <1>2
  <2>1. CASE Configure \/ Connect \/ WaitForLink \/ Drain
    BY <2>1, SMT DEF HasCredential, Inv, TypeOK, Creds, Configure, Connect, WaitForLink, Drain,
      NextCredential, AttemptFailed
  <2>2. CASE Begin
    BY <2>2, SMT DEF HasCredential, Inv, TypeOK, Begin, loopVars
  <2>3. CASE StartRadio \/ WaitStart \/ CheckStart \/ StartAttempt \/ Succeed
    BY <2>3, SMT DEF HasCredential, StartRadio, WaitStart, CheckStart, StartAttempt, Succeed,
      loopVars
  <2>4. CASE Abandon \/ Backoff \/ GiveUp \/ StopRadio
    BY <2>4, SMT DEF HasCredential, Abandon, Backoff, GiveUp, StopRadio, loopVars
  <2>5. CASE Handler \/ Driver \/ UNCHANGED vars
    <3>1. UNCHANGED connectorVars
      BY <2>5, Zenon DEF Handler, Driver, OnStart, OnStop, OnDisconnected, ReportLoss, Reconnect,
        OnGotIp, ReportLink, SignalLink, Obtain, Lose, vars
    <3> QED BY <3>1 DEF HasCredential, connectorVars, loopVars
  <2> QED BY <2>1, <2>2, <2>3, <2>4, <2>5 DEF Next, Connector
<1> QED BY <1>1, <1>2, Invariance, PTL DEF Spec

\* The terms of StepsLeft in the two parts of the loop.
LEMMA StepsValue ==
    /\ wc \in {"connected", "failed"} => StepsLeft = 0
    /\ wc \in {"succeed", "stop"} => StepsLeft = 1
    /\ wc = "giveUp" => StepsLeft = 2
    /\ wc \in {"attempt", "connect", "wait", "abandon", "drain", "backoff"} =>
         StepsLeft = 2 + (numCreds - cred) * CredSteps + 6 * (RetryCount - attempt)
                       + AttemptPart[wc]
    /\ wc \in {"begin", "start", "waitStart", "checkStart", "configure"} =>
         StepsLeft = 2 + (numCreds - cred) * CredSteps + CredSteps + StartPart[wc]
  BY DEF StepsLeft, AttemptPart, StartPart

\* What the parts are.
LEMMA Parts ==
    /\ AttemptPart["attempt"] = 6 /\ AttemptPart["connect"] = 5 /\ AttemptPart["wait"] = 4
    /\ AttemptPart["abandon"] = 3 /\ AttemptPart["drain"] = 2 /\ AttemptPart["backoff"] = 1
    /\ StartPart["begin"] = 4 /\ StartPart["start"] = 3 /\ StartPart["waitStart"] = 2
    /\ StartPart["checkStart"] = 1 /\ StartPart["configure"] = 0
  BY DEF AttemptPart, StartPart

\* The credentials left, times the steps of each.
Remaining == (numCreds - cred) * CredSteps

\* What a product with the steps of a credential is, and with one credential less.
LEMMA Product ==
    ASSUME NEW L \in Int
    PROVE  /\ CredSteps \in Nat /\ CredSteps = 6 * RetryCount + 1
           /\ L * CredSteps \in Int
           /\ L >= -1 => L * CredSteps >= -CredSteps
           /\ (L - 1) * CredSteps = L * CredSteps - CredSteps
           /\ L >= 0 => L * CredSteps >= 0
           /\ L <= MaxCreds => L * CredSteps <= MaxCreds * CredSteps
<1> DEFINE P == CredSteps
<1>1. P \in Nat /\ P = 6 * RetryCount + 1
  BY RetryAssumption DEF CredSteps
<1> HIDE DEF P
<1>2. L * P \in Int /\ (L >= -1 => L * P >= -P) /\ (L - 1) * P = L * P - P
  BY <1>1
<1>3. L >= 0 => L * P >= 0
  BY <1>1
<1>4. L <= MaxCreds => L * P <= MaxCreds * P
  BY <1>1, CredsAssumption
<1> QED BY <1>1, <1>2, <1>3, <1>4 DEF P

\* The steps left, in terms of what remains after this credential.
LEMMA StepsBounds ==
    ASSUME Inv, HasCredential
    PROVE  /\ Remaining \in Int /\ Remaining >= -CredSteps /\ Remaining <= MaxCreds * CredSteps
           /\ wc \notin {"begin", "failed"} => Remaining >= 0
           /\ wc \in {"connected", "failed"} => StepsLeft = 0
           /\ wc \in {"succeed", "stop"} => StepsLeft = 1
           /\ wc = "giveUp" => StepsLeft = 2
           /\ wc \in {"attempt", "connect", "wait", "abandon", "drain", "backoff"} =>
                StepsLeft = 2 + Remaining + 6 * (RetryCount - attempt) + AttemptPart[wc]
           /\ wc \in {"begin", "start", "waitStart", "checkStart", "configure"} =>
                StepsLeft = 2 + Remaining + CredSteps + StartPart[wc]
<1>1. /\ numCreds - cred \in Int /\ numCreds - cred >= -1 /\ numCreds - cred <= MaxCreds
      /\ wc \notin {"begin", "failed"} => numCreds - cred >= 0
  BY CredsAssumption, SMT DEF Inv, TypeOK, HasCredential, Creds
<1>2. /\ Remaining \in Int /\ Remaining >= -CredSteps /\ Remaining <= MaxCreds * CredSteps
      /\ wc \notin {"begin", "failed"} => Remaining >= 0
  BY <1>1, Product DEF Remaining
<1>3. (numCreds - cred) * CredSteps = Remaining
  BY DEF Remaining
<1> QED BY <1>2, <1>3, StepsValue

\* What remains changes with the credential only.
LEMMA RemainingStep ==
    ASSUME Inv, numCreds' = numCreds
    PROVE  /\ cred' = cred => Remaining' = Remaining
           /\ cred' = cred + 1 => Remaining' = Remaining - CredSteps
<1>1. CredSteps' = CredSteps
  BY DEF CredSteps
<1>2. numCreds - cred \in Int /\ (cred' = cred + 1 => numCreds' - cred' = (numCreds - cred) - 1)
  BY SMT DEF Inv, TypeOK, Creds
<1> QED BY <1>1, <1>2, Product DEF Remaining

\* Where a step of the connector leads, and with how many steps left.
LEMMA StepsNext ==
    ASSUME Connector
    PROVE  /\ wc' \in {"connected", "failed"} => StepsLeft' = 0
           /\ wc' \in {"succeed", "stop"} => StepsLeft' = 1
           /\ wc' = "giveUp" => StepsLeft' = 2
           /\ wc' \in {"attempt", "connect", "wait", "abandon", "drain", "backoff"} =>
                StepsLeft' = 2 + Remaining' + 6 * (RetryCount - attempt') + AttemptPart[wc']
           /\ wc' \in {"begin", "start", "waitStart", "checkStart", "configure"} =>
                StepsLeft' = 2 + Remaining' + CredSteps + StartPart[wc']
  BY DEF StepsLeft, Remaining, AttemptPart, StartPart, CredSteps

\* An attempt or a credential given up is behind the connector.
LEMMA GivenUp ==
    ASSUME Inv, HasCredential, numCreds' = numCreds, Connector,
           \/ AttemptFailed /\ wc \in {"connect", "wait", "drain"}
           \/ NextCredential /\ wc = "configure"
    PROVE  StepsLeft' < StepsLeft
<1>1. /\ attempt \in 1..RetryCount /\ CredSteps \in Nat /\ CredSteps = 6 * RetryCount + 1
      /\ Remaining \in Int /\ Remaining >= 0
      /\ cred \in Nat
  <2>1. attempt \in 1..RetryCount /\ cred \in Nat
    BY DEF Inv, TypeOK, Creds
  <2>2. Remaining \in Int /\ Remaining >= 0
    BY StepsBounds
  <2> QED BY <2>1, <2>2, Product
<1>2. /\ StepsLeft \in Int
      /\ \/ StepsLeft >= 2 + Remaining + 2
         \/ wc = "configure" /\ StepsLeft = 2 + Remaining + CredSteps
  BY <1>1, StepsBounds, Parts, RetryAssumption, SMT
<1>3. CASE wc' = "backoff" /\ cred' = cred /\ attempt' = attempt /\ wc # "configure"
  BY <1>1, <1>2, <1>3, StepsBounds, StepsNext, RemainingStep, Parts, RetryAssumption, SMT
<1>4. CASE wc' = "configure" /\ cred' = cred + 1
  BY <1>1, <1>2, <1>4, StepsNext, RemainingStep, Parts, RetryAssumption, SMT
<1>5. CASE wc' = "giveUp"
  BY <1>1, <1>2, <1>5, StepsNext, RetryAssumption, SMT
<1> QED BY <1>3, <1>4, <1>5 DEF AttemptFailed, NextCredential

\* A step of the connector is one of the steps that it had left.
LEMMA StepSpent ==
    ASSUME Inv, HasCredential, Inv', Connector
    PROVE  StepsLeft' < StepsLeft
<1>1. /\ numCreds' = numCreds
      /\ attempt \in 1..RetryCount /\ attempt' \in 1..RetryCount
      /\ wc = "backoff" => attempt < RetryCount
      /\ Remaining \in Int /\ Remaining >= -CredSteps
      /\ wc \notin {"begin", "failed"} => Remaining >= 0
      /\ CredSteps \in Nat /\ CredSteps = 6 * RetryCount + 1
  <2>1. numCreds' = numCreds
    BY SMT DEF Connector, Begin, StartRadio, WaitStart, CheckStart, Configure, StartAttempt,
      Connect, WaitForLink, Succeed, Abandon, Drain, Backoff, GiveUp, StopRadio, loopVars
  <2> QED BY <2>1, StepsBounds, Product DEF Inv, TypeOK, IInv, TargetInv
<1> USE RetryAssumption, StepsBounds, StepsNext, RemainingStep, Parts, <1>1
<1>2. CASE Begin \/ StartRadio \/ WaitStart \/ CheckStart
  BY <1>2, SMT DEF Begin, StartRadio, WaitStart, CheckStart, loopVars
<1>3. CASE Configure
  <2>1. CASE NextCredential
    BY <1>3, <2>1, GivenUp DEF Configure
  <2>2. CASE wc' = "attempt" /\ attempt' = 1 /\ UNCHANGED cred
    BY <1>3, <2>2, SMT DEF Configure
  <2> QED BY <1>3, <2>1, <2>2 DEF Configure
<1>4. CASE StartAttempt \/ Abandon
  BY <1>4, SMT DEF StartAttempt, Abandon, loopVars
<1>5. CASE Connect
  <2>1. CASE AttemptFailed
    BY <1>5, <2>1, GivenUp DEF Connect
  <2>2. CASE wc' = "wait" /\ UNCHANGED <<cred, attempt>>
    BY <1>5, <2>2, SMT DEF Connect
  <2> QED BY <1>5, <2>1, <2>2 DEF Connect
<1>6. CASE WaitForLink
  <2>1. CASE AttemptFailed
    BY <1>6, <2>1, GivenUp DEF WaitForLink
  <2>2. CASE wc' \in {"succeed", "abandon"} /\ UNCHANGED <<cred, attempt>>
    BY <1>6, <2>2, SMT DEF WaitForLink
  <2> QED BY <1>6, <2>1, <2>2 DEF WaitForLink
<1>7. CASE Drain
  BY <1>7, GivenUp DEF Drain
<1>8. CASE Backoff
  BY <1>8, SMT DEF Backoff
<1>9. CASE Succeed \/ GiveUp \/ StopRadio
  BY <1>9, SMT DEF Succeed, GiveUp, StopRadio
<1> QED BY <1>2, <1>3, <1>4, <1>5, <1>6, <1>7, <1>8, <1>9 DEF Connector

\* Nobody else takes a step of the connector or gives it one more.
LEMMA StepsKept ==
    ASSUME Handler \/ Driver \/ UNCHANGED vars
    PROVE  UNCHANGED StepsLeft
<1>1. UNCHANGED connectorVars
  BY Zenon DEF Handler, Driver, OnStart, OnStop, OnDisconnected, ReportLoss, Reconnect,
    OnGotIp, ReportLink, SignalLink, Obtain, Lose, vars
<1> QED BY <1>1 DEF StepsLeft, AttemptPart, StartPart, CredSteps, connectorVars, loopVars

\* What network_wifi_connect_main may still take is a number from the start, at
\* most this many steps,
StepsBounded == StepsLeft \in 0..(MaxCreds * CredSteps + CredSteps + 6)

\* and only its own steps use it up: whatever the driver, the access points and
\* the event handler do, the connector's loop cannot be sent round once more.
StepsUsedUp ==
    [][IF Connector THEN StepsLeft' < StepsLeft ELSE StepsLeft' = StepsLeft]_vars

\* network_wifi_connect_main takes no more steps than the credentials and
\* RETRY_COUNT allow, and is done when they are used up.  That it takes each,
\* every wait having a timeout, is the fairness under which TLC checks
\* ConnectEnds (network.c:448-512).
THEOREM ConnectIsFinite == Spec => []StepsBounded /\ StepsUsedUp
<1>1. Inv /\ HasCredential => StepsBounded
  <2> SUFFICES ASSUME Inv, HasCredential PROVE StepsBounded OBVIOUS
  <2>1. /\ attempt \in 1..RetryCount /\ CredSteps \in Nat /\ CredSteps = 6 * RetryCount + 1
        /\ MaxCreds * CredSteps \in Nat
    BY Product, CredsAssumption DEF Inv, TypeOK
  <2>2. wc \in {"begin", "start", "waitStart", "checkStart", "configure", "attempt",
                "connect", "wait", "succeed", "abandon", "drain", "backoff", "giveUp",
                "stop", "connected", "failed"}
    BY DEF Inv, TypeOK
  <2> QED BY <2>1, <2>2, StepsBounds, Parts, RetryAssumption, SMT DEF StepsBounded
<1>2. Inv /\ HasCredential /\ Inv' /\ [Next]_vars
        => [IF Connector THEN StepsLeft' < StepsLeft ELSE StepsLeft' = StepsLeft]_vars
  BY StepSpent, StepsKept DEF Next
<1> QED BY <1>1, <1>2, Invariance, CredentialKept, PTL DEF Spec, StepsUsedUp
=============================================================================
