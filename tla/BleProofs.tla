----------------------------- MODULE BleProofs -----------------------------
(***************************************************************************)
(* Proofs about BLE: the NimBLE host behind ble_common.c, for any number   *)
(* of tasks that bring it up and take it down at the same time, and the    *)
(* commands to robots, for any robots and any tasks that give them.        *)
(*                                                                         *)
(* Of the host, the type invariant, SyncIsFresh and FlagsAgree together    *)
(* are inductive.  MotionIsGuarded is not: the timer's callback clears a   *)
(* link on the strength of having closed it (CallbackCloses), a robot's    *)
(* link must not be another's (LinksDiffer), and no task may remember a    *)
(* link that is made only later (LinksAreOld).                             *)
(***************************************************************************)
EXTENDS BleHost, MotorPulse, TLAPS

BleInv == BleHostTypeOK /\ SyncIsFresh /\ FlagsAgree

\* At boot there is neither a port nor a flag.
LEMMA BleInitGood == BleHostInit => BleInv
  BY SMT DEF BleHostInit, BleInv, BleHostTypeOK, SyncIsFresh, FreshSync, FlagsAgree, Flags,
             Roles, NoRole, Upsets, UP, GIVEN

\* The host task and its callbacks keep the invariant.
LEMMA HostGood == ASSUME BleInv, HostSyncs \/ HostResets \/ HostEnds PROVE BleInv'
<1>1. CASE HostSyncs
  <2>1. BleHostTypeOK'
    BY <1>1, SMT
      DEF BleInv, BleHostTypeOK, HostSyncs, flagVars, semVars, Flags, Roles, NoRole, Upsets,
        UP, GIVEN
  <2>2. SyncIsFresh'
    BY <1>1, SMT DEF BleInv, SyncIsFresh, FreshSync, HostSyncs, flagVars, semVars
  <2>3. FlagsAgree'
    BY <1>1, SMT DEF BleInv, BleHostTypeOK, FlagsAgree, HostSyncs, flagVars, semVars, UP
  <2> QED BY <2>1, <2>2, <2>3 DEF BleInv
<1>2. CASE HostResets
  <2>1. BleHostTypeOK'
    BY <1>2, SMT
      DEF BleInv, BleHostTypeOK, HostResets, flagVars, semVars, Flags, Roles, NoRole, Upsets,
        UP, GIVEN
  <2>2. SyncIsFresh'
    BY <1>2, SMT DEF BleInv, SyncIsFresh, FreshSync, HostResets, flagVars, semVars
  <2>3. FlagsAgree'
    BY <1>2, SMT DEF BleInv, BleHostTypeOK, FlagsAgree, HostResets, flagVars, semVars, UP
  <2> QED BY <2>1, <2>2, <2>3 DEF BleInv
<1>3. CASE HostEnds
  <2>1. BleHostTypeOK'
    BY <1>3, SMT
      DEF BleInv, BleHostTypeOK, HostEnds, flagVars, semVars, Flags, Roles, NoRole, Upsets, UP,
        GIVEN
  <2>2. SyncIsFresh'
    BY <1>3, SMT DEF BleInv, SyncIsFresh, FreshSync, HostEnds, flagVars, semVars
  <2>3. FlagsAgree'
    BY <1>3, SMT DEF BleInv, BleHostTypeOK, FlagsAgree, HostEnds, flagVars, semVars, UP
  <2> QED BY <2>1, <2>2, <2>3 DEF BleInv
<1> QED BY <1>1, <1>2, <1>3

\* So does a call of ble_common_ensure_ready.
LEMMA ReadyGood ==
    ASSUME BleInv, NEW c \in BleUsers,
           EnsureReady(c) \/ BringUp(c) \/ BringUpFails(c) \/ Waited(c)
    PROVE  BleInv'
<1>1. CASE EnsureReady(c)
  <2>1. BleHostTypeOK'
    BY <1>1, SMT
      DEF BleInv, BleHostTypeOK, EnsureReady, UserAt, flagVars, semVars, Flags, Roles, NoRole,
        Upsets, UP, GIVEN
  <2>2. SyncIsFresh'
    BY <1>1, SMT DEF BleInv, SyncIsFresh, FreshSync, EnsureReady, flagVars, semVars
  <2>3. FlagsAgree'
    BY <1>1, SMT
      DEF BleInv, BleHostTypeOK, FlagsAgree, EnsureReady, UserAt, flagVars, semVars, UP
  <2> QED BY <2>1, <2>2, <2>3 DEF BleInv
<1>2. CASE BringUp(c)
  <2>1. BleHostTypeOK'
    BY <1>2, SMT
      DEF BleInv, BleHostTypeOK, BringUp, Starting, UserAt, flagVars, semVars, Flags, Roles,
        NoRole, Upsets, UP, GIVEN
  <2>2. SyncIsFresh'
    BY <1>2, SMT DEF BleInv, SyncIsFresh, FreshSync, BringUp, Starting, flagVars, semVars
  <2>3. FlagsAgree'
    BY <1>2, SMT
      DEF BleInv, BleHostTypeOK, FlagsAgree, BringUp, Starting, UserAt, flagVars, semVars, UP
  <2> QED BY <2>1, <2>2, <2>3 DEF BleInv
<1>3. CASE BringUpFails(c)
  <2>1. BleHostTypeOK'
    BY <1>3, SMT
      DEF BleInv, BleHostTypeOK, BringUpFails, UserAt, flagVars, semVars, Flags, Roles, NoRole,
        Upsets, UP, GIVEN
  <2>2. SyncIsFresh'
    BY <1>3, SMT DEF BleInv, SyncIsFresh, FreshSync, BringUpFails, flagVars, semVars
  <2>3. FlagsAgree'
    BY <1>3, SMT
      DEF BleInv, BleHostTypeOK, FlagsAgree, BringUpFails, UserAt, flagVars, semVars, UP
  <2> QED BY <2>1, <2>2, <2>3 DEF BleInv
<1>4. CASE Waited(c)
  <2>1. BleHostTypeOK'
    <3>1. syncGiven' \subseteq {GIVEN}
      <4>1. syncGiven' = {} \/ syncGiven' = syncGiven
        BY <1>4, Zenon DEF Waited
      <4> QED BY <4>1, SMT DEF BleInv, BleHostTypeOK
    <3>2. user' \in [BleUsers -> {"away", "wait_sync", "wait_stop"}]
      BY <1>4, SMT DEF BleInv, BleHostTypeOK, Waited, UserAt
    <3> QED BY <1>4, <3>1, <3>2, Zenon DEF BleInv, BleHostTypeOK, Waited, flagVars
  <2>2. SyncIsFresh'
    BY <1>4, SMT DEF BleInv, SyncIsFresh, FreshSync, Waited, flagVars, semVars
  <2>3. FlagsAgree'
    BY <1>4, SMT DEF BleInv, BleHostTypeOK, FlagsAgree, Waited, UserAt, flagVars, semVars, UP
  <2> QED BY <2>1, <2>2, <2>3 DEF BleInv
<1> QED BY <1>1, <1>2, <1>3, <1>4

\* So does a call of ble_common_deinit.
LEMMA DeinitGood ==
    ASSUME BleInv, NEW c \in BleUsers,
           DeinitStops(c) \/ DeinitEnds(c) \/ DeinitTimesOut(c) \/ DeinitPort(c)
    PROVE  BleInv'
<1>1. CASE DeinitStops(c)
  <2>1. BleHostTypeOK'
    BY <1>1, SMT
      DEF BleInv, BleHostTypeOK, DeinitStops, UserAt, flagVars, semVars, Flags, Roles, NoRole,
        Upsets, UP, GIVEN
  <2>2. SyncIsFresh'
    BY <1>1, SMT DEF BleInv, SyncIsFresh, FreshSync, DeinitStops, flagVars, semVars
  <2>3. FlagsAgree'
    BY <1>1, SMT
      DEF BleInv, BleHostTypeOK, FlagsAgree, DeinitStops, UserAt, flagVars, semVars, UP
  <2> QED BY <2>1, <2>2, <2>3 DEF BleInv
<1>2. CASE DeinitEnds(c)
  <2>1. BleHostTypeOK'
    <3>1. flags' \subseteq Flags
      BY <1>2, SMT DEF BleInv, BleHostTypeOK, DeinitEnds
    <3>2. port' \subseteq {UP} /\ owner' \in Roles \union {NoRole}
      BY <1>2, SMT DEF BleInv, BleHostTypeOK, DeinitEnds, Roles, NoRole
    <3>3. UNCHANGED <<syncGiven, upset>> /\ stopGiven' = {} /\ host' = "none"
      BY <1>2, Zenon DEF DeinitEnds
    <3>4. user' \in [BleUsers -> {"away", "wait_sync", "wait_stop"}]
      BY <1>2, SMT DEF BleInv, BleHostTypeOK, DeinitEnds, UserAt
    <3> QED BY <3>1, <3>2, <3>3, <3>4, SMT DEF BleInv, BleHostTypeOK
  <2>2. SyncIsFresh'
    BY <1>2, SMT DEF BleInv, SyncIsFresh, FreshSync, DeinitEnds, flagVars, semVars
  <2>3. FlagsAgree'
    BY <1>2, SMT DEF BleInv, BleHostTypeOK, FlagsAgree, DeinitEnds, UserAt, flagVars, semVars, UP
  <2> QED BY <2>1, <2>2, <2>3 DEF BleInv
<1>3. CASE DeinitTimesOut(c)
  <2>1. BleHostTypeOK'
    BY <1>3, SMT
      DEF BleInv, BleHostTypeOK, DeinitTimesOut, UserAt, flagVars, semVars, Flags, Roles,
        NoRole, Upsets, UP, GIVEN
  <2>2. SyncIsFresh'
    BY <1>3, SMT DEF BleInv, SyncIsFresh, FreshSync, DeinitTimesOut, flagVars, semVars
  <2>3. FlagsAgree'
    BY <1>3, SMT
      DEF BleInv, BleHostTypeOK, FlagsAgree, DeinitTimesOut, UserAt, flagVars, semVars, UP
  <2> QED BY <2>1, <2>2, <2>3 DEF BleInv
<1>4. CASE DeinitPort(c)
  <2>1. BleHostTypeOK'
    <3>1. flags' \subseteq Flags /\ port' \subseteq {UP}
      BY <1>4, SMT DEF BleInv, BleHostTypeOK, DeinitPort
    <3>2. UNCHANGED <<semVars, user, host, upset>> /\ owner' = NoRole
      BY <1>4, Zenon DEF DeinitPort
    <3> QED BY <3>1, <3>2, SMT DEF BleInv, BleHostTypeOK, semVars
  <2>2. SyncIsFresh'
    BY <1>4, SMT DEF BleInv, SyncIsFresh, FreshSync, DeinitPort, flagVars, semVars
  <2>3. FlagsAgree'
    BY <1>4, SMT DEF BleInv, BleHostTypeOK, FlagsAgree, DeinitPort, UserAt, flagVars, semVars, UP
  <2> QED BY <2>1, <2>2, <2>3 DEF BleInv
<1> QED BY <1>1, <1>2, <1>3, <1>4

\* So does a change of the role owner.
LEMMA OwnerGood == ASSUME BleInv, NEW r \in Roles, Acquire(r) \/ Release(r) PROVE BleInv'
<1>1. CASE Acquire(r)
  <2>1. BleHostTypeOK'
    BY <1>1, SMT
      DEF BleInv, BleHostTypeOK, Acquire, flagVars, semVars, Flags, Roles, NoRole, Upsets, UP,
        GIVEN
  <2>2. SyncIsFresh'
    BY <1>1, SMT DEF BleInv, SyncIsFresh, FreshSync, Acquire, flagVars, semVars
  <2>3. FlagsAgree'
    BY <1>1, SMT DEF BleInv, BleHostTypeOK, FlagsAgree, Acquire, flagVars, semVars, UP
  <2> QED BY <2>1, <2>2, <2>3 DEF BleInv
<1>2. CASE Release(r)
  <2>1. BleHostTypeOK'
    BY <1>2, SMT
      DEF BleInv, BleHostTypeOK, Release, flagVars, semVars, Flags, Roles, NoRole, Upsets, UP,
        GIVEN
  <2>2. SyncIsFresh'
    BY <1>2, SMT DEF BleInv, SyncIsFresh, FreshSync, Release, flagVars, semVars
  <2>3. FlagsAgree'
    BY <1>2, SMT DEF BleInv, BleHostTypeOK, FlagsAgree, Release, flagVars, semVars, UP
  <2> QED BY <2>1, <2>2, <2>3 DEF BleInv
<1> QED BY <1>1, <1>2

\* The invariant holds in every behaviour.
LEMMA BleInvariant == BleHostSpec => []BleInv
<1>1. BleInv /\ [BleHostNext]_bleVars => BleInv'
  <2>1. ASSUME BleInv, UNCHANGED bleVars PROVE BleInv'
    BY <2>1, SMT DEF BleInv, BleHostTypeOK, SyncIsFresh, FreshSync, FlagsAgree, bleVars,
                     flagVars, semVars
  <2> QED BY <2>1, HostGood, ReadyGood, DeinitGood, OwnerGood DEF BleHostNext
<1> QED BY BleInitGood, <1>1, PTL DEF BleHostSpec

\* Every variable of ble_common.c keeps its type.
THEOREM BleTypeCorrect == BleHostSpec => []BleHostTypeOK
<1>1. BleInv => BleHostTypeOK
  BY DEF BleInv
<1> QED BY BleInvariant, <1>1, PTL

(***************************************************************************)
(* ble_common_has_fresh_sync holds only of a host that has synchronised    *)
(* since it was started, however many tasks start and stop it: but for a   *)
(* host that has reset itself, a role is never given for a dead host.      *)
(***************************************************************************)
THEOREM SyncStaysFresh == BleHostSpec => []SyncIsFresh
<1>1. BleInv => SyncIsFresh
  BY DEF BleInv
<1> QED BY BleInvariant, <1>1, PTL

(***************************************************************************)
(* The flags of ble_common.c tell the truth about NimBLE's port and task,  *)
(* and a stopping host is waited for unless a wait has timed out.          *)
(***************************************************************************)
THEOREM FlagsTellNimble == BleHostSpec => []FlagsAgree
<1>1. BleInv => FlagsAgree
  BY DEF BleInv
<1> QED BY BleInvariant, <1>1, PTL

-----------------------------------------------------------------------------
(* Commands to robots. *)

\* Nobody remembers a link that has not been made yet.
LinksAreOld ==
    /\ \A r \in Robots : radio[r] <= lastLink /\ entry[r] <= lastLink
    /\ \A c \in Commanders : order[c].on <= lastLink
    /\ \A p \in pulses : p.on <= lastLink
    /\ watched <= lastLink /\ idler.on <= lastLink /\ refresh <= lastLink

\* No two robots share a link.
LinksDiffer ==
    \A r1, r2 \in Robots : radio[r1] = radio[r2] /\ r1 # r2 => radio[r1] = NoLink

\* The callback that goes on to clear the watched link has closed it, or it was gone.
CallbackCloses ==
    idler.at = "clearing" /\ Linked(idler.on) => idler.on \in closing

MotorInv == MotorTypeOK /\ LinksAreOld /\ LinksDiffer /\ CallbackCloses /\ MotionIsGuarded

\* At first there is no link, nothing moves and nobody is at work.
LEMMA MotorInitGood == MotorInit => MotorInv
  BY MotorAssumption, SMT
  DEF MotorInit, MotorInv, MotorTypeOK, LinksAreOld, LinksDiffer, CallbackCloses, MotionIsGuarded,
      NoLink, Links, Idle, Linked

\* A command begins on a link that its robot's entry knows, or on none.
LEMMA GiveOrderGood ==
    ASSUME MotorInv, NEW c \in Commanders, NEW r \in Robots, NEW w \in Commands, GiveOrder(c, r, w)
    PROVE  MotorInv'
<1> USE MotorAssumption DEF GiveOrder, robotVars, watchVars
<1>1. MotorTypeOK'
  <2>1. order' \in [Commanders -> {Idle} \union Orders]
    BY SMT DEF MotorInv, MotorTypeOK, Orders
  <2>2. given' \in 0..MaxOrders
    BY SMT DEF MotorInv, MotorTypeOK
  <2> QED BY <2>1, SMT DEF MotorInv, MotorTypeOK
<1>2. LinksAreOld' BY SMT DEF MotorInv, LinksAreOld
<1>3. LinksDiffer' BY SMT DEF MotorInv, LinksDiffer
<1>4. CallbackCloses' BY SMT DEF MotorInv, CallbackCloses, Linked
<1>5. MotionIsGuarded'
  BY SMT DEF MotorInv, MotionIsGuarded, Guarded, Idle
<1> QED BY <1>1, <1>2, <1>3, <1>4, <1>5 DEF MotorInv

\* A new link is unlike any that somebody still remembers, and has a command behind it.
LEMMA ConnectGood ==
    ASSUME MotorInv, NEW c \in Commanders, Connect(c)
    PROVE  MotorInv'
<1> USE MotorAssumption DEF Connect, watchVars
<1>0. order[c] \in [at : {"connecting"}, on : {NoLink}, robot : Robots, what : Commands]
  BY SMT DEF MotorInv, MotorTypeOK, Orders, Idle
<1>1. MotorTypeOK'
  <2>1. order' \in [Commanders -> {Idle} \union Orders]
    <3>1. lastLink + 1 \in Links
      BY SMT DEF MotorInv, MotorTypeOK, NoLink, Links
    <3> QED BY <1>0, <3>1, SMT DEF MotorInv, MotorTypeOK, Orders
  <2>2. radio' \in [Robots -> {NoLink} \union Links] /\ entry' \in [Robots -> {NoLink} \union Links]
        /\ lastLink' \in {NoLink} \union Links
    BY <1>0, SMT DEF MotorInv, MotorTypeOK, NoLink, Links
  <2> QED BY <2>1, <2>2, SMT DEF MotorInv, MotorTypeOK
<1>2. LinksAreOld'
  <2>1. \A r \in Robots : radio'[r] <= lastLink' /\ entry'[r] <= lastLink'
    BY <1>0, SMT DEF MotorInv, MotorTypeOK, LinksAreOld, NoLink, Links
  <2>2. \A d \in Commanders : order'[d].on <= lastLink'
    <3>1. lastLink \in Nat /\ order'[c].on = lastLink + 1
      BY <1>0, SMT DEF MotorInv, MotorTypeOK, NoLink, Links
    <3>2. \A d \in Commanders : order[d].on \in Nat /\ order[d].on <= lastLink
      BY SMT DEF MotorInv, MotorTypeOK, LinksAreOld, Orders, Idle, NoLink, Links
    <3>3. \A d \in Commanders : d # c => order'[d] = order[d]
      BY SMT DEF MotorInv, MotorTypeOK
    <3> QED BY <3>1, <3>2, <3>3, SMT
  <2> QED BY <2>1, <2>2, SMT DEF MotorInv, MotorTypeOK, LinksAreOld, NoLink, Links
<1>3. LinksDiffer'
  BY <1>0, SMT DEF MotorInv, MotorTypeOK, LinksAreOld, LinksDiffer, NoLink, Links
<1>4. CallbackCloses'
  BY <1>0, SMT DEF MotorInv, MotorTypeOK, LinksAreOld, CallbackCloses, Linked, NoLink, Links
<1>5. MotionIsGuarded'
  BY <1>0, SMT DEF MotorInv, MotorTypeOK, MotionIsGuarded, Guarded, NoLink
<1> QED BY <1>1, <1>2, <1>3, <1>4, <1>5 DEF MotorInv

\* A command without a link guards nothing when it gives up.
LEMMA ConnectFailsGood ==
    ASSUME MotorInv, NEW c \in Commanders, ConnectFails(c)
    PROVE  MotorInv'
<1> USE DEF ConnectFails, Ends, watchVars
<1>0. order[c].on = NoLink /\ order[c].robot \in Robots
  BY SMT DEF MotorInv, MotorTypeOK, Orders, Idle
<1>1. MotorTypeOK'
  <2>1. order' \in [Commanders -> {Idle} \union Orders]
    BY SMT DEF MotorInv, MotorTypeOK
  <2> QED BY <1>0, SMT DEF MotorInv, MotorTypeOK
<1>2. LinksAreOld'
  BY <1>0, SMT DEF MotorInv, LinksAreOld, Idle
<1>3. LinksDiffer'
  BY SMT DEF MotorInv, LinksDiffer
<1>4. CallbackCloses'
  BY SMT DEF MotorInv, CallbackCloses, Linked
<1>5. MotionIsGuarded'
  BY <1>0, SMT DEF MotorInv, MotionIsGuarded, Guarded
<1> QED BY <1>1, <1>2, <1>3, <1>4, <1>5 DEF MotorInv

\* Whoever sets a robot moving has a command on its link.
LEMMA SendMotionGood ==
    ASSUME MotorInv, NEW c \in Commanders, SendMotion(c)
    PROVE  MotorInv'
<1> USE DEF SendMotion, Stage
<1>0. order[c] \in [at : {"linked", "sent", "counted"}, on : Links, robot : Robots, what : Commands]
  BY SMT DEF MotorInv, MotorTypeOK, Orders, Idle
<1>1. MotorTypeOK'
  <2>1. order' \in [Commanders -> {Idle} \union Orders]
    BY <1>0, SMT DEF MotorInv, MotorTypeOK, Orders
  <2> QED BY <1>0, <2>1, SMT DEF MotorInv, MotorTypeOK
<1>2. LinksAreOld'
  BY SMT DEF MotorInv, LinksAreOld
<1>3. LinksDiffer'
  BY SMT DEF MotorInv, LinksDiffer
<1>4. CallbackCloses'
  BY SMT DEF MotorInv, CallbackCloses, Linked
<1>5. MotionIsGuarded'
  BY SMT DEF MotorInv, MotionIsGuarded, Guarded
<1> QED BY <1>1, <1>2, <1>3, <1>4, <1>5 DEF MotorInv

\* The STOPs it takes back were for its own link, or the robot counts as crossed.
LEMMA NextGenerationGood ==
    ASSUME MotorInv, NEW c \in Commanders, NextGeneration(c)
    PROVE  MotorInv'
<1> USE DEF NextGeneration, Stage, Crossing, robotVars
<1>0. order[c] \in [at : {"linked", "sent", "counted"}, on : Links, robot : Robots, what : Commands]
  BY SMT DEF MotorInv, MotorTypeOK, Orders, Idle
<1>1. MotorTypeOK'
  <2>1. order' \in [Commanders -> {Idle} \union Orders]
    BY <1>0, SMT DEF MotorInv, MotorTypeOK, Orders
  <2> QED BY <2>1, SMT DEF MotorInv, MotorTypeOK
<1>2. LinksAreOld'
  BY SMT DEF MotorInv, LinksAreOld
<1>3. LinksDiffer'
  BY SMT DEF MotorInv, LinksDiffer
<1>4. CallbackCloses'
  BY SMT DEF MotorInv, CallbackCloses, Linked
<1>5. MotionIsGuarded'
  BY SMT DEF MotionIsGuarded, Guarded
<1> QED BY <1>1, <1>2, <1>3, <1>4, <1>5 DEF MotorInv

\* A STOP only takes robots out of driving.
LEMMA SendStopGood ==
    ASSUME MotorInv, NEW c \in Commanders, SendStop(c)
    PROVE  MotorInv'
<1> USE DEF SendStop, Stage, WriteStop, watchVars
<1>0. order[c] \in [at : {"linked", "sent", "counted"}, on : Links, robot : Robots, what : Commands]
  BY SMT DEF MotorInv, MotorTypeOK, Orders, Idle
<1>1. MotorTypeOK'
  <2>1. order' \in [Commanders -> {Idle} \union Orders]
    BY <1>0, SMT DEF MotorInv, MotorTypeOK, Orders
  <2> QED BY <2>1, SMT DEF MotorInv, MotorTypeOK
<1>2. LinksAreOld'
  BY SMT DEF MotorInv, LinksAreOld
<1>3. LinksDiffer'
  BY SMT DEF MotorInv, LinksDiffer
<1>4. CallbackCloses'
  BY SMT DEF MotorInv, CallbackCloses, Linked
<1>5. MotionIsGuarded'
  BY SMT DEF MotorInv, MotionIsGuarded, Guarded
<1> QED BY <1>1, <1>2, <1>3, <1>4, <1>5 DEF MotorInv

\* A movement leaves with the timer on its link.
LEMMA StartPulseGood ==
    ASSUME MotorInv, NEW c \in Commanders, StartPulse(c)
    PROVE  MotorInv'
<1> USE DEF StartPulse, Ends, TouchActivity, Crossing, robotVars
<1>0. order[c] \in [at : {"linked", "sent", "counted"}, on : Links, robot : Robots, what : Commands]
  BY SMT DEF MotorInv, MotorTypeOK, Orders, Idle
<1>1. MotorTypeOK'
  <2>1. order' \in [Commanders -> {Idle} \union Orders]
    BY SMT DEF MotorInv, MotorTypeOK
  <2> QED BY <1>0, SMT DEF MotorInv, MotorTypeOK
<1>2. LinksAreOld'
  BY SMT DEF MotorInv, MotorTypeOK, LinksAreOld, NoLink, Links, Idle
<1>3. LinksDiffer'
  BY SMT DEF MotorInv, LinksDiffer
<1>4. CallbackCloses'
  BY SMT DEF MotorInv, CallbackCloses, Linked
<1>5. MotionIsGuarded'
  BY SMT DEF MotionIsGuarded, Guarded
<1> QED BY <1>1, <1>2, <1>3, <1>4, <1>5 DEF MotorInv

\* So does every other command.
LEMMA TouchGood ==
    ASSUME MotorInv, NEW c \in Commanders, Touch(c)
    PROVE  MotorInv'
<1> USE DEF Touch, Ends, TouchActivity, Crossing, robotVars
<1>0. order[c] \in [at : {"linked", "sent", "counted"}, on : Links, robot : Robots, what : Commands]
  BY SMT DEF MotorInv, MotorTypeOK, Orders, Idle
<1>1. MotorTypeOK'
  <2>1. order' \in [Commanders -> {Idle} \union Orders]
    BY SMT DEF MotorInv, MotorTypeOK
  <2> QED BY <1>0, SMT DEF MotorInv, MotorTypeOK
<1>2. LinksAreOld'
  BY SMT DEF MotorInv, MotorTypeOK, LinksAreOld, NoLink, Links, Idle
<1>3. LinksDiffer'
  BY SMT DEF MotorInv, LinksDiffer
<1>4. CallbackCloses'
  BY SMT DEF MotorInv, CallbackCloses, Linked
<1>5. MotionIsGuarded'
  BY SMT DEF MotionIsGuarded, Guarded
<1> QED BY <1>1, <1>2, <1>3, <1>4, <1>5 DEF MotorInv

\* A query that gives up closes its link.
LEMMA QueryAbortsGood ==
    ASSUME MotorInv, NEW c \in Commanders, QueryAborts(c)
    PROVE  MotorInv'
<1> USE DEF QueryAborts, Ends, watchVars
<1>0. order[c] \in [at : {"linked", "sent", "counted"}, on : Links, robot : Robots, what : Commands]
  BY SMT DEF MotorInv, MotorTypeOK, Orders, Idle
<1>1. MotorTypeOK'
  <2>1. order' \in [Commanders -> {Idle} \union Orders]
    BY SMT DEF MotorInv, MotorTypeOK
  <2>2. closing' \subseteq Links
    BY <1>0, SMT DEF MotorInv, MotorTypeOK
  <2> QED BY <2>2, SMT DEF MotorInv, MotorTypeOK
<1>2. LinksAreOld'
  BY SMT DEF MotorInv, MotorTypeOK, LinksAreOld, NoLink, Links, Idle
<1>3. LinksDiffer'
  BY SMT DEF MotorInv, LinksDiffer
<1>4. CallbackCloses'
  BY SMT DEF MotorInv, CallbackCloses, Linked
<1>5. MotionIsGuarded'
  BY SMT DEF MotorInv, MotorTypeOK, MotionIsGuarded, Guarded, Linked
<1> QED BY <1>1, <1>2, <1>3, <1>4, <1>5 DEF MotorInv

\* A STOP task whose turn it is goes on to its STOP; another one was no guard.
LEMMA PulseChecksGood ==
    ASSUME MotorInv, NEW p \in pulses, PulseChecks(p)
    PROVE  MotorInv'
<1> USE DEF PulseChecks, robotVars, orderVars
<1>1. MotorTypeOK'
  BY SMT DEF MotorInv, MotorTypeOK
<1>2. LinksAreOld'
  BY SMT DEF MotorInv, MotorTypeOK, LinksAreOld
<1>3. LinksDiffer'
  BY SMT DEF MotorInv, LinksDiffer
<1>4. CallbackCloses'
  BY SMT DEF MotorInv, CallbackCloses, Linked
<1>5. MotionIsGuarded'
  <2> SUFFICES ASSUME NEW r \in driving \ crossed, radio[r] # NoLink
               PROVE  Guarded(radio[r])'
    BY DEF MotionIsGuarded
  <2>1. Guarded(radio[r])
    BY DEF MotorInv, MotionIsGuarded
  <2>2. r \in Robots
    BY SMT DEF MotorInv, MotorTypeOK
  <2>3. CASE \E s \in pulses : s.on = radio[r] /\ (s.at = "waits" => s.gen = stopGen)
    <3> PICK s \in pulses : s.on = radio[r] /\ (s.at = "waits" => s.gen = stopGen)
      BY <2>3
    <3>1. CASE s # p
      <4>1. s \in pulses'
        BY <3>1
      <4> QED BY <4>1 DEF Guarded
    <3>2. CASE s = p
      <4>1. [p EXCEPT !.at = "stops"] \in pulses'
        BY <3>2, <2>2 DEF Linked
      <4>2. /\ [p EXCEPT !.at = "stops"].on = radio[r]
            /\ [p EXCEPT !.at = "stops"].at = "stops"
        BY <3>2, SMT
      <4> QED BY <4>1, <4>2 DEF Guarded
    <3> QED BY <3>1, <3>2
  <2> QED BY <2>1, <2>3 DEF Guarded
<1> QED BY <1>1, <1>2, <1>3, <1>4, <1>5 DEF MotorInv

\* The STOP task leaves with the timer on its link.
LEMMA PulseStopsGood ==
    ASSUME MotorInv, NEW p \in pulses, PulseStops(p)
    PROVE  MotorInv'
<1> USE DEF PulseStops, WriteStop, TouchActivity, Crossing, orderVars
<1>1. MotorTypeOK'
  BY SMT DEF MotorInv, MotorTypeOK
<1>2. LinksAreOld'
  BY SMT DEF MotorInv, LinksAreOld
<1>3. LinksDiffer'
  BY SMT DEF MotorInv, LinksDiffer
<1>4. CallbackCloses'
  BY SMT DEF MotorInv, CallbackCloses, Linked
<1>5. MotionIsGuarded'
  BY SMT DEF MotionIsGuarded, Guarded
<1> QED BY <1>1, <1>2, <1>3, <1>4, <1>5 DEF MotorInv

\* The timer's callback takes the guard over from the timer.
LEMMA IdleFiresGood ==
    ASSUME MotorInv, IdleFires
    PROVE  MotorInv'
<1> USE DEF IdleFires, robotVars, orderVars
<1>1. MotorTypeOK'
  BY SMT DEF MotorInv, MotorTypeOK
<1>2. LinksAreOld'
  BY SMT DEF MotorInv, LinksAreOld
<1>3. LinksDiffer'
  BY SMT DEF MotorInv, LinksDiffer
<1>4. CallbackCloses'
  BY SMT DEF CallbackCloses, Linked
<1>5. MotionIsGuarded'
  BY SMT DEF MotorInv, MotorTypeOK, MotionIsGuarded, Guarded, Linked
<1> QED BY <1>1, <1>2, <1>3, <1>4, <1>5 DEF MotorInv

\* The callback closes the link if there still is one.
LEMMA IdleStopsGood ==
    ASSUME MotorInv, IdleStops
    PROVE  MotorInv'
<1> USE DEF IdleStops, WriteStop, orderVars
<1>1. MotorTypeOK'
  BY SMT DEF MotorInv, MotorTypeOK, Linked
<1>2. LinksAreOld'
  BY SMT DEF MotorInv, LinksAreOld
<1>3. LinksDiffer'
  BY SMT DEF MotorInv, LinksDiffer
<1>4. CallbackCloses'
  BY SMT DEF CallbackCloses, Linked
<1>5. MotionIsGuarded'
  BY SMT DEF MotorInv, MotorTypeOK, MotionIsGuarded, Guarded, Linked
<1> QED BY <1>1, <1>2, <1>3, <1>4, <1>5 DEF MotorInv

\* What it clears is its own link, closed by now, or another one's, which is crossed.
LEMMA IdleClearsGood ==
    ASSUME MotorInv, IdleClears
    PROVE  MotorInv'
<1> USE DEF IdleClears, robotVars, orderVars
<1>1. MotorTypeOK'
  BY SMT DEF MotorInv, MotorTypeOK
<1>2. LinksAreOld'
  BY SMT DEF MotorInv, MotorTypeOK, LinksAreOld, NoLink, Links
<1>3. LinksDiffer'
  BY SMT DEF MotorInv, LinksDiffer
<1>4. CallbackCloses'
  BY SMT DEF CallbackCloses
<1>5. MotionIsGuarded'
  BY SMT DEF MotorInv, MotorTypeOK, CallbackCloses, MotionIsGuarded, Guarded, Linked
<1> QED BY <1>1, <1>2, <1>3, <1>4, <1>5 DEF MotorInv

\* A refresh that has only been read changes nothing.
LEMMA RefreshReadsGood ==
    ASSUME MotorInv, RefreshReads
    PROVE  MotorInv'
<1> USE MotorAssumption DEF RefreshReads, robotVars
<1>1. MotorTypeOK'
  BY SMT DEF MotorInv, MotorTypeOK
<1>2. LinksAreOld'
  BY SMT DEF MotorInv, LinksAreOld
<1>3. LinksDiffer'
  BY SMT DEF MotorInv, LinksDiffer
<1>4. CallbackCloses'
  BY SMT DEF MotorInv, CallbackCloses, Linked
<1>5. MotionIsGuarded'
  BY SMT DEF MotorInv, MotionIsGuarded, Guarded
<1> QED BY <1>1, <1>2, <1>3, <1>4, <1>5 DEF MotorInv

\* It starts the timer on the link it has read, whichever is watched by now.
LEMMA RefreshTouchesGood ==
    ASSUME MotorInv, RefreshTouches
    PROVE  MotorInv'
<1> USE DEF RefreshTouches, TouchActivity, Crossing, robotVars, orderVars
<1>1. MotorTypeOK'
  BY SMT DEF MotorInv, MotorTypeOK
<1>2. LinksAreOld'
  BY SMT DEF MotorInv, MotorTypeOK, LinksAreOld, NoLink, Links
<1>3. LinksDiffer'
  BY SMT DEF MotorInv, LinksDiffer
<1>4. CallbackCloses'
  BY SMT DEF MotorInv, CallbackCloses, Linked
<1>5. MotionIsGuarded'
  BY SMT DEF MotionIsGuarded, Guarded
<1> QED BY <1>1, <1>2, <1>3, <1>4, <1>5 DEF MotorInv

\* A link that ends was nobody else's, so every other robot keeps its guard.
LEMMA DisconnectGood ==
    ASSUME MotorInv, NEW r \in Robots, NEW q \in Robots, Disconnect(r, q)
    PROVE  MotorInv'
<1> USE DEF Disconnect, orderVars
<1>1. MotorTypeOK'
  <2>1. /\ radio' \in [Robots -> {NoLink} \union Links]
        /\ entry' \in [Robots -> {NoLink} \union Links]
    BY SMT DEF MotorInv, MotorTypeOK
  <2>2. watched' \in {NoLink} \union Links /\ timer' \in {"armed", "off"}
    BY SMT DEF MotorInv, MotorTypeOK
  <2> QED BY SMT DEF MotorInv, MotorTypeOK
<1>2. LinksAreOld'
  BY SMT DEF MotorInv, MotorTypeOK, LinksAreOld, NoLink, Links
<1>3. LinksDiffer'
  BY SMT DEF MotorInv, LinksDiffer
<1>4. CallbackCloses'
  BY SMT DEF MotorInv, MotorTypeOK, LinksDiffer, CallbackCloses, Linked
<1>5. MotionIsGuarded'
  BY SMT DEF MotorInv, MotorTypeOK, LinksDiffer, MotionIsGuarded, Guarded
<1> QED BY <1>1, <1>2, <1>3, <1>4, <1>5 DEF MotorInv

\* The inductive invariant of the commands, for any robots, tasks and bounds.
THEOREM MotorInvariant == MotorSpec => []MotorInv
<1>1. MotorInv /\ [MotorNext]_motorVars => MotorInv'
  <2> SUFFICES ASSUME MotorInv, [MotorNext]_motorVars PROVE MotorInv'
    OBVIOUS
  <2>1. ASSUME NEW c \in Commanders, CommandStep(c) PROVE MotorInv'
    BY <2>1, GiveOrderGood, ConnectGood, ConnectFailsGood, SendMotionGood, NextGenerationGood,
       StartPulseGood, SendStopGood, TouchGood, QueryAbortsGood DEF CommandStep
  <2>2. CASE PulseStep
    BY <2>2, PulseChecksGood, PulseStopsGood DEF PulseStep
  <2>3. CASE IdleStep
    BY <2>3, IdleFiresGood, IdleStopsGood, IdleClearsGood DEF IdleStep
  <2>4. CASE RefreshReads \/ RefreshTouches
    BY <2>4, RefreshReadsGood, RefreshTouchesGood
  <2>5. ASSUME NEW r \in Robots, NEW q \in Robots, Disconnect(r, q) PROVE MotorInv'
    BY <2>5, DisconnectGood
  <2>6. CASE UNCHANGED motorVars
    BY <2>6, SMT
      DEF motorVars, robotVars, orderVars, watchVars, MotorInv, MotorTypeOK, LinksAreOld,
          LinksDiffer, CallbackCloses, MotionIsGuarded, Guarded, Linked
  <2> QED BY <2>1, <2>2, <2>3, <2>4, <2>5, <2>6 DEF MotorNext
<1> QED BY MotorInitGood, <1>1, PTL DEF MotorSpec

\* Links, entries, commands and tasks keep their types.
THEOREM MotorTypeCorrect == MotorSpec => []MotorTypeOK
BY MotorInvariant, PTL DEF MotorInv

\* No robot within reach is left moving with nobody to stop it, for any number of robots and
\* of tasks that command them (ble_device_send_command_by_alias_or_name, its STOP tasks and
\* the idle timer).
THEOREM NoRobotRunsAway == MotorSpec => []MotionIsGuarded
BY MotorInvariant, PTL DEF MotorInv
=============================================================================
