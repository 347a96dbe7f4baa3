------------------------------ MODULE BleHost ------------------------------
(***************************************************************************)
(* The NimBLE host and its owner: ble_common.c.                            *)
(*                                                                         *)
(* The prepare task, the release task and the orchestrator bring the host  *)
(* up and down (ble_common_ensure_ready, ble_common_deinit), and take and  *)
(* give back the role of its owner.  They overlap when the orchestrator    *)
(* stops waiting for one of them.  The flags have no lock.  A step is what *)
(* a task does from one blocking call to the next; the host task runs and  *)
(* calls back in between.                                                  *)
(*                                                                         *)
(* NimBLE is outside: the port is up or not, and the host task starts,     *)
(* synchronises, may reset, and ends some time after it was told to stop.  *)
(***************************************************************************)
EXTENDS Naturals

CONSTANT BleUsers   \* tasks that call ble_common.c

VARIABLES
    flags,     \* the s_ble_... flags that are set (see Flags)
    owner,     \* s_ble_owner
    syncGiven, \* sync_semaphore, as a set
    stopGiven, \* host_stop_semaphore, as a set
    user,      \* where every task is
    port,      \* whether NimBLE's port is up, as a set
    host,      \* the host task
    upset      \* what has happened since the port came up that the code does not undo

flagVars == <<flags, owner>>
semVars == <<syncGiven, stopGiven>>
bleVars == <<flagVars, semVars, user, port, host, upset>>

\* "generation" stands for s_ble_host_start_generation # 0, "synced" for
\* s_ble_host_sync_generation being equal to it then.
Flags == {"configured", "port", "task", "requested", "started", "generation", "synced"}
NoRole == "none"
Roles == {"provisioning", "central"}
Upsets == {"reset", "stop_timeout"}

UP == "port_is_up"
GIVEN == "given"

BleHostInit ==
    /\ flags = {} /\ owner = NoRole
    /\ syncGiven = {} /\ stopGiven = {}
    /\ user = [c \in BleUsers |-> "away"]
    /\ port = {} /\ host = "none" /\ upset = {}

UserAt(c, p) == user' = [user EXCEPT ![c] = p]

-----------------------------------------------------------------------------
(* The host task and its callbacks. *)

\* ble_common_has_fresh_sync
FreshSync == {"task", "started", "generation", "synced"} \subseteq flags

\* ble_common_on_sync
HostSyncs ==
    /\ host = "starting"
    /\ host' = "synced"
    /\ flags' = flags \union {"started"} \union (IF "generation" \in flags THEN {"synced"} ELSE {})
    /\ syncGiven' = {GIVEN}
    /\ UNCHANGED <<owner, stopGiven, user, port, upset>>

\* ble_common_on_reset: the host synchronises again, or never.
HostResets ==
    /\ host = "synced"
    /\ host' = "starting"
    /\ owner' = NoRole
    /\ upset' = upset \union {"reset"}
    /\ UNCHANGED <<flags, semVars, user, port>>

\* Mutant: the end of the host does not take its synchronisation back.
HostEndsSynced ==
    /\ host = "stopping"
    /\ host' = "stopped"
    /\ flags' = flags \ {"requested", "configured"}
    /\ owner' = NoRole
    /\ stopGiven' = {GIVEN}
    /\ UNCHANGED <<syncGiven, user, port, upset>>

\* The end of nimble_host_task.
HostEnds ==
    /\ host = "stopping"
    /\ host' = "stopped"
    /\ flags' = flags \ {"started", "requested", "synced", "configured"}
    /\ owner' = NoRole
    /\ stopGiven' = {GIVEN}
    /\ UNCHANGED <<syncGiven, user, port, upset>>

-----------------------------------------------------------------------------
(* ble_common_ensure_ready *)

\* ble_common_init leaves a configured stack as it is; else it brings the port
\* up, which NimBLE refuses when it is up already: nothing changes then.
Configured == {"configured", "port"} \subseteq flags

\* The flags with which a host is started.
Starting(f) == (f \ {"synced", "started"}) \union {"generation", "requested", "task"}

\* A configured host has been asked for: the caller waits until it is ready.
EnsureReady(c) ==
    /\ user[c] = "away" /\ Configured
    /\ UserAt(c, IF FreshSync THEN "away" ELSE "wait_sync")
    /\ UNCHANGED <<flagVars, semVars, port, host, upset>>

\* Else the port is brought up and a host started in the same call.
BringUp(c) ==
    /\ user[c] = "away" /\ ~Configured /\ port = {}
    /\ port' = {UP}
    /\ flags' = Starting(flags \union {"configured", "port"})
    /\ syncGiven' = {} /\ stopGiven' = {}
    /\ host' = "starting" /\ upset' = {}
    /\ UserAt(c, "wait_sync")
    /\ UNCHANGED owner

\* The GATT services cannot be registered: the port stays up.
BringUpFails(c) ==
    /\ user[c] = "away" /\ ~Configured /\ port = {}
    /\ port' = {UP}
    /\ flags' = flags \union {"port"}
    /\ UNCHANGED <<owner, semVars, user, host, upset>>

\* The caller has the token and tests the flags again, or has waited too long.
Waited(c) ==
    /\ user[c] = "wait_sync"
    /\ syncGiven' \in {{}, syncGiven}
    /\ UserAt(c, "away")
    /\ UNCHANGED <<flagVars, stopGiven, port, host, upset>>

-----------------------------------------------------------------------------
(* ble_common_deinit *)

\* nimble_port_stop takes a running host once.
DeinitStops(c) ==
    /\ user[c] = "away" /\ "port" \in flags
    /\ {"task", "requested"} \intersect flags # {}
    /\ owner' = NoRole
    /\ stopGiven' = {}
    /\ IF host \in {"starting", "synced"}
       THEN host' = "stopping" /\ UserAt(c, "wait_stop")
       ELSE UNCHANGED <<host, user>>
    /\ UNCHANGED <<flags, syncGiven, port, upset>>

\* Mutant: the flag of the host task is left set when the port cannot be taken
\* down.
DeinitEndsWithTask(c) ==
    /\ user[c] = "wait_stop" /\ stopGiven # {}
    /\ stopGiven' = {}
    /\ host' = "none"
    /\ \/ flags' = {} /\ port' = {}
       \/ "port" \in flags /\ UNCHANGED <<flags, port>>
    /\ owner' = IF flags' = {} THEN NoRole ELSE owner
    /\ UserAt(c, "away")
    /\ UNCHANGED <<syncGiven, upset>>

\* After the host has ended: nimble_port_freertos_deinit, nimble_port_deinit.
DeinitEnds(c) ==
    /\ user[c] = "wait_stop" /\ stopGiven # {}
    /\ stopGiven' = {}
    /\ host' = "none"
    /\ \/ flags' = {} /\ port' = {}
       \/ /\ flags' = flags \ {"task", "requested", "started", "synced"}
          /\ "port" \in flags
          /\ UNCHANGED port
    /\ owner' = IF flags' = {} THEN NoRole ELSE owner
    /\ UserAt(c, "away")
    /\ UNCHANGED <<syncGiven, upset>>

DeinitTimesOut(c) ==
    /\ user[c] = "wait_stop" /\ stopGiven = {}
    /\ upset' = upset \union {"stop_timeout"}
    /\ UserAt(c, "away")
    /\ UNCHANGED <<flagVars, semVars, port, host>>

\* The port is up and has no host: a start or an earlier deinit has failed.
DeinitPort(c) ==
    /\ user[c] = "away" /\ "port" \in flags
    /\ {"task", "requested"} \intersect flags = {}
    /\ \/ flags' = {} /\ port' = {}
       \/ UNCHANGED <<flags, port>>
    /\ owner' = NoRole
    /\ UNCHANGED <<semVars, user, host, upset>>

-----------------------------------------------------------------------------
(* ble_common_acquire, ble_common_release *)

Acquire(r) ==
    /\ FreshSync /\ owner = NoRole
    /\ owner' = r
    /\ UNCHANGED <<flags, semVars, user, port, host, upset>>

Release(r) ==
    /\ owner = r
    /\ owner' = NoRole
    /\ UNCHANGED <<flags, semVars, user, port, host, upset>>

-----------------------------------------------------------------------------
BleHostNext ==
    \/ HostSyncs \/ HostResets \/ HostEnds
    \/ \E c \in BleUsers :
          \/ EnsureReady(c) \/ BringUp(c) \/ BringUpFails(c) \/ Waited(c)
          \/ DeinitStops(c) \/ DeinitEnds(c) \/ DeinitTimesOut(c) \/ DeinitPort(c)
    \/ \E r \in Roles : Acquire(r) \/ Release(r)

BleHostSpec == BleHostInit /\ [][BleHostNext]_bleVars

-----------------------------------------------------------------------------
\* Every variable has its type.
BleHostTypeOK ==
    /\ flags \subseteq Flags /\ owner \in Roles \union {NoRole}
    /\ syncGiven \subseteq {GIVEN} /\ stopGiven \subseteq {GIVEN}
    /\ user \in [BleUsers -> {"away", "wait_sync", "wait_stop"}]
    /\ port \subseteq {UP} /\ host \in {"none", "starting", "synced", "stopping", "stopped"}
    /\ upset \subseteq Upsets

\* Whoever is told that the host is synchronised can use it: it is so now, or it
\* is being stopped, or it has reset itself, which the flags do not show.
SyncIsFresh == FreshSync => host \in {"synced", "stopping"} \/ "reset" \in upset

\* The flags agree with NimBLE, so that the next call does the right thing and
\* what is believed gone is gone, its memory free for a session; and a host that
\* has been told to stop has a caller who waits to take it down, unless one has
\* given up: otherwise no call would bring BLE up or down again.
FlagsAgree ==
    /\ ("port" \in flags) = (port # {})
    /\ ("task" \in flags) = (host # "none")
    /\ host \in {"stopping", "stopped"} =>
          "stop_timeout" \in upset \/ \E c \in BleUsers : user[c] = "wait_stop"
=============================================================================
