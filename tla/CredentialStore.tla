--------------------------- MODULE CredentialStore ---------------------------
(***************************************************************************)
(* The stored Wi-Fi credentials of the Camila firmware: network_storage.c  *)
(* over nvs_guard.c.                                                       *)
(*                                                                         *)
(* Every slot is two keys of NVS, the name and the password.  A key is     *)
(* written or erased at once and durably, one after the other; power may   *)
(* be lost, and a write may fail, at any of these steps.  The provisioning *)
(* task saves, tool tasks delete one network or all, the connecting task   *)
(* reads.                                                                  *)
(* The recursive mutex of nvs_guard.c keeps them apart.  A call for which  *)
(* nvs_open fails changes nothing and is no action.                        *)
(*                                                                         *)
(* network_get_all_ssids is called by nobody and left out.                 *)
(***************************************************************************)
EXTENDS Integers

CONSTANTS Nets,      \* names of networks
          Password,  \* their passwords: of which network, and which of them
          NumSlots   \* MAX_SAVED_NETWORKS

None == "none"
ASSUME CredAssumption ==
    /\ NumSlots \in Nat \ {0} /\ None \notin Nets
    /\ Password \subseteq [net : Nets, ver : Nat]

VARIABLES
    ssid,     \* key wifi_i_ssid of every slot
    pass,     \* key wifi_i_password of every slot: of which network, and which
    holder,   \* who holds nvs_mutex
    leaked,   \* {"leaked"} when the saver returned without releasing it
    place,    \* where each task is
    slot,     \* i of the loops; only the holder uses it
    want,     \* what the saver was asked to save, the network to forget
    failed,   \* {"failed"} when overall_err of the wiper is not ESP_OK
    good,     \* passwords under which a network that was saved may be found
    torn,     \* {"torn"} when an operation has failed or was cut by a reset
    wiped,    \* {"wiped"} when the last completed change was a full deletion
    gone      \* networks reported deleted and not saved since, while torn = {}

flashVars == <<ssid, pass>>
credVars == <<flashVars, holder, leaked, place, slot, want, failed, good, torn, wiped, gone>>

Slots == 0..(NumSlots - 1)
NoPass == [net |-> None, ver |-> 0]

Saver == "saver"
Wiper == "wiper"
Nobody == "nobody"
Keepers == {Saver, Wiper}

SaveSteps == {"update", "put_ssid", "put_pass", "evict_ssid", "evict_pass",
              "copy_ssid", "copy_pass", "last_pass", "commit"}
WipeSteps == {"wipe_ssid", "wipe_pass", "wipe_commit",
              "forget_ssid", "forget_pass", "forget_commit"}
AtWork(k) == place[k] \in SaveSteps \union WipeSteps

Stored(i) == ssid[i] # None /\ pass[i] # NoPass

CredInit ==
    /\ ssid = [i \in Slots |-> None] /\ pass = [i \in Slots |-> NoPass]
    /\ holder = Nobody /\ leaked = {} /\ place = [k \in Keepers |-> "idle"]
    /\ slot = 0 /\ want = NoPass /\ failed = {}
    /\ good = [n \in Nets |-> {}]
    /\ torn = {} /\ wiped = {} /\ gone = {}

-----------------------------------------------------------------------------
(* Helpers: the next step of a task, its ways to return. *)

GoTo(k, spot) == place' = [place EXCEPT ![k] = spot]

Write(key, i, value) == key' = [key EXCEPT ![i] = value]

\* Mutant: the lock is not waited for.
MayLockAnyway(k) == place[k] = "idle"

\* nvs_lock waits without limit; the mutex is recursive, so a saver that never
\* gave it back takes it again.
MayLock(k) == place[k] = "idle" /\ holder \in {Nobody, k}

\* nvs_unlock gives back one count: a leaked one stays.
Returns(k) ==
    /\ holder' = (IF leaked = {} THEN Nobody ELSE holder)
    /\ place' = [place EXCEPT ![k] = "idle"]
    /\ slot' = 0 /\ want' = NoPass /\ failed' = {}
    /\ UNCHANGED leaked

\* A change fails or is cut: keys may be out of step from now on.
Tears == torn' = {"torn"} /\ gone' = {}

\* The slots that hold a network, or those without a name.
SlotsOf(n) == {i \in Slots : ssid[i] = n}
IsFirst(i, S) == i \in S /\ \A j \in S : i <= j

-----------------------------------------------------------------------------
(* network_save_wifi_credentials *)

\* A known network gets the new password, a new one the first free slot; with
\* no slot free the oldest makes room.
StartSave(w, i) ==
    /\ MayLock(Saver)
    /\ holder' = Saver /\ want' = w /\ slot' = i
    /\ wiped' = {} /\ gone' = gone \ {w.net}
    /\ \/ IsFirst(i, SlotsOf(w.net)) /\ GoTo(Saver, "update")
       \/ SlotsOf(w.net) = {} /\ IsFirst(i, SlotsOf(None)) /\ GoTo(Saver, "put_ssid")
       \/ SlotsOf(w.net) \union SlotsOf(None) = {} /\ i = 0 /\ GoTo(Saver, "evict_ssid")
    /\ UNCHANGED <<flashVars, leaked, failed, good, torn>>

\* Once it is written a network may be found under the new password.
Update ==
    /\ place[Saver] = "update"
    /\ Write(pass, slot, want)
    /\ good' = [good EXCEPT ![want.net] = @ \union {want.ver}]
    /\ GoTo(Saver, "commit")
    /\ UNCHANGED <<ssid, holder, leaked, slot, want, failed, torn, wiped, gone>>

PutSsid ==
    /\ place[Saver] = "put_ssid"
    /\ Write(ssid, slot, want.net)
    /\ GoTo(Saver, "put_pass")
    /\ UNCHANGED <<pass, holder, leaked, slot, want, failed, good, torn, wiped, gone>>

PutPass ==
    /\ place[Saver] \in {"put_pass", "last_pass"}
    /\ Write(pass, slot, want)
    /\ GoTo(Saver, "commit")
    /\ UNCHANGED <<ssid, holder, leaked, slot, want, failed, good, torn, wiped, gone>>

\* FIFO: the network of slot 0 is given up ...
EvictSsid ==
    /\ place[Saver] = "evict_ssid"
    /\ Write(ssid, 0, None)
    /\ good' = [good EXCEPT ![ssid[0]] = {}]
    /\ GoTo(Saver, "evict_pass")
    /\ UNCHANGED <<pass, holder, leaked, slot, want, failed, torn, wiped, gone>>

\* Mutant: the loop that moves the others down starts one slot too late.
EvictPassSkips ==
    /\ place[Saver] = "evict_pass"
    /\ Write(pass, 0, NoPass)
    /\ slot' = 2
    /\ GoTo(Saver, "copy_ssid")
    /\ UNCHANGED <<ssid, holder, leaked, want, failed, good, torn, wiped, gone>>

EvictPass ==
    /\ place[Saver] = "evict_pass"
    /\ Write(pass, 0, NoPass)
    /\ slot' = 1
    /\ GoTo(Saver, "copy_ssid")
    /\ UNCHANGED <<ssid, holder, leaked, want, failed, good, torn, wiped, gone>>

\* ... the others move down one slot each, those that can be read ...
CopySsid ==
    /\ place[Saver] = "copy_ssid" /\ slot < NumSlots
    /\ IF Stored(slot)
       THEN Write(ssid, slot - 1, ssid[slot]) /\ GoTo(Saver, "copy_pass") /\ UNCHANGED slot
       ELSE slot' = slot + 1 /\ UNCHANGED <<ssid, place>>
    /\ UNCHANGED <<pass, holder, leaked, want, failed, good, torn, wiped, gone>>

CopyPass ==
    /\ place[Saver] = "copy_pass"
    /\ Write(pass, slot - 1, pass[slot])
    /\ slot' = slot + 1
    /\ GoTo(Saver, "copy_ssid")
    /\ UNCHANGED <<ssid, holder, leaked, want, failed, good, torn, wiped, gone>>

\* ... and the new one takes the last.
LastSsid ==
    /\ place[Saver] = "copy_ssid" /\ slot = NumSlots
    /\ Write(ssid, NumSlots - 1, want.net)
    /\ slot' = NumSlots - 1
    /\ GoTo(Saver, "last_pass")
    /\ UNCHANGED <<pass, holder, leaked, want, failed, good, torn, wiped, gone>>

\* commit_and_close
CommitSave ==
    /\ place[Saver] = "commit"
    /\ Returns(Saver)
    /\ \/ good' = [good EXCEPT ![want.net] = {want.ver}] /\ UNCHANGED torn
          /\ UNCHANGED gone
       \/ Tears /\ UNCHANGED good
    /\ UNCHANGED <<flashVars, wiped>>

\* A write fails: every error path gives the lock back ...
SaveFails ==
    /\ place[Saver] \in SaveSteps \ {"commit", "last_pass"}
    /\ place[Saver] = "copy_ssid" => slot < NumSlots /\ Stored(slot)
    /\ Returns(Saver) /\ Tears
    /\ UNCHANGED <<flashVars, good, wiped>>

\* ... but the last: the two writes of the new network after an eviction.
SaveFailsLocked ==
    /\ \/ place[Saver] = "copy_ssid" /\ slot = NumSlots
       \/ place[Saver] = "last_pass"
    /\ GoTo(Saver, "idle") /\ leaked' = {"leaked"} /\ Tears
    /\ slot' = 0 /\ want' = NoPass
    /\ UNCHANGED <<flashVars, holder, failed, good, wiped>>

-----------------------------------------------------------------------------
(* network_delete_all_wifi_credentials: an error does not end the loop. *)

StartWipe ==
    /\ MayLock(Wiper)
    /\ holder' = Wiper /\ GoTo(Wiper, "wipe_ssid")
    /\ good' = [n \in Nets |-> {}] /\ wiped' = {}
    /\ UNCHANGED <<flashVars, leaked, slot, want, failed, torn, gone>>

WipeSsid ==
    /\ place[Wiper] = "wipe_ssid"
    /\ \/ Write(ssid, slot, None) /\ UNCHANGED failed
       \/ failed' = {"failed"} /\ UNCHANGED ssid
    /\ GoTo(Wiper, "wipe_pass")
    /\ UNCHANGED <<pass, holder, leaked, slot, want, good, torn, wiped, gone>>

WipePass ==
    /\ place[Wiper] = "wipe_pass"
    /\ \/ Write(pass, slot, NoPass) /\ UNCHANGED failed
       \/ failed' = {"failed"} /\ UNCHANGED pass
    /\ IF slot + 1 < NumSlots THEN slot' = slot + 1 /\ GoTo(Wiper, "wipe_ssid")
                              ELSE UNCHANGED slot /\ GoTo(Wiper, "wipe_commit")
    /\ UNCHANGED <<ssid, holder, leaked, want, good, torn, wiped, gone>>

CommitWipe ==
    /\ place[Wiper] = "wipe_commit"
    /\ Returns(Wiper)
    /\ \/ failed = {} /\ wiped' = {"wiped"} /\ UNCHANGED torn
          /\ gone' = IF torn = {} THEN Nets ELSE {}
       \/ Tears /\ UNCHANGED wiped
    /\ UNCHANGED <<flashVars, good>>

-----------------------------------------------------------------------------
(* network_delete_wifi_credential_by_ssid: the first slot of that name.  A   *)
(* network that is not stored is not found, and nothing changes.             *)

StartForget(n, i) ==
    /\ MayLock(Wiper)
    /\ IsFirst(i, SlotsOf(n))
    /\ holder' = Wiper /\ GoTo(Wiper, "forget_ssid")
    /\ want' = [net |-> n, ver |-> 0] /\ slot' = i
    /\ good' = [good EXCEPT ![n] = {}]
    /\ UNCHANGED <<flashVars, leaked, failed, torn, wiped, gone>>

\* Mutant: an error of the first erasure is overlooked.
ForgetSsidBlindly ==
    /\ place[Wiper] = "forget_ssid"
    /\ Write(ssid, slot, None) \/ UNCHANGED ssid
    /\ GoTo(Wiper, "forget_pass")
    /\ UNCHANGED <<pass, holder, leaked, slot, want, failed, good, torn, wiped, gone>>

\* Both keys are erased whatever becomes of either.
ForgetSsid ==
    /\ place[Wiper] = "forget_ssid"
    /\ \/ Write(ssid, slot, None) /\ UNCHANGED failed
       \/ failed' = {"failed"} /\ UNCHANGED ssid
    /\ GoTo(Wiper, "forget_pass")
    /\ UNCHANGED <<pass, holder, leaked, slot, want, good, torn, wiped, gone>>

ForgetPass ==
    /\ place[Wiper] = "forget_pass"
    /\ \/ Write(pass, slot, NoPass)
          /\ failed' = IF pass[slot] = NoPass THEN {"failed"} ELSE failed
       \/ failed' = {"failed"} /\ UNCHANGED pass
    /\ GoTo(Wiper, "forget_commit")
    /\ UNCHANGED <<ssid, holder, leaked, slot, want, good, torn, wiped, gone>>

CommitForget ==
    /\ place[Wiper] = "forget_commit"
    /\ Returns(Wiper)
    /\ \/ failed = {} /\ UNCHANGED torn
          /\ gone' = IF torn = {} THEN gone \union {want.net} ELSE {}
       \/ Tears
    /\ UNCHANGED <<flashVars, good, wiped>>

-----------------------------------------------------------------------------
\* What network_get_saved_credentials may return, all of it read under the lock:
\* both keys of the slot.
Readable(i) == holder = Nobody /\ Stored(i)

\* Power loss, or the esp_restart that follows a save: flash stays as it is.
Reset ==
    /\ holder' = Nobody /\ leaked' = {} /\ place' = [k \in Keepers |-> "idle"]
    /\ slot' = 0 /\ want' = NoPass /\ failed' = {}
    /\ IF \E k \in Keepers : AtWork(k) THEN Tears ELSE UNCHANGED <<torn, gone>>
    /\ UNCHANGED <<flashVars, good, wiped>>

SaveStep ==
    \/ \E w \in Password, i \in Slots : StartSave(w, i)
    \/ Update \/ PutSsid \/ PutPass
    \/ EvictSsid \/ EvictPass \/ CopySsid \/ CopyPass \/ LastSsid
    \/ CommitSave \/ SaveFails \/ SaveFailsLocked

WipeStep == StartWipe \/ WipeSsid \/ WipePass \/ CommitWipe

ForgetStep ==
    \/ \E n \in Nets, i \in Slots : StartForget(n, i)
    \/ ForgetSsid \/ ForgetPass \/ CommitForget

CredNext == SaveStep \/ WipeStep \/ ForgetStep \/ Reset

CredSpec == CredInit /\ [][CredNext]_credVars

-----------------------------------------------------------------------------
\* Every variable has its type.
CredTypeOK ==
    /\ ssid \in [Slots -> Nets \union {None}] /\ pass \in [Slots -> Password \union {NoPass}]
    /\ holder \in Keepers \union {Nobody} /\ leaked \subseteq {"leaked"}
    /\ place \in [Keepers -> {"idle"} \union SaveSteps \union WipeSteps]
    /\ slot \in 0..NumSlots /\ want \in Password \union [net : Nets \union {None}, ver : {0}] /\ failed \subseteq {"failed"}
    /\ good \in [Nets -> SUBSET Nat]
    /\ torn \subseteq {"torn"} /\ wiped \subseteq {"wiped"} /\ gone \subseteq Nets

\* A network whose saving was acknowledged stays readable with its password, at
\* every step of the rotation and after every failure or loss of power, until
\* it is itself evicted or everything is deleted; and a reader never pairs a name
\* with another network's password, unless an earlier change failed or was cut by
\* a reset.
NetworksKept ==
    /\ \A n \in Nets : good[n] # {} =>
           \E i \in Slots : ssid[i] = n /\ pass[i].net = n /\ pass[i].ver \in good[n]
    /\ \A i \in Slots : Readable(i) /\ torn = {} => pass[i].net = ssid[i]

\* What was reported deleted is gone: after a full deletion nothing that can be
\* read is left in any slot, and a single network is stored nowhere, unless an
\* earlier change failed or was cut: these leave copies, and only the first copy
\* is erased.
DeletedIsGone ==
    /\ wiped # {} => \A i \in Slots : ssid[i] = None /\ pass[i] = NoPass
    /\ \A n \in gone : SlotsOf(n) = {}

\* Whoever works on the keys holds the lock, and an operation that is over
\* holds it only if it failed in its last write after an eviction.
OneKeeper ==
    /\ \A k \in Keepers : AtWork(k) => holder = k
    /\ (\A k \in Keepers : ~ AtWork(k)) /\ leaked = {} => holder = Nobody
=============================================================================
