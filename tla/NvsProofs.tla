----------------------------- MODULE NvsProofs ------------------------------
(***************************************************************************)
(* Proofs about what is kept in NVS, for any number of slots, networks,    *)
(* passwords, aliases, endpoints and tasks, and for queues of any depth:   *)
(* the keys of the known networks (CredentialStore), the profiles of       *)
(* robots (SaveWorker) and the device registry (RobotRegistry).            *)
(*                                                                         *)
(* Networks.  NetworksKept says that every acknowledged network is in some *)
(* slot; the rotation of full slots, key by key, keeps that only because   *)
(* the slot that is about to be overwritten holds nothing that is not kept *)
(* elsewhere (Sparing), which in turn needs the names in order: a name is  *)
(* in one slot, or in two while it moves (Distinct), password and name are *)
(* of one network but in the slot at hand (Paired), and no slot is free    *)
(* when one is evicted (Full).                                             *)
(*                                                                         *)
(* Profiles.  HandleIsLive is not inductive: an enqueuer sets the handle   *)
(* to a worker it made two steps before, so that one has to be alive still.*)
(*                                                                         *)
(* Registry.  WorkIsWatched is not inductive: a call that turns a full     *)
(* queue over can empty it and be rejected, so what it finds has to be     *)
(* watched by another one already; and what calls and the worker have in   *)
(* their hands has to be a job for the queue to hold jobs only.            *)
(* RebootRestores speaks of rest only.  On the way there the jobs of an    *)
(* alias, done in the order in which they will be done, leave what the     *)
(* table says (Settled), no other alias's job harms what they leave        *)
(* (Unharmed), and before the load of the boot the table agrees with the   *)
(* blobs (Loading).  Two calls that turn a full queue over hold jobs in    *)
(* their hands meanwhile, which is why it matters that no two of them      *)
(* clash (ApartInv), but for the aliases that are left out.                *)
(***************************************************************************)
EXTENDS CredentialStore, SaveWorker, RobotRegistry, TLAPS


-----------------------------------------------------------------------------
(* The keys of known networks *)

SaverWorks == place[Saver] \in SaveSteps
WiperWorks == place[Wiper] \in WipeSteps

Forgetting == {"forget_ssid", "forget_pass", "forget_commit"}
Wiping == {"wipe_ssid", "wipe_pass", "wipe_commit"}

\* Who is where: a task is at its own steps only, the work registers are reset
\* between operations, and a leaked lock is the saver's.
PlaceInv ==
    /\ place[Saver] \in SaveSteps \union {"idle"}
    /\ place[Wiper] \in WipeSteps \union {"idle"}
    /\ SaverWorks => holder = Saver /\ want \in Password
    /\ WiperWorks => holder = Wiper
    /\ ~SaverWorks /\ ~WiperWorks => slot = 0 /\ failed = {} /\ want = NoPass
    /\ ~SaverWorks /\ ~WiperWorks /\ leaked = {} => holder = Nobody
    /\ leaked # {} => holder = Saver
    /\ place[Wiper] \in Forgetting => want.net \in Nets
    /\ place[Saver] \in SaveSteps \ {"copy_ssid"} => slot < NumSlots
    /\ WiperWorks => slot < NumSlots
    /\ place[Saver] \in {"copy_ssid", "copy_pass"} => slot >= 1
    /\ place[Saver] = "last_pass" => slot = NumSlots - 1
    /\ place[Saver] \in {"evict_ssid", "evict_pass"} => slot = 0

\* Slot i keeps network n under a good password.
Keeps(n, i) == ssid[i] = n /\ pass[i].net = n /\ pass[i].ver \in good[n]

\* Whatever slot j holds is kept elsewhere.
Spared(j) == \A n \in Nets : good[n] # {} => \E i \in Slots \ {j} : Keeps(n, i)

Kept == \A n \in Nets : good[n] # {} => \E i \in Slots : Keeps(n, i)

\* The others are moved down over a slot that nobody needs.
Sparing == place[Saver] \in {"copy_ssid", "copy_pass"} => Spared(slot - 1)

SaveFacts ==
    /\ place[Saver] \in SaveSteps \ {"update", "commit"} => good[want.net] = {}
    /\ place[Saver] \in {"update", "put_pass", "last_pass", "commit"} => ssid[slot] = want.net
    /\ place[Saver] = "commit" => pass[slot] = want
    /\ place[Saver] = "put_ssid" => ssid[slot] = None
    /\ place[Saver] = "evict_ssid" => ssid[0] # None
    /\ place[Saver] = "evict_pass" => ssid[0] = None
    /\ place[Saver] = "copy_pass" => ssid[slot - 1] = ssid[slot] /\ Stored(slot)

EraseFacts ==
    /\ place[Wiper] \in Forgetting => good[want.net] = {}
    /\ place[Wiper] = "forget_ssid" => ssid[slot] = want.net
    /\ place[Wiper] = "forget_pass" => ssid[slot] \in {want.net, None}
    /\ place[Wiper] \in Wiping => \A n \in Nets : good[n] = {}

KeepInv == Kept /\ Sparing /\ SaveFacts /\ EraseFacts

\* The slot whose two keys may be out of step, and the one whose network is
\* twice there.
Loose(i) ==
    \/ /\ \/ place[Saver] \in {"put_pass", "last_pass", "evict_pass"}
          \/ place[Wiper] \in {"forget_pass", "wipe_pass"}
       /\ i = slot
    \/ place[Saver] = "copy_pass" /\ i = slot - 1

Twice(i) == place[Saver] \in {"copy_ssid", "copy_pass"} /\ i = slot - 1

Paired == \A i \in Slots : ~Loose(i) => pass[i].net = ssid[i]

Distinct ==
    \A i, j \in Slots :
        ssid[i] = ssid[j] /\ ssid[i] # None /\ ~Twice(i) /\ ~Twice(j) => i = j

\* The network that is being saved is in no slot before its own is written.
Fresh ==
    place[Saver] \in {"put_ssid", "evict_ssid", "evict_pass", "copy_ssid", "copy_pass"}
        => \A i \in Slots : ssid[i] # want.net

\* No slot is free when one is evicted.
Full ==
    place[Saver] \in {"evict_ssid", "evict_pass", "copy_ssid", "copy_pass"}
        => \A i \in Slots : i > 0 /\ i >= slot => ssid[i] # None

\* A network that is being forgotten has at most the slot that is being erased.
Forgotten ==
    /\ place[Wiper] \in Forgetting =>
           \A i \in Slots : ssid[i] = want.net => place[Wiper] = "forget_ssid" /\ i = slot
    /\ place[Wiper] = "forget_pass" => ssid[slot] = None

\* The slots are in order until power is lost or a save fails, and their names
\* stay paired until an erasure fails.
OrderInv ==
    torn = {} => /\ failed = {} => Paired /\ Distinct /\ Forgotten
                 /\ Fresh /\ Full

\* A save that fails is over at once.
FailInv == SaverWorks => failed = {}

\* A network reported gone is in no slot, and is not the one that is being saved.
GoneInv ==
    /\ torn # {} => gone = {}
    /\ \A n \in gone : SlotsOf(n) = {}
    /\ SaverWorks => want.net \notin gone

\* All slots are bare after a full deletion; until then those below are.
Bare(i) == ssid[i] = None /\ pass[i] = NoPass

WipeInv ==
    /\ wiped # {} => \A i \in Slots : Bare(i)
    /\ wiped # {} => ~SaverWorks /\ place[Wiper] \notin Wiping
    /\ place[Wiper] \in Wiping /\ failed = {} =>
         /\ \A i \in Slots : i < slot => Bare(i)
         /\ place[Wiper] = "wipe_pass" => ssid[slot] = None
         /\ place[Wiper] = "wipe_commit" => slot = NumSlots - 1 /\ Bare(slot)

CredInv == PlaceInv /\ KeepInv /\ OrderInv /\ FailInv /\ GoneInv /\ WipeInv

\* A change of slot j keeps the networks that are kept elsewhere.
LEMMA KeptElsewhere ==
    ASSUME NEW j \in Slots,
           \A i \in Slots \ {j} : ssid'[i] = ssid[i] /\ pass'[i] = pass[i],
           \A n \in Nets : good'[n] # {} => good[n] \subseteq good'[n],
           \A n \in Nets : good'[n] # {} => \E i \in Slots \ {j} : Keeps(n, i)
    PROVE  Spared(j)' /\ Kept'
<1>1. ASSUME NEW n \in Nets, good'[n] # {} PROVE \E i \in Slots \ {j} : Keeps(n, i)'
  <2>1. PICK i \in Slots \ {j} : Keeps(n, i)
    BY <1>1
  <2> QED BY <1>1, <2>1 DEF Keeps
<1> QED BY <1>1 DEF Spared, Kept

\* The network a working task has in mind.
LEMMA WantNet ==
    ASSUME CredTypeOK, PlaceInv
    PROVE  /\ place[Saver] \in SaveSteps => want.net \in Nets /\ want.ver \in Nat /\ want \in Password
           /\ place[Wiper] \in Forgetting => want.net \in Nets
           /\ slot \in Int /\ NumSlots \in Nat \ {0}
  BY CredAssumption DEF PlaceInv, SaverWorks, CredTypeOK

\* A save begins with the first slot of its network, else with the first free one,
\* else with slot 0: only the last leaves no slot free.
LEMMA StartSaveKeeps ==
    ASSUME CredTypeOK, CredInv, NEW w \in Password, NEW i \in Slots, StartSave(w, i)
    PROVE  CredTypeOK' /\ CredInv'
<1>1. CredTypeOK'
  BY CredAssumption DEF Slots, Keepers, SaveSteps, CredTypeOK, GoTo, flashVars, StartSave
<1>2. PlaceInv'
  BY CredAssumption DEF Slots, Keepers, Saver, Wiper, Nobody, SaveSteps, CredTypeOK, GoTo,
    CredInv, PlaceInv, SaverWorks, WiperWorks, StartSave, MayLock
<1>3. KeepInv'
  <2>1. Kept'
    BY DEF CredInv, flashVars, KeepInv, Kept, Keeps, StartSave
  <2>2. Sparing'
    BY DEF CredTypeOK, GoTo, Sparing, StartSave, MayLock
  <2>3. SaveFacts'
    <3>1. SlotsOf(w.net) = {} => good[w.net] = {}
      BY CredAssumption DEF CredInv, KeepInv, Kept, Keeps, SlotsOf
    <3> QED BY <3>1 DEF Keepers, CredTypeOK, GoTo, flashVars, SaveFacts, StartSave, IsFirst,
        SlotsOf
  <2>4. EraseFacts'
    BY DEF Keepers, Wiper, Nobody, CredTypeOK, GoTo, CredInv, PlaceInv, WiperWorks,
      Forgetting, Wiping, EraseFacts, StartSave, MayLock
  <2> QED BY <2>1, <2>2, <2>3, <2>4 DEF KeepInv
<1>4. OrderInv'
  <2>1. ASSUME torn' = {}, failed' = {} PROVE Paired'
    BY <2>1 DEF Wiper, Nobody, flashVars, CredInv, PlaceInv, WiperWorks, OrderInv, Loose,
      Paired, StartSave, MayLock
  <2>2. ASSUME torn' = {}, failed' = {} PROVE Distinct'
    BY <2>2 DEF flashVars, CredInv, OrderInv, Twice, Distinct, StartSave, MayLock
  <2>3. ASSUME torn' = {}, failed' = {} PROVE Forgotten'
    BY DEF Keepers, Wiper, Nobody, CredTypeOK, GoTo, CredInv, PlaceInv, WiperWorks,
      Forgetting, Forgotten, StartSave, MayLock
  <2>4. ASSUME torn' = {} PROVE Fresh'
    BY CredAssumption DEF Keepers, CredTypeOK, GoTo, flashVars, Fresh, StartSave,
      MayLock, SlotsOf
  <2>5. ASSUME torn' = {} PROVE Full'
    BY DEF CredTypeOK, GoTo, flashVars, Full, StartSave, MayLock, SlotsOf
  <2> QED BY <2>1, <2>2, <2>3, <2>4, <2>5 DEF OrderInv
<1>5. FailInv'
  BY DEF Saver, Wiper, Nobody, CredInv, PlaceInv, FailInv, StartSave, MayLock
<1>6. GoneInv'
  BY DEF flashVars, CredInv, GoneInv, SlotsOf, StartSave
<1>7. WipeInv'
  BY DEF Keepers, Wiper, Nobody, CredTypeOK, GoTo, CredInv, PlaceInv, WiperWorks, Wiping,
    WipeInv, StartSave, MayLock
<1> QED BY <1>1, <1>2, <1>3, <1>4, <1>5, <1>6, <1>7 DEF CredInv

\* The new password of a known network goes under the name that is in the slot.
LEMMA UpdateKeeps ==
    ASSUME CredTypeOK, CredInv, Update
    PROVE  CredTypeOK' /\ CredInv'
<1>1. CredTypeOK'
  BY CredAssumption DEF Slots, Keepers, SaveSteps, CredTypeOK, GoTo, Write, CredInv,
    PlaceInv, SaverWorks, Update
<1>2. PlaceInv'
  BY DEF SaveSteps, WipeSteps, GoTo, CredInv, PlaceInv, SaverWorks, WiperWorks, Update
<1>3. KeepInv'
  <2>1. Kept'
    <3>1. ssid[slot] = want.net /\ slot \in Slots /\ want.net \in Nets
      BY WantNet DEF CredInv, PlaceInv, KeepInv, SaveFacts, CredTypeOK, Slots, Update
    <3>2. ASSUME NEW n \in Nets, good'[n] # {}, n # want.net PROVE \E i \in Slots : Keeps(n, i)'
      BY <3>1, <3>2 DEF Update, CredInv, KeepInv, Kept, Keeps, Write
    <3>3. Keeps(want.net, slot)'
      BY <3>1 DEF Update, Keeps, Write, CredTypeOK
    <3> QED BY <3>1, <3>2, <3>3 DEF Kept, Update
  <2>2. Sparing'
    BY DEF GoTo, Sparing, Update
  <2>3. SaveFacts'
    BY WantNet DEF Slots, CredTypeOK, GoTo, Write, CredInv, PlaceInv, KeepInv,
      SaveFacts, Update
  <2>4. EraseFacts'
    BY DEF GoTo, CredInv, PlaceInv, SaverWorks, WiperWorks, Forgetting, Wiping, EraseFacts,
      Update
  <2> QED BY <2>1, <2>2, <2>3, <2>4 DEF KeepInv
<1>4. OrderInv'
  <2>1. ASSUME torn' = {}, failed' = {} PROVE Paired'
    BY <2>1 DEF GoTo, Write, CredInv, OrderInv, Loose, Paired, KeepInv, SaveFacts, Update
  <2>2. ASSUME torn' = {}, failed' = {} PROVE Distinct'
    BY <2>2 DEF CredInv, OrderInv, Twice, Distinct, Update
  <2>3. ASSUME torn' = {}, failed' = {} PROVE Forgotten'
    BY DEF GoTo, CredInv, PlaceInv, SaverWorks, WiperWorks, Forgetting, Forgotten, Update
  <2>4. ASSUME torn' = {} PROVE Fresh'
    BY DEF GoTo, Fresh, Update
  <2>5. ASSUME torn' = {} PROVE Full'
    BY DEF GoTo, Full, Update
  <2> QED BY <2>1, <2>2, <2>3, <2>4, <2>5 DEF OrderInv
<1>5. FailInv'
  BY DEF CredInv, PlaceInv, SaverWorks, FailInv, Update
<1>6. GoneInv'
  BY DEF CredInv, PlaceInv, SaverWorks, GoneInv, SlotsOf, Update
<1>7. WipeInv'
  BY DEF GoTo, CredInv, PlaceInv, SaverWorks, WiperWorks, Wiping, WipeInv, Update
<1> QED BY <1>1, <1>2, <1>3, <1>4, <1>5, <1>6, <1>7 DEF CredInv

\* The slot of a new network was free, so nobody's name is written over.
LEMMA PutSsidKeeps ==
    ASSUME CredTypeOK, CredInv, PutSsid
    PROVE  CredTypeOK' /\ CredInv'
<1>1. CredTypeOK'
  BY CredAssumption DEF Slots, Keepers, SaveSteps, CredTypeOK, GoTo, Write, CredInv,
    PlaceInv, PutSsid
<1>2. PlaceInv'
  BY DEF SaveSteps, WipeSteps, GoTo, CredInv, PlaceInv, SaverWorks, WiperWorks, PutSsid
<1>3. KeepInv'
  <2>1. Kept'
    <3> DEFINE j == slot
    <3>1. j \in Slots
      BY WantNet DEF CredInv, PlaceInv, CredTypeOK, Slots, PutSsid
    <3>2. \A i \in Slots \ {j} : ssid'[i] = ssid[i] /\ pass'[i] = pass[i]
      BY DEF Write, PutSsid
    <3>3. \A n \in Nets : good'[n] # {} => good[n] \subseteq good'[n]
      BY DEF PutSsid
    <3>4. \A n \in Nets : good'[n] # {} => \E i \in Slots \ {j} : Keeps(n, i)
      <4>1. ssid[slot] = None /\ good' = good
        BY DEF CredInv, KeepInv, SaveFacts, PutSsid
      <4> QED BY <4>1, CredAssumption DEF CredInv, KeepInv, Kept, Keeps
    <3> HIDE DEF j
    <3> QED BY <3>1, <3>2, <3>3, <3>4, KeptElsewhere
  <2>2. Sparing'
    BY DEF GoTo, Sparing, PutSsid
  <2>3. SaveFacts'
    BY WantNet DEF Slots, Keepers, CredTypeOK, GoTo, Write, CredInv, PlaceInv, KeepInv,
      SaveFacts, PutSsid
  <2>4. EraseFacts'
    BY DEF GoTo, Write, CredInv, Forgetting, KeepInv, Wiping, EraseFacts, PutSsid
  <2> QED BY <2>1, <2>2, <2>3, <2>4 DEF KeepInv
<1>4. OrderInv'
  <2>1. ASSUME torn' = {}, failed' = {} PROVE Paired'
    BY <2>1 DEF Keepers, CredTypeOK, GoTo, Write, CredInv, OrderInv, Loose, Paired, PutSsid
  <2>2. ASSUME torn' = {}, failed' = {} PROVE Distinct'
    BY <2>2 DEF Write, CredInv, OrderInv, Twice, Distinct, Fresh, PutSsid
  <2>3. ASSUME torn' = {}, failed' = {} PROVE Forgotten'
    BY DEF GoTo, CredInv, PlaceInv, SaverWorks, WiperWorks, Forgetting, Forgotten, PutSsid
  <2>4. ASSUME torn' = {} PROVE Fresh'
    BY DEF Keepers, CredTypeOK, GoTo, Fresh, PutSsid
  <2>5. ASSUME torn' = {} PROVE Full'
    BY DEF GoTo, Full, PutSsid
  <2> QED BY <2>1, <2>2, <2>3, <2>4, <2>5 DEF OrderInv
<1>5. FailInv'
  BY DEF CredInv, PlaceInv, SaverWorks, FailInv, PutSsid
<1>6. GoneInv'
  BY DEF Write, CredInv, PlaceInv, SaverWorks, GoneInv, SlotsOf, PutSsid
<1>7. WipeInv'
  BY DEF GoTo, CredInv, PlaceInv, SaverWorks, WiperWorks, Wiping, WipeInv, PutSsid
<1> QED BY <1>1, <1>2, <1>3, <1>4, <1>5, <1>6, <1>7 DEF CredInv

\* The password follows the name into the same slot.
LEMMA PutPassKeeps ==
    ASSUME CredTypeOK, CredInv, PutPass
    PROVE  CredTypeOK' /\ CredInv'
<1>1. CredTypeOK'
  BY CredAssumption DEF Slots, Keepers, SaveSteps, CredTypeOK, GoTo, Write, CredInv,
    PlaceInv, SaverWorks, PutPass
<1>2. PlaceInv'
  BY DEF SaveSteps, WipeSteps, GoTo, CredInv, PlaceInv, SaverWorks, WiperWorks, PutPass
<1>3. KeepInv'
  <2>1. Kept'
    <3> DEFINE j == slot
    <3>1. j \in Slots
      BY WantNet DEF CredInv, PlaceInv, CredTypeOK, Slots, PutPass
    <3>2. \A i \in Slots \ {j} : ssid'[i] = ssid[i] /\ pass'[i] = pass[i]
      BY DEF Write, PutPass
    <3>3. \A n \in Nets : good'[n] # {} => good[n] \subseteq good'[n]
      BY DEF PutPass
    <3>4. \A n \in Nets : good'[n] # {} => \E i \in Slots \ {j} : Keeps(n, i)
      BY DEF CredInv, PlaceInv, KeepInv, SaveFacts, Keeps, PutPass, Kept
    <3> HIDE DEF j
    <3> QED BY <3>1, <3>2, <3>3, <3>4, KeptElsewhere
  <2>2. Sparing'
    BY DEF GoTo, Sparing, PutPass
  <2>3. SaveFacts'
    BY WantNet DEF Slots, CredTypeOK, GoTo, Write, CredInv, PlaceInv, KeepInv, SaveFacts,
      PutPass
  <2>4. EraseFacts'
    BY DEF GoTo, Write, CredInv, Forgetting, KeepInv, Wiping, EraseFacts, PutPass
  <2> QED BY <2>1, <2>2, <2>3, <2>4 DEF KeepInv
<1>4. OrderInv'
  <2>1. ASSUME torn' = {}, failed' = {} PROVE Paired'
    BY <2>1 DEF CredTypeOK, Write, CredInv, OrderInv, Loose, Paired, KeepInv, SaveFacts,
      PutPass
  <2>2. ASSUME torn' = {}, failed' = {} PROVE Distinct'
    BY <2>2 DEF CredInv, OrderInv, Twice, Distinct, PutPass
  <2>3. ASSUME torn' = {}, failed' = {} PROVE Forgotten'
    BY DEF GoTo, CredInv, PlaceInv, SaverWorks, WiperWorks, Forgetting, Forgotten, PutPass
  <2>4. ASSUME torn' = {} PROVE Fresh'
    BY DEF GoTo, Fresh, PutPass
  <2>5. ASSUME torn' = {} PROVE Full'
    BY DEF GoTo, Full, PutPass
  <2> QED BY <2>1, <2>2, <2>3, <2>4, <2>5 DEF OrderInv
<1>5. FailInv'
  BY DEF CredInv, PlaceInv, SaverWorks, FailInv, PutPass
<1>6. GoneInv'
  BY DEF CredInv, PlaceInv, SaverWorks, GoneInv, SlotsOf, PutPass
<1>7. WipeInv'
  BY DEF GoTo, CredInv, PlaceInv, SaverWorks, WiperWorks, Wiping, WipeInv, PutPass
<1> QED BY <1>1, <1>2, <1>3, <1>4, <1>5, <1>6, <1>7 DEF CredInv

\* The oldest network is given up before its name goes.
LEMMA EvictSsidKeeps ==
    ASSUME CredTypeOK, CredInv, EvictSsid
    PROVE  CredTypeOK' /\ CredInv'
<1>1. CredTypeOK'
  BY CredAssumption DEF Slots, Keepers, SaveSteps, CredTypeOK, GoTo, Write, CredInv,
    PlaceInv, SaverWorks, None, NoPass, EvictSsid
<1>2. PlaceInv'
  BY DEF SaveSteps, WipeSteps, GoTo, CredInv, PlaceInv, SaverWorks, WiperWorks, EvictSsid
<1>3. KeepInv'
  <2>1. Kept'
    <3> DEFINE j == 0
    <3>1. j \in Slots
      BY WantNet DEF CredInv, PlaceInv, CredTypeOK, Slots, EvictSsid
    <3>2. \A i \in Slots \ {j} : ssid'[i] = ssid[i] /\ pass'[i] = pass[i]
      BY DEF Write, EvictSsid
    <3>3. \A n \in Nets : good'[n] # {} => good[n] \subseteq good'[n]
      BY DEF EvictSsid
    <3>4. \A n \in Nets : good'[n] # {} => \E i \in Slots \ {j} : Keeps(n, i)
      BY DEF CredInv, KeepInv, Keeps, CredTypeOK, EvictSsid, Kept
    <3> HIDE DEF j
    <3> QED BY <3>1, <3>2, <3>3, <3>4, KeptElsewhere
  <2>2. Sparing'
    BY DEF GoTo, Sparing, EvictSsid
  <2>3. SaveFacts'
    BY WantNet DEF Slots, Keepers, CredTypeOK, GoTo, Write, CredInv, PlaceInv, KeepInv,
      SaveFacts, EvictSsid
  <2>4. EraseFacts'
    BY DEF GoTo, CredInv, PlaceInv, SaverWorks, WiperWorks, Forgetting, Wiping, EraseFacts,
      EvictSsid
  <2> QED BY <2>1, <2>2, <2>3, <2>4 DEF KeepInv
<1>4. OrderInv'
  <2>1. ASSUME torn' = {}, failed' = {} PROVE Paired'
    BY <2>1 DEF Keepers, CredTypeOK, GoTo, Write, CredInv, PlaceInv, OrderInv, Loose,
      Paired, EvictSsid
  <2>2. ASSUME torn' = {}, failed' = {} PROVE Distinct'
    BY <2>2 DEF Write, CredInv, OrderInv, Twice, Distinct, EvictSsid
  <2>3. ASSUME torn' = {}, failed' = {} PROVE Forgotten'
    BY DEF GoTo, CredInv, PlaceInv, SaverWorks, WiperWorks, Forgetting, Forgotten, EvictSsid
  <2>4. ASSUME torn' = {} PROVE Fresh'
    BY <2>4, CredAssumption DEF Write, CredInv, PlaceInv, SaverWorks, OrderInv, Fresh,
      EvictSsid
  <2>5. ASSUME torn' = {} PROVE Full'
    BY <2>5 DEF Write, CredInv, OrderInv, Full, EvictSsid
  <2> QED BY <2>1, <2>2, <2>3, <2>4, <2>5 DEF OrderInv
<1>5. FailInv'
  BY DEF CredInv, PlaceInv, SaverWorks, FailInv, EvictSsid
<1>6. GoneInv'
  BY CredAssumption DEF CredTypeOK, Write, CredInv, PlaceInv, SaverWorks, GoneInv, SlotsOf,
    EvictSsid
<1>7. WipeInv'
  BY DEF GoTo, CredInv, PlaceInv, SaverWorks, WiperWorks, Wiping, WipeInv, EvictSsid
<1> QED BY <1>1, <1>2, <1>3, <1>4, <1>5, <1>6, <1>7 DEF CredInv

\* From then on nobody needs slot 0, where the first of the others will go.
LEMMA EvictPassKeeps ==
    ASSUME CredTypeOK, CredInv, EvictPass
    PROVE  CredTypeOK' /\ CredInv'
<1>1. CredTypeOK'
  BY CredAssumption DEF Slots, Keepers, SaveSteps, CredTypeOK, GoTo, Write, CredInv,
    PlaceInv, EvictPass
<1>2. PlaceInv'
  BY DEF Saver, Wiper, Nobody, SaveSteps, CredTypeOK, GoTo, CredInv, PlaceInv, SaverWorks,
    WiperWorks, EvictPass
<1>3. KeepInv'
  <2>1. Kept'
    <3> DEFINE j == 0
    <3>1. j \in Slots
      BY WantNet DEF CredInv, PlaceInv, CredTypeOK, Slots, EvictPass
    <3>2. \A i \in Slots \ {j} : ssid'[i] = ssid[i] /\ pass'[i] = pass[i]
      BY DEF Write, EvictPass
    <3>3. \A n \in Nets : good'[n] # {} => good[n] \subseteq good'[n]
      BY DEF EvictPass
    <3>4. \A n \in Nets : good'[n] # {} => \E i \in Slots \ {j} : Keeps(n, i)
      BY CredAssumption DEF CredInv, KeepInv, SaveFacts, Keeps, EvictPass, Kept
    <3> HIDE DEF j
    <3> QED BY <3>1, <3>2, <3>3, <3>4, KeptElsewhere
  <2>2. Sparing'
    <3>1. Spared(0)'
      <4> DEFINE j == 0
      <4>1. j \in Slots
        BY CredAssumption DEF Slots
      <4>2. \A i \in Slots \ {j} : ssid'[i] = ssid[i] /\ pass'[i] = pass[i]
        BY DEF Write, EvictPass
      <4>3. \A n \in Nets : good'[n] # {} => good[n] \subseteq good'[n]
        BY DEF EvictPass
      <4>4. \A n \in Nets : good'[n] # {} => \E i \in Slots \ {j} : Keeps(n, i)
        BY CredAssumption DEF CredInv, KeepInv, SaveFacts, Keeps, EvictPass, Kept
          <4> QED BY <4>1, <4>2, <4>3, <4>4, KeptElsewhere
    <3>2. slot' - 1 = 0
      BY DEF EvictPass
    <3> QED BY <3>1, <3>2 DEF Sparing, Spared
  <2>3. SaveFacts'
    BY WantNet DEF Slots, CredTypeOK, GoTo, Write, CredInv, PlaceInv, KeepInv, SaveFacts,
      EvictPass
  <2>4. EraseFacts'
    BY DEF GoTo, CredInv, PlaceInv, SaverWorks, WiperWorks, Forgetting, Wiping, EraseFacts,
      EvictPass
  <2> QED BY <2>1, <2>2, <2>3, <2>4 DEF KeepInv
<1>4. OrderInv'
  <2>1. ASSUME torn' = {}, failed' = {} PROVE Paired'
    BY <2>1 DEF NoPass, CredTypeOK, Write, CredInv, PlaceInv, OrderInv, Loose, Paired,
      KeepInv, SaveFacts, EvictPass
  <2>2. ASSUME torn' = {}, failed' = {} PROVE Distinct'
    BY <2>2 DEF CredInv, OrderInv, Twice, Distinct, EvictPass
  <2>3. ASSUME torn' = {}, failed' = {} PROVE Forgotten'
    BY DEF GoTo, CredInv, PlaceInv, SaverWorks, WiperWorks, Forgetting, Forgotten, EvictPass
  <2>4. ASSUME torn' = {} PROVE Fresh'
    BY <2>4, CredAssumption DEF Write, CredInv, PlaceInv, SaverWorks, OrderInv, Fresh,
      EvictPass
  <2>5. ASSUME torn' = {} PROVE Full'
    BY <2>5 DEF Slots, CredInv, PlaceInv, OrderInv, Full, EvictPass
  <2> QED BY <2>1, <2>2, <2>3, <2>4, <2>5 DEF OrderInv
<1>5. FailInv'
  BY DEF CredInv, PlaceInv, SaverWorks, FailInv, EvictPass
<1>6. GoneInv'
  BY DEF CredInv, PlaceInv, SaverWorks, GoneInv, SlotsOf, EvictPass
<1>7. WipeInv'
  BY DEF GoTo, CredInv, PlaceInv, SaverWorks, WiperWorks, Wiping, WipeInv, EvictPass
<1> QED BY <1>1, <1>2, <1>3, <1>4, <1>5, <1>6, <1>7 DEF CredInv

\* A name moves down over a slot that nobody needs; until its password follows, its
\* network is still kept by the slot it comes from.
LEMMA CopySsidKeeps ==
    ASSUME CredTypeOK, CredInv, CopySsid
    PROVE  CredTypeOK' /\ CredInv'
<1>1. CredTypeOK'
  <2>1. ssid' \in [Slots -> Nets \union {None}] /\ pass' \in [Slots -> Password \union {NoPass}]
    BY WantNet DEF CredInv, CredTypeOK, Slots, Write, CopySsid
  <2>2. holder' \in Keepers \union {Nobody} /\ leaked' \subseteq {"leaked"} /\ failed' \subseteq {"failed"}
    BY DEF CredTypeOK, CopySsid
  <2>3. place' \in [Keepers -> {"idle"} \union SaveSteps \union WipeSteps]
    BY DEF CredTypeOK, SaveSteps, GoTo, CopySsid
  <2>4. slot' \in 0..NumSlots
    BY CredAssumption DEF CredTypeOK, CopySsid
  <2>5. want' \in Password \union [net : Nets \union {None}, ver : {0}]
    BY DEF CredTypeOK, NoPass, None, CopySsid, Stored
  <2>6. good' \in [Nets -> SUBSET Nat]
    BY DEF CredTypeOK, CopySsid
  <2>7. torn' \subseteq {"torn"} /\ wiped' \subseteq {"wiped"} /\ gone' \subseteq Nets
    BY DEF CredTypeOK, CopySsid
  <2> QED BY <2>1, <2>2, <2>3, <2>4, <2>5, <2>6, <2>7 DEF CredTypeOK
<1>2. PlaceInv'
  BY DEF Keepers, SaveSteps, WipeSteps, CredTypeOK, GoTo, CredInv, PlaceInv, SaverWorks,
    WiperWorks, CopySsid
<1>3. KeepInv'
  <2>1. Kept'
    <3>1. CASE Stored(slot)
      <4> DEFINE j == (slot - 1)
      <4>1. j \in Slots
        BY WantNet DEF CredInv, PlaceInv, Slots, CopySsid
      <4>2. \A i \in Slots \ {j} : ssid'[i] = ssid[i] /\ pass'[i] = pass[i]
        BY DEF Write, CredTypeOK, CopySsid
      <4>3. \A n \in Nets : good'[n] # {} => good[n] \subseteq good'[n]
        BY DEF CopySsid
      <4>4. \A n \in Nets : good'[n] # {} => \E i \in Slots \ {j} : Keeps(n, i)
        BY DEF CredInv, KeepInv, CopySsid, Sparing, Spared
      <4> HIDE DEF j
      <4> QED BY <4>1, <4>2, <4>3, <4>4, KeptElsewhere
    <3>2. CASE ~Stored(slot)
      BY <3>2 DEF CredInv, KeepInv, Kept, Keeps, CopySsid
    <3> QED BY <3>1, <3>2
  <2>2. Sparing'
    <3>1. ASSUME NEW n \in Nets, good[n] # {}
          PROVE  \E i \in Slots \ {slot' - 1} : Keeps(n, i)'
      <4>1. CASE Stored(slot)
        BY <3>1, <4>1 DEF CredInv, KeepInv, Keeps, Write, CredTypeOK, CopySsid, Sparing,
          Spared
      <4>2. CASE ~Stored(slot)
        <5>1. PICK i \in Slots : Keeps(n, i)
          BY <3>1 DEF CredInv, KeepInv, Kept
        <5>2. i # slot
          BY <4>2, <5>1, CredAssumption DEF Keeps, Stored, NoPass
        <5>3. slot' - 1 = slot /\ UNCHANGED <<ssid, pass, good>>
          BY <4>2, WantNet DEF CredInv, CopySsid
        <5>4. Keeps(n, i)'
          BY <5>1, <5>3 DEF Keeps
        <5> QED BY <5>1, <5>2, <5>3, <5>4
      <4> QED BY <4>1, <4>2
    <3> QED BY <3>1 DEF Sparing, Spared, CopySsid
  <2>3. SaveFacts'
    BY WantNet DEF Slots, CredTypeOK, GoTo, Write, CredInv, PlaceInv, KeepInv, SaveFacts,
      Stored, CopySsid
  <2>4. EraseFacts'
    BY DEF Keepers, CredTypeOK, GoTo, CredInv, PlaceInv, SaverWorks, WiperWorks, Forgetting,
      Wiping, EraseFacts, CopySsid
  <2> QED BY <2>1, <2>2, <2>3, <2>4 DEF KeepInv
<1>4. OrderInv'
  <2>1. ASSUME torn' = {}, failed' = {} PROVE Paired'
    BY <2>1 DEF Keepers, CredTypeOK, GoTo, Write, CredInv, PlaceInv, SaverWorks, WiperWorks,
      OrderInv, Loose, Paired, CopySsid
  <2>2. ASSUME torn' = {}, failed' = {} PROVE Distinct'
    BY <2>2, CredAssumption DEF Slots, WipeSteps, NoPass, CredTypeOK, GoTo, Write, CredInv,
      PlaceInv, SaverWorks, WiperWorks, OrderInv, Loose, Twice, Distinct, Full, Paired,
      Stored, CopySsid
  <2>3. ASSUME torn' = {}, failed' = {} PROVE Forgotten'
    BY DEF Keepers, CredTypeOK, GoTo, CredInv, PlaceInv, SaverWorks, WiperWorks, Forgetting,
      Forgotten, CopySsid
  <2>4. ASSUME torn' = {} PROVE Fresh'
    BY <2>4, CredAssumption DEF Slots, Keepers, CredTypeOK, GoTo, Write, CredInv,
      PlaceInv, SaverWorks, OrderInv, Fresh, CopySsid, Stored
  <2>5. ASSUME torn' = {} PROVE Full'
    <3>1. /\ slot \in Nat /\ torn = {} /\ place[Saver] = "copy_ssid" /\ slot' \in {slot, slot + 1}
          /\ \A i \in Slots : i >= slot => ssid'[i] = ssid[i]
      BY <2>5, CredAssumption DEF Slots, CredTypeOK, Write, CopySsid
    <3> QED BY <3>1 DEF CredInv, OrderInv, Full, Slots
  <2> QED BY <2>1, <2>2, <2>3, <2>4, <2>5 DEF OrderInv
<1>5. FailInv'
  BY DEF CredInv, PlaceInv, SaverWorks, FailInv, CopySsid
<1>6. GoneInv'
  BY CredAssumption DEF Slots, Keepers, Saver, Wiper, SaveSteps, WipeSteps, None,
    CredTypeOK, GoTo, Write, CredInv, PlaceInv, SaverWorks, WiperWorks, Forgetting,
    FailInv, GoneInv, SlotsOf, OrderInv, Fresh, CopySsid, Stored
<1>7. WipeInv'
  BY DEF Keepers, CredTypeOK, GoTo, CredInv, PlaceInv, SaverWorks, WiperWorks, Wiping,
    WipeInv, CopySsid
<1> QED BY <1>1, <1>2, <1>3, <1>4, <1>5, <1>6, <1>7 DEF CredInv

\* Then the slot below keeps the network, and the one it came from is free to go.
LEMMA CopyPassKeeps ==
    ASSUME CredTypeOK, CredInv, CopyPass
    PROVE  CredTypeOK' /\ CredInv'
<1>1. CredTypeOK'
  BY CredAssumption DEF Slots, Keepers, SaveSteps, CredTypeOK, GoTo, Write, CredInv,
    PlaceInv, CopyPass
<1>2. PlaceInv'
  BY DEF Keepers, SaveSteps, WipeSteps, CredTypeOK, GoTo, CredInv, PlaceInv, SaverWorks,
    WiperWorks, CopyPass
<1>3. KeepInv'
  <2>1. Kept'
    <3> DEFINE j == (slot - 1)
    <3>1. j \in Slots
      BY WantNet DEF CredInv, PlaceInv, CredTypeOK, Slots, CopyPass
    <3>2. \A i \in Slots \ {j} : ssid'[i] = ssid[i] /\ pass'[i] = pass[i]
      BY DEF Write, CopyPass
    <3>3. \A n \in Nets : good'[n] # {} => good[n] \subseteq good'[n]
      BY DEF CopyPass
    <3>4. \A n \in Nets : good'[n] # {} => \E i \in Slots \ {j} : Keeps(n, i)
      BY DEF CredInv, KeepInv, CopyPass, Sparing, Spared
    <3> HIDE DEF j
    <3> QED BY <3>1, <3>2, <3>3, <3>4, KeptElsewhere
  <2>2. Sparing'
    <3>1. ASSUME NEW n \in Nets, good[n] # {}
          PROVE  \E i \in Slots \ {slot' - 1} : Keeps(n, i)'
      <4>1. PICK i \in Slots \ {slot - 1} : Keeps(n, i)
        BY <3>1 DEF CredInv, KeepInv, Sparing, Spared, CopyPass
      <4>2. CASE i # slot
        BY <4>1, <4>2, WantNet DEF CredInv, Keeps, Write, CopyPass
      <4>3. CASE i = slot
        <5>1. /\ slot - 1 \in Slots /\ slot \in Slots /\ slot - 1 # slot
              /\ ssid[slot - 1] = ssid[slot] /\ slot' = slot + 1
              /\ ssid' = ssid /\ good' = good /\ pass' = [pass EXCEPT ![slot - 1] = pass[slot]]
          BY WantNet DEF CredInv, PlaceInv, KeepInv, SaveFacts, Write, Slots, CopyPass
        <5>2. PICK k \in Slots : k = slot - 1
          BY <5>1
        <5>3. Keeps(n, k)'
          BY <4>1, <4>3, <5>1, <5>2 DEF Keeps, CredTypeOK
        <5> QED BY <5>1, <5>2, <5>3, WantNet DEF CredInv
      <4> QED BY <4>2, <4>3
    <3> QED BY <3>1 DEF Sparing, Spared, CopyPass
  <2>3. SaveFacts'
    BY WantNet DEF Slots, Keepers, CredTypeOK, GoTo, Write, CredInv, PlaceInv, KeepInv,
      SaveFacts, CopyPass
  <2>4. EraseFacts'
    BY DEF GoTo, CredInv, PlaceInv, SaverWorks, WiperWorks, Forgetting, Wiping, EraseFacts,
      CopyPass
  <2> QED BY <2>1, <2>2, <2>3, <2>4 DEF KeepInv
<1>4. OrderInv'
  <2>1. ASSUME torn' = {}, failed' = {} PROVE Paired'
    BY <2>1, CredAssumption DEF Slots, CredTypeOK, Write, CredInv, PlaceInv, SaverWorks,
      WiperWorks, OrderInv, Loose, Paired, KeepInv, SaveFacts, EraseFacts, CopyPass
  <2>2. ASSUME torn' = {}, failed' = {} PROVE Distinct'
    <3>1. /\ slot - 1 \in Slots /\ slot \in Slots /\ slot' = slot + 1 /\ ssid' = ssid
          /\ ssid[slot - 1] = ssid[slot] /\ place[Saver] = "copy_pass" /\ torn = {} /\ failed = {}
      BY <2>2, WantNet DEF CredInv, PlaceInv, KeepInv, SaveFacts, Slots, CopyPass
    <3>2. \A i, j \in Slots \ {slot - 1} : ssid[i] = ssid[j] /\ ssid[i] # None => i = j
      BY <3>1 DEF CredInv, OrderInv, Distinct, Twice
    <3>3. \A i \in Slots : ~Twice(i)' => i # slot
      BY DEF Twice, CopyPass, GoTo, CredTypeOK
    <3> QED BY <3>1, <3>2, <3>3 DEF Distinct
  <2>3. ASSUME torn' = {}, failed' = {} PROVE Forgotten'
    BY DEF GoTo, CredInv, PlaceInv, SaverWorks, WiperWorks, Forgetting, Forgotten, CopyPass
  <2>4. ASSUME torn' = {} PROVE Fresh'
    BY <2>4, CredAssumption DEF Write, CredInv, PlaceInv, SaverWorks, OrderInv, Fresh,
      CopyPass
  <2>5. ASSUME torn' = {} PROVE Full'
    BY <2>5, CredAssumption DEF Slots, CredTypeOK, Write, CredInv, OrderInv, Full, CopyPass
  <2> QED BY <2>1, <2>2, <2>3, <2>4, <2>5 DEF OrderInv
<1>5. FailInv'
  BY DEF CredInv, PlaceInv, SaverWorks, FailInv, CopyPass
<1>6. GoneInv'
  BY DEF CredInv, PlaceInv, SaverWorks, GoneInv, SlotsOf, CopyPass
<1>7. WipeInv'
  BY DEF GoTo, CredInv, PlaceInv, SaverWorks, WiperWorks, Wiping, WipeInv, CopyPass
<1> QED BY <1>1, <1>2, <1>3, <1>4, <1>5, <1>6, <1>7 DEF CredInv

\* All have moved: the last slot is spare, and the new name goes there.
LEMMA LastSsidKeeps ==
    ASSUME CredTypeOK, CredInv, LastSsid
    PROVE  CredTypeOK' /\ CredInv'
<1>1. CredTypeOK'
  BY CredAssumption DEF Slots, Keepers, SaveSteps, CredTypeOK, GoTo, Write, CredInv,
    PlaceInv, LastSsid
<1>2. PlaceInv'
  BY DEF Keepers, SaveSteps, WipeSteps, CredTypeOK, GoTo, CredInv, PlaceInv, SaverWorks,
    WiperWorks, LastSsid
<1>3. KeepInv'
  <2>1. Kept'
    <3> DEFINE j == (NumSlots - 1)
    <3>1. j \in Slots
      BY WantNet DEF CredInv, PlaceInv, CredTypeOK, Slots, LastSsid
    <3>2. \A i \in Slots \ {j} : ssid'[i] = ssid[i] /\ pass'[i] = pass[i]
      BY DEF Write, LastSsid
    <3>3. \A n \in Nets : good'[n] # {} => good[n] \subseteq good'[n]
      BY DEF LastSsid
    <3>4. \A n \in Nets : good'[n] # {} => \E i \in Slots \ {j} : Keeps(n, i)
      BY DEF CredInv, KeepInv, LastSsid, Sparing, Spared
    <3> HIDE DEF j
    <3> QED BY <3>1, <3>2, <3>3, <3>4, KeptElsewhere
  <2>2. Sparing'
    BY DEF Saver, Nobody, CredTypeOK, GoTo, CredInv, PlaceInv, Sparing, LastSsid
  <2>3. SaveFacts'
    BY WantNet DEF Slots, CredTypeOK, GoTo, Write, CredInv, PlaceInv, KeepInv, SaveFacts,
      LastSsid
  <2>4. EraseFacts'
    BY DEF GoTo, CredInv, PlaceInv, SaverWorks, WiperWorks, Forgetting, Wiping, EraseFacts,
      LastSsid
  <2> QED BY <2>1, <2>2, <2>3, <2>4 DEF KeepInv
<1>4. OrderInv'
  <2>1. ASSUME torn' = {}, failed' = {} PROVE Paired'
    BY <2>1 DEF Keepers, CredTypeOK, GoTo, Write, CredInv, PlaceInv, SaverWorks, WiperWorks,
      OrderInv, Loose, Paired, LastSsid
  <2>2. ASSUME torn' = {}, failed' = {} PROVE Distinct'
    BY <2>2 DEF CredTypeOK, Write, CredInv, OrderInv, Twice, Distinct, Fresh, LastSsid
  <2>3. ASSUME torn' = {}, failed' = {} PROVE Forgotten'
    BY DEF GoTo, CredInv, PlaceInv, SaverWorks, WiperWorks, Forgetting, Forgotten, LastSsid
  <2>4. ASSUME torn' = {} PROVE Fresh'
    BY DEF Keepers, CredTypeOK, GoTo, Fresh, LastSsid
  <2>5. ASSUME torn' = {} PROVE Full'
    BY DEF Keepers, CredTypeOK, GoTo, Full, LastSsid
  <2> QED BY <2>1, <2>2, <2>3, <2>4, <2>5 DEF OrderInv
<1>5. FailInv'
  BY DEF CredInv, PlaceInv, SaverWorks, FailInv, LastSsid
<1>6. GoneInv'
  BY DEF Write, CredInv, PlaceInv, SaverWorks, GoneInv, SlotsOf, LastSsid
<1>7. WipeInv'
  BY DEF GoTo, CredInv, PlaceInv, SaverWorks, WiperWorks, Wiping, WipeInv, LastSsid
<1> QED BY <1>1, <1>2, <1>3, <1>4, <1>5, <1>6, <1>7 DEF CredInv

\* The password that is acknowledged is in its slot.
LEMMA CommitSaveKeeps ==
    ASSUME CredTypeOK, CredInv, CommitSave
    PROVE  CredTypeOK' /\ CredInv'
<1>1. CredTypeOK'
  <2>1. ssid' \in [Slots -> Nets \union {None}] /\ pass' \in [Slots -> Password \union {NoPass}]
    BY DEF CredTypeOK, flashVars, CommitSave
  <2>2. holder' \in Keepers \union {Nobody} /\ leaked' \subseteq {"leaked"} /\ failed' \subseteq {"failed"}
    BY DEF CredTypeOK, CommitSave, Returns
  <2>3. place' \in [Keepers -> {"idle"} \union SaveSteps \union WipeSteps]
    BY DEF CredTypeOK, Keepers, CommitSave, Returns
  <2>4. slot' \in 0..NumSlots
    BY CredAssumption DEF CommitSave, Returns
  <2>5. want' \in Password \union [net : Nets \union {None}, ver : {0}]
    BY DEF NoPass, CommitSave, Returns
  <2>6. good' \in [Nets -> SUBSET Nat]
    BY WantNet DEF CredInv, CredTypeOK, SaveSteps, CommitSave
  <2>7. torn' \subseteq {"torn"} /\ wiped' \subseteq {"wiped"} /\ gone' \subseteq Nets
    BY WantNet DEF CredInv, CredTypeOK, SaveSteps, WipeSteps, Forgetting, CommitSave,
      Returns, Tears
  <2> QED BY <2>1, <2>2, <2>3, <2>4, <2>5, <2>6, <2>7 DEF CredTypeOK
<1>2. PlaceInv'
  BY DEF Keepers, Saver, Wiper, Nobody, SaveSteps, WipeSteps, CredTypeOK, CredInv,
    PlaceInv, SaverWorks, WiperWorks, Forgetting, CommitSave, Returns
<1>3. KeepInv'
  <2>1. Kept'
    <3>1. CASE good' = good
      BY <3>1 DEF CredInv, KeepInv, Kept, Keeps, CommitSave, flashVars
    <3>2. CASE good' = [good EXCEPT ![want.net] = {want.ver}]
      <4>1. ssid[slot] = want.net /\ pass[slot] = want /\ slot \in Slots /\ want.net \in Nets
        BY WantNet DEF CredInv, PlaceInv, KeepInv, SaveFacts, CredTypeOK, Slots, CommitSave
      <4>2. ASSUME NEW n \in Nets, good'[n] # {}, n # want.net PROVE \E i \in Slots : Keeps(n, i)'
        BY <3>2, <4>2 DEF CredInv, KeepInv, Kept, Keeps, CommitSave, flashVars
      <4>3. ASSUME NEW n \in Nets, n = want.net PROVE \E i \in Slots : Keeps(n, i)'
        <5>1. PICK k \in Slots : k = slot
          BY <4>1
        <5>2. Keeps(n, k)'
          BY <3>2, <4>1, <4>3, <5>1 DEF Keeps, CommitSave, flashVars, CredTypeOK
        <5> QED BY <5>2
      <4> QED BY <4>2, <4>3 DEF Kept
    <3> QED BY <3>1, <3>2 DEF CommitSave
  <2>2. Sparing'
    BY DEF Sparing, CommitSave, Returns
  <2>3. SaveFacts'
    BY DEF Keepers, SaveSteps, CredTypeOK, SaveFacts, CommitSave, Returns
  <2>4. EraseFacts'
    BY DEF CredInv, PlaceInv, SaverWorks, WiperWorks, Forgetting, Wiping, EraseFacts,
      CommitSave, Returns
  <2> QED BY <2>1, <2>2, <2>3, <2>4 DEF KeepInv
<1>4. OrderInv'
  <2>1. ASSUME torn' = {}, failed' = {} PROVE Paired'
    BY <2>1 DEF flashVars, CredInv, PlaceInv, SaverWorks, WiperWorks, FailInv, OrderInv,
      Loose, Paired, CommitSave, Tears
  <2>2. ASSUME torn' = {}, failed' = {} PROVE Distinct'
    BY <2>2 DEF flashVars, CredInv, PlaceInv, SaverWorks, FailInv, OrderInv, Twice,
      Distinct, CommitSave, Tears
  <2>3. ASSUME torn' = {}, failed' = {} PROVE Forgotten'
    BY DEF CredInv, PlaceInv, SaverWorks, WiperWorks, Forgetting, Forgotten, CommitSave,
      Returns
  <2>4. ASSUME torn' = {} PROVE Fresh'
    BY DEF Fresh, CommitSave, Returns
  <2>5. ASSUME torn' = {} PROVE Full'
    BY DEF Full, CommitSave, Returns
  <2> QED BY <2>1, <2>2, <2>3, <2>4, <2>5 DEF OrderInv
<1>5. FailInv'
  BY DEF FailInv, CommitSave, Returns
<1>6. GoneInv'
  BY CredAssumption DEF NoPass, CredTypeOK, flashVars, CredInv, GoneInv, SlotsOf,
    CommitSave, Returns, Tears
<1>7. WipeInv'
  BY DEF CredInv, PlaceInv, SaverWorks, WiperWorks, Wiping, WipeInv, CommitSave, Returns
<1> QED BY <1>1, <1>2, <1>3, <1>4, <1>5, <1>6, <1>7 DEF CredInv

\* A failed write leaves flash torn, and the work registers as they were at first.
LEMMA SaveFailsKeeps ==
    ASSUME CredTypeOK, CredInv, SaveFails
    PROVE  CredTypeOK' /\ CredInv'
<1>1. CredTypeOK'
  BY CredAssumption DEF Saver, Nobody, NoPass, CredTypeOK, flashVars, CredInv, PlaceInv,
    SaverWorks, SaveFails, Returns, Tears
<1>2. PlaceInv'
  BY DEF Keepers, Saver, Wiper, Nobody, SaveSteps, WipeSteps, CredTypeOK, CredInv,
    PlaceInv, SaverWorks, WiperWorks, Forgetting, SaveFails, Returns
<1>3. KeepInv'
  <2>1. Kept'
    BY DEF CredInv, flashVars, KeepInv, Kept, Keeps, SaveFails
  <2>2. Sparing'
    BY DEF Keepers, CredTypeOK, Sparing, SaveFails, Returns
  <2>3. SaveFacts'
    BY DEF Keepers, SaveSteps, CredTypeOK, SaveFacts, SaveFails, Returns
  <2>4. EraseFacts'
    BY DEF SaveSteps, CredInv, PlaceInv, SaverWorks, WiperWorks, Forgetting, Wiping,
      EraseFacts, SaveFails, Returns
  <2> QED BY <2>1, <2>2, <2>3, <2>4 DEF KeepInv
<1>4. OrderInv'
  <2>1. ASSUME torn' = {}, failed' = {} PROVE Paired'
    BY <2>1 DEF flashVars, CredInv, PlaceInv, SaverWorks, WiperWorks, FailInv, OrderInv,
      Loose, Paired, SaveFails, Tears
  <2>2. ASSUME torn' = {}, failed' = {} PROVE Distinct'
    BY <2>2 DEF flashVars, CredInv, PlaceInv, SaverWorks, FailInv, OrderInv, Twice,
      Distinct, SaveFails, Tears
  <2>3. ASSUME torn' = {}, failed' = {} PROVE Forgotten'
    BY <2>3 DEF SaveFails, Tears
  <2>4. ASSUME torn' = {} PROVE Fresh'
    BY <2>4 DEF SaveFails, Tears
  <2>5. ASSUME torn' = {} PROVE Full'
    BY <2>5 DEF SaveFails, Tears
  <2> QED BY <2>1, <2>2, <2>3, <2>4, <2>5 DEF OrderInv
<1>5. FailInv'
  BY DEF FailInv, SaveFails, Returns
<1>6. GoneInv'
  BY CredAssumption DEF NoPass, CredTypeOK, flashVars, CredInv, GoneInv, SlotsOf, SaveFails,
    Returns, Tears
<1>7. WipeInv'
  BY DEF SaveSteps, CredInv, PlaceInv, SaverWorks, WiperWorks, Wiping, WipeInv, SaveFails,
    Returns
<1> QED BY <1>1, <1>2, <1>3, <1>4, <1>5, <1>6, <1>7 DEF CredInv

\* So does one of the last two writes, but the lock stays with the saver.
LEMMA SaveFailsLockedKeeps ==
    ASSUME CredTypeOK, CredInv, SaveFailsLocked
    PROVE  CredTypeOK' /\ CredInv'
<1>1. CredTypeOK'
  BY CredAssumption DEF Saver, Nobody, NoPass, CredTypeOK, GoTo, flashVars, CredInv,
    PlaceInv, SaverWorks, SaveFailsLocked, Tears
<1>2. PlaceInv'
  BY CredAssumption DEF Saver, Nobody, SaveSteps, CredTypeOK, GoTo, CredInv, PlaceInv,
    SaverWorks, WiperWorks, Forgetting, FailInv, SaveFailsLocked
<1>3. KeepInv'
  <2>1. Kept'
    BY DEF CredInv, flashVars, KeepInv, Kept, Keeps, SaveFailsLocked
  <2>2. Sparing'
    BY DEF Saver, Nobody, CredTypeOK, GoTo, CredInv, PlaceInv, Sparing, SaveFailsLocked
  <2>3. SaveFacts'
    BY DEF Saver, Nobody, SaveSteps, CredTypeOK, GoTo, CredInv, PlaceInv, SaverWorks,
      SaveFacts, SaveFailsLocked
  <2>4. EraseFacts'
    BY DEF GoTo, CredInv, PlaceInv, SaverWorks, WiperWorks, Forgetting, Wiping, EraseFacts,
      SaveFailsLocked
  <2> QED BY <2>1, <2>2, <2>3, <2>4 DEF KeepInv
<1>4. OrderInv'
  <2>1. ASSUME torn' = {}, failed' = {} PROVE Paired'
    BY <2>1 DEF flashVars, CredInv, PlaceInv, SaverWorks, WiperWorks, FailInv, OrderInv,
      Loose, Paired, SaveFailsLocked, Tears
  <2>2. ASSUME torn' = {}, failed' = {} PROVE Distinct'
    BY <2>2 DEF flashVars, CredInv, PlaceInv, SaverWorks, FailInv, OrderInv, Twice,
      Distinct, SaveFailsLocked, Tears
  <2>3. ASSUME torn' = {}, failed' = {} PROVE Forgotten'
    BY <2>3 DEF SaveFailsLocked, Tears
  <2>4. ASSUME torn' = {} PROVE Fresh'
    BY <2>4 DEF SaveFailsLocked, Tears
  <2>5. ASSUME torn' = {} PROVE Full'
    BY <2>5 DEF SaveFailsLocked, Tears
  <2> QED BY <2>1, <2>2, <2>3, <2>4, <2>5 DEF OrderInv
<1>5. FailInv'
  BY DEF CredInv, PlaceInv, SaverWorks, FailInv, SaveFailsLocked
<1>6. GoneInv'
  BY DEF GoneInv, SaveFailsLocked, Tears
<1>7. WipeInv'
  BY DEF GoTo, CredInv, PlaceInv, SaverWorks, WiperWorks, Wiping, WipeInv, SaveFailsLocked
<1> QED BY <1>1, <1>2, <1>3, <1>4, <1>5, <1>6, <1>7 DEF CredInv

\* A full deletion gives all networks up before it erases the first key.
LEMMA StartWipeKeeps ==
    ASSUME CredTypeOK, CredInv, StartWipe
    PROVE  CredTypeOK' /\ CredInv'
<1>1. CredTypeOK'
  BY DEF Keepers, WipeSteps, CredTypeOK, GoTo, flashVars, StartWipe
<1>2. PlaceInv'
  BY CredAssumption DEF Keepers, Saver, Wiper, Nobody, WipeSteps, CredTypeOK, GoTo, CredInv,
    PlaceInv, SaverWorks, WiperWorks, Forgetting, StartWipe, MayLock
<1>3. KeepInv'
  <2>1. Kept'
    BY DEF CredInv, flashVars, KeepInv, Kept, Keeps, StartWipe
  <2>2. Sparing'
    BY DEF Saver, Nobody, GoTo, CredInv, PlaceInv, SaverWorks, Sparing, StartWipe, MayLock
  <2>3. SaveFacts'
    BY WantNet DEF SaveSteps, GoTo, flashVars, CredInv, KeepInv, SaveFacts, Stored,
      StartWipe
  <2>4. EraseFacts'
    BY DEF Keepers, CredTypeOK, GoTo, CredInv, PlaceInv, SaverWorks, WiperWorks, Forgetting,
      Wiping, EraseFacts, StartWipe
  <2> QED BY <2>1, <2>2, <2>3, <2>4 DEF KeepInv
<1>4. OrderInv'
  <2>1. ASSUME torn' = {}, failed' = {} PROVE Paired'
    BY <2>1 DEF GoTo, flashVars, CredInv, OrderInv, Loose, Paired, StartWipe, MayLock
  <2>2. ASSUME torn' = {}, failed' = {} PROVE Distinct'
    BY <2>2 DEF WipeSteps, GoTo, flashVars, CredInv, PlaceInv, OrderInv, Twice, Distinct,
      StartWipe
  <2>3. ASSUME torn' = {}, failed' = {} PROVE Forgotten'
    BY DEF Keepers, CredTypeOK, GoTo, CredInv, PlaceInv, SaverWorks, WiperWorks, Forgetting,
      Forgotten, StartWipe
  <2>4. ASSUME torn' = {} PROVE Fresh'
    BY <2>4 DEF GoTo, flashVars, CredInv, OrderInv, Fresh, StartWipe
  <2>5. ASSUME torn' = {} PROVE Full'
    BY <2>5 DEF GoTo, flashVars, CredInv, OrderInv, Full, StartWipe
  <2> QED BY <2>1, <2>2, <2>3, <2>4, <2>5 DEF OrderInv
<1>5. FailInv'
  BY DEF WipeSteps, GoTo, CredInv, PlaceInv, SaverWorks, WiperWorks, FailInv, StartWipe
<1>6. GoneInv'
  BY CredAssumption DEF WipeSteps, NoPass, CredTypeOK, flashVars, CredInv, PlaceInv,
    WiperWorks, GoneInv, SlotsOf, StartWipe, MayLock
<1>7. WipeInv'
  BY DEF Slots, Saver, Nobody, SaveSteps, WipeSteps, GoTo, CredInv, PlaceInv, SaverWorks,
    WiperWorks, WipeInv, StartWipe, MayLock
<1> QED BY <1>1, <1>2, <1>3, <1>4, <1>5, <1>6, <1>7 DEF CredInv

\* The slots below are bare as long as no erasure failed.
LEMMA WipeSsidKeeps ==
    ASSUME CredTypeOK, CredInv, WipeSsid
    PROVE  CredTypeOK' /\ CredInv'
<1>1. CredTypeOK'
  BY CredAssumption DEF Slots, Keepers, WipeSteps, CredTypeOK, GoTo, Write, CredInv,
    PlaceInv, WiperWorks, Forgetting, WipeSsid
<1>2. PlaceInv'
  BY DEF SaveSteps, WipeSteps, GoTo, CredInv, PlaceInv, SaverWorks, WiperWorks, Forgetting,
    WipeSsid
<1>3. KeepInv'
  <2>1. Kept'
    BY DEF CredInv, KeepInv, Kept, EraseFacts, Wiping, WipeSsid
  <2>2. Sparing'
    BY DEF GoTo, CredInv, PlaceInv, SaverWorks, WiperWorks, Sparing, WipeSsid
  <2>3. SaveFacts'
    BY DEF GoTo, CredInv, PlaceInv, SaverWorks, WiperWorks, KeepInv, SaveFacts, WipeSsid
  <2>4. EraseFacts'
    BY DEF GoTo, Write, CredInv, Forgetting, KeepInv, Wiping, EraseFacts, WipeSsid
  <2> QED BY <2>1, <2>2, <2>3, <2>4 DEF KeepInv
<1>4. OrderInv'
  <2>1. ASSUME torn' = {}, failed' = {} PROVE Paired'
    BY <2>1 DEF Keepers, CredTypeOK, GoTo, Write, CredInv, OrderInv, Loose, Paired, WipeSsid
  <2>2. ASSUME torn' = {}, failed' = {} PROVE Distinct'
    BY <2>2 DEF CredTypeOK, GoTo, Write, CredInv, OrderInv, Twice, Distinct, WipeSsid
  <2>3. ASSUME torn' = {}, failed' = {} PROVE Forgotten'
    BY DEF GoTo, CredInv, PlaceInv, SaverWorks, WiperWorks, Forgetting, Forgotten, WipeSsid
  <2>4. ASSUME torn' = {} PROVE Fresh'
    BY DEF GoTo, CredInv, PlaceInv, SaverWorks, WiperWorks, Fresh, WipeSsid
  <2>5. ASSUME torn' = {} PROVE Full'
    BY DEF GoTo, CredInv, PlaceInv, SaverWorks, WiperWorks, Full, WipeSsid
  <2> QED BY <2>1, <2>2, <2>3, <2>4, <2>5 DEF OrderInv
<1>5. FailInv'
  BY DEF SaveSteps, GoTo, CredInv, PlaceInv, SaverWorks, WiperWorks, FailInv, WipeSsid
<1>6. GoneInv'
  BY CredAssumption DEF CredTypeOK, GoTo, Write, CredInv, PlaceInv, SaverWorks, GoneInv,
    SlotsOf, WipeSsid
<1>7. WipeInv'
  <2>1. /\ place[Wiper] = "wipe_ssid" /\ wiped' = wiped /\ wiped = {} /\ slot \in Slots
        /\ slot' \in Int /\ place'[Wiper] \in Wiping
    BY WantNet DEF CredInv, PlaceInv, WiperWorks, CredTypeOK, Slots, GoTo, WipeSsid,
      WipeInv, Wiping
  <2>2. ASSUME failed' = {} PROVE failed = {} /\ Write(ssid, slot, None)
    BY <2>2 DEF WipeSsid
  <2>3. ASSUME failed' = {} PROVE \A i \in Slots : i < slot' => Bare(i)'
    BY <2>3 DEF CredInv, WipeInv, Bare, CredTypeOK, Write, Wiping, WipeSsid
  <2>4. ASSUME failed' = {}, place'[Wiper] = "wipe_pass" PROVE ssid'[slot'] = None
    BY <2>1, <2>4 DEF CredTypeOK, Write, WipeSsid
  <2>5. ASSUME failed' = {}, place'[Wiper] = "wipe_commit" PROVE slot' = NumSlots - 1 /\ Bare(slot)'
    BY <2>5 DEF GoTo, WipeSsid
  <2> QED BY <2>1, <2>3, <2>4, <2>5 DEF WipeInv
<1> QED BY <1>1, <1>2, <1>3, <1>4, <1>5, <1>6, <1>7 DEF CredInv

\* Both keys of a slot are erased before the next slot's turn.
LEMMA WipePassKeeps ==
    ASSUME CredTypeOK, CredInv, WipePass
    PROVE  CredTypeOK' /\ CredInv'
<1>1. CredTypeOK'
  <2>1. ssid' \in [Slots -> Nets \union {None}] /\ pass' \in [Slots -> Password \union {NoPass}]
    BY WantNet DEF CredInv, CredTypeOK, Slots, Write, WipePass
  <2>2. holder' \in Keepers \union {Nobody} /\ leaked' \subseteq {"leaked"} /\ failed' \subseteq {"failed"}
    BY DEF CredTypeOK, Keepers, Saver, Wiper, Nobody, WipePass
  <2>3. place' \in [Keepers -> {"idle"} \union SaveSteps \union WipeSteps]
    BY DEF CredTypeOK, WipeSteps, GoTo, WipePass
  <2>4. slot' \in 0..NumSlots
    BY CredAssumption DEF CredTypeOK, WipePass
  <2>5. want' \in Password \union [net : Nets \union {None}, ver : {0}]
    BY DEF CredTypeOK, NoPass, None, WipePass
  <2>6. good' \in [Nets -> SUBSET Nat]
    BY DEF CredTypeOK, WipePass
  <2>7. torn' \subseteq {"torn"} /\ wiped' \subseteq {"wiped"} /\ gone' \subseteq Nets
    BY DEF CredTypeOK, WipePass
  <2> QED BY <2>1, <2>2, <2>3, <2>4, <2>5, <2>6, <2>7 DEF CredTypeOK
<1>2. PlaceInv'
  BY DEF Keepers, SaveSteps, WipeSteps, CredTypeOK, GoTo, CredInv, PlaceInv, SaverWorks,
    WiperWorks, Forgetting, WipePass
<1>3. KeepInv'
  <2>1. Kept'
    BY DEF CredInv, KeepInv, Kept, EraseFacts, Wiping, WipePass
  <2>2. Sparing'
    BY DEF Keepers, CredTypeOK, GoTo, CredInv, PlaceInv, SaverWorks, WiperWorks, Sparing,
      WipePass
  <2>3. SaveFacts'
    BY DEF Keepers, CredTypeOK, GoTo, CredInv, PlaceInv, SaverWorks, WiperWorks, KeepInv,
      SaveFacts, WipePass
  <2>4. EraseFacts'
    BY DEF CredTypeOK, GoTo, CredInv, Forgetting, KeepInv, Wiping, EraseFacts, WipePass
  <2> QED BY <2>1, <2>2, <2>3, <2>4 DEF KeepInv
<1>4. OrderInv'
  <2>1. ASSUME torn' = {}, failed' = {} PROVE Paired'
    <3>1. /\ torn = {} /\ failed = {} /\ ssid' = ssid /\ pass' = [pass EXCEPT ![slot] = NoPass]
          /\ slot \in Slots /\ ssid[slot] = None
      BY <2>1, WantNet DEF CredInv, PlaceInv, WiperWorks, Write, CredTypeOK, Slots,
        WipePass, WipeInv, Wiping
    <3>2. \A i \in Slots : i # slot => pass[i].net = ssid[i]
      BY <3>1 DEF CredInv, PlaceInv, SaverWorks, WiperWorks, WipePass, OrderInv, Paired,
        Loose
    <3> QED BY <3>1, <3>2 DEF Paired, NoPass, CredTypeOK
  <2>2. ASSUME torn' = {}, failed' = {} PROVE Distinct'
    BY <2>2 DEF CredInv, PlaceInv, SaverWorks, WiperWorks, OrderInv, Twice, Distinct,
      WipePass
  <2>3. ASSUME torn' = {}, failed' = {} PROVE Forgotten'
    BY DEF Keepers, CredTypeOK, GoTo, CredInv, PlaceInv, SaverWorks, WiperWorks, Forgetting,
      Forgotten, WipePass
  <2>4. ASSUME torn' = {} PROVE Fresh'
    BY <2>4 DEF Keepers, CredTypeOK, GoTo, CredInv, OrderInv, Fresh, WipePass
  <2>5. ASSUME torn' = {} PROVE Full'
    BY <2>5 DEF Slots, Keepers, CredTypeOK, GoTo, CredInv, OrderInv, Full, WipePass
  <2> QED BY <2>1, <2>2, <2>3, <2>4, <2>5 DEF OrderInv
<1>5. FailInv'
  BY DEF Keepers, SaveSteps, CredTypeOK, GoTo, CredInv, PlaceInv, SaverWorks, WiperWorks,
    FailInv, WipePass
<1>6. GoneInv'
  BY DEF Keepers, CredTypeOK, GoTo, CredInv, PlaceInv, SaverWorks, GoneInv, SlotsOf,
    WipePass
<1>7. WipeInv'
  <2>1. /\ place[Wiper] = "wipe_pass" /\ wiped' = wiped /\ wiped = {} /\ slot \in Slots
        /\ slot' \in Int /\ place'[Wiper] \in Wiping
    BY WantNet DEF CredInv, PlaceInv, WiperWorks, CredTypeOK, Slots, GoTo, WipePass,
      WipeInv, Wiping
  <2>2. ASSUME failed' = {} PROVE failed = {} /\ Write(pass, slot, NoPass)
    BY <2>2 DEF WipePass
  <2>3. ASSUME failed' = {} PROVE \A i \in Slots : i < slot' => Bare(i)'
    BY <2>1, <2>3 DEF CredInv, WipeInv, Bare, CredTypeOK, Write, Wiping, WipePass
  <2>4. ASSUME failed' = {}, place'[Wiper] = "wipe_pass" PROVE ssid'[slot'] = None
    BY <2>4 DEF CredTypeOK, GoTo, Keepers, WipePass
  <2>5. ASSUME failed' = {}, place'[Wiper] = "wipe_commit" PROVE slot' = NumSlots - 1 /\ Bare(slot)'
    BY <2>1, <2>2, <2>5, WantNet DEF CredInv, WipeInv, Bare, CredTypeOK, Write, GoTo, Slots,
      Wiping, WipePass
  <2> QED BY <2>1, <2>3, <2>4, <2>5 DEF WipeInv
<1> QED BY <1>1, <1>2, <1>3, <1>4, <1>5, <1>6, <1>7 DEF CredInv

\* Success is reported only when no erasure failed: then every slot is bare.
LEMMA CommitWipeKeeps ==
    ASSUME CredTypeOK, CredInv, CommitWipe
    PROVE  CredTypeOK' /\ CredInv'
<1>1. CredTypeOK'
  <2>1. ssid' \in [Slots -> Nets \union {None}] /\ pass' \in [Slots -> Password \union {NoPass}]
    BY DEF CredTypeOK, flashVars, CommitWipe
  <2>2. holder' \in Keepers \union {Nobody} /\ leaked' \subseteq {"leaked"} /\ failed' \subseteq {"failed"}
    BY DEF CredTypeOK, CommitWipe, Returns
  <2>3. place' \in [Keepers -> {"idle"} \union SaveSteps \union WipeSteps]
    BY DEF CredTypeOK, Keepers, CommitWipe, Returns
  <2>4. slot' \in 0..NumSlots
    BY CredAssumption DEF CommitWipe, Returns
  <2>5. want' \in Password \union [net : Nets \union {None}, ver : {0}]
    BY DEF NoPass, CommitWipe, Returns
  <2>6. good' \in [Nets -> SUBSET Nat]
    BY DEF CredTypeOK, CommitWipe
  <2>7. torn' \subseteq {"torn"} /\ wiped' \subseteq {"wiped"} /\ gone' \subseteq Nets
    BY WantNet DEF CredInv, CredTypeOK, SaveSteps, WipeSteps, Forgetting, CommitWipe,
      Returns, Tears
  <2> QED BY <2>1, <2>2, <2>3, <2>4, <2>5, <2>6, <2>7 DEF CredTypeOK
<1>2. PlaceInv'
  BY CredAssumption DEF SaveSteps, WipeSteps, CredTypeOK, CredInv, PlaceInv, SaverWorks,
    WiperWorks, Forgetting, CommitWipe, Returns
<1>3. KeepInv'
  <2>1. Kept'
    BY DEF CredInv, flashVars, KeepInv, Kept, Keeps, CommitWipe
  <2>2. Sparing'
    BY DEF CredInv, PlaceInv, SaverWorks, WiperWorks, Sparing, CommitWipe, Returns
  <2>3. SaveFacts'
    BY DEF SaveSteps, CredInv, PlaceInv, SaverWorks, WiperWorks, SaveFacts, CommitWipe,
      Returns
  <2>4. EraseFacts'
    BY DEF CredInv, Forgetting, KeepInv, Wiping, EraseFacts, CommitWipe, Returns
  <2> QED BY <2>1, <2>2, <2>3, <2>4 DEF KeepInv
<1>4. OrderInv'
  <2>1. ASSUME torn' = {}, failed' = {} PROVE Paired'
    BY <2>1 DEF flashVars, CredInv, PlaceInv, SaverWorks, WiperWorks, FailInv, OrderInv,
      Loose, Paired, CommitWipe, Tears
  <2>2. ASSUME torn' = {}, failed' = {} PROVE Distinct'
    BY <2>2 DEF flashVars, CredInv, PlaceInv, SaverWorks, WiperWorks, OrderInv, Twice,
      Distinct, CommitWipe, Tears
  <2>3. ASSUME torn' = {}, failed' = {} PROVE Forgotten'
    BY DEF CredInv, PlaceInv, SaverWorks, WiperWorks, Forgetting, Forgotten, CommitWipe,
      Returns
  <2>4. ASSUME torn' = {} PROVE Fresh'
    BY DEF CredInv, PlaceInv, SaverWorks, WiperWorks, Fresh, CommitWipe, Returns
  <2>5. ASSUME torn' = {} PROVE Full'
    BY DEF CredInv, PlaceInv, SaverWorks, WiperWorks, Full, CommitWipe, Returns
  <2> QED BY <2>1, <2>2, <2>3, <2>4, <2>5 DEF OrderInv
<1>5. FailInv'
  BY DEF FailInv, CommitWipe, Returns
<1>6. GoneInv'
  <2>1. gone' = {} \/ (failed = {} /\ gone' = Nets)
    <3>1. (failed = {} /\ gone' = (IF torn = {} THEN Nets ELSE {})) \/ gone' = {}
      BY Zenon DEF CommitWipe, Tears
    <3> QED BY <3>1
  <2>2. failed = {} => \A i \in Slots : ssid[i] = None
    BY WantNet DEF CredInv, WipeInv, Wiping, Bare, CommitWipe, Slots
  <2>3. \A n \in gone' : \A i \in Slots : ssid'[i] # n
    BY <2>1, <2>2, CredAssumption DEF CommitWipe, flashVars
  <2>4. torn' # {} => gone' = {}
    BY DEF CredInv, GoneInv, CommitWipe, Tears
  <2>5. ~SaverWorks'
    BY DEF SaveSteps, CredInv, PlaceInv, SaverWorks, WiperWorks, CommitWipe, Returns
  <2> QED BY <2>3, <2>4, <2>5 DEF GoneInv, SlotsOf
<1>7. WipeInv'
  BY DEF Slots, Wiper, Nobody, SaveSteps, CredTypeOK, flashVars, CredInv, PlaceInv,
    SaverWorks, WiperWorks, Wiping, WipeInv, Bare, CommitWipe, Returns
<1> QED BY <1>1, <1>2, <1>3, <1>4, <1>5, <1>6, <1>7 DEF CredInv

\* A single network is given up before its first slot is erased.
LEMMA StartForgetKeeps ==
    ASSUME CredTypeOK, CredInv, NEW n \in Nets, NEW i \in Slots, StartForget(n, i)
    PROVE  CredTypeOK' /\ CredInv'
<1>1. CredTypeOK'
  BY CredAssumption DEF Slots, Keepers, WipeSteps, CredTypeOK, GoTo, flashVars, StartForget
<1>2. PlaceInv'
  BY CredAssumption DEF Slots, Keepers, Saver, Wiper, Nobody, WipeSteps, CredTypeOK, GoTo,
    CredInv, PlaceInv, SaverWorks, WiperWorks, StartForget, MayLock
<1>3. KeepInv'
  <2>1. Kept'
    BY DEF CredInv, flashVars, KeepInv, Kept, Keeps, StartForget
  <2>2. Sparing'
    BY DEF Saver, Nobody, GoTo, CredInv, PlaceInv, SaverWorks, Sparing, StartForget, MayLock
  <2>3. SaveFacts'
    BY DEF Saver, Nobody, CredTypeOK, GoTo, CredInv, PlaceInv, SaverWorks, SaveFacts,
      StartForget, MayLock
  <2>4. EraseFacts'
    BY DEF CredTypeOK, GoTo, flashVars, Wiping, EraseFacts, StartForget, MayLock, IsFirst,
      SlotsOf
  <2> QED BY <2>1, <2>2, <2>3, <2>4 DEF KeepInv
<1>4. OrderInv'
  <2>1. ASSUME torn' = {}, failed' = {} PROVE Paired'
    BY <2>1 DEF Saver, Nobody, flashVars, CredInv, PlaceInv, SaverWorks, OrderInv, Loose,
      Paired, StartForget, MayLock
  <2>2. ASSUME torn' = {}, failed' = {} PROVE Distinct'
    BY <2>2 DEF Saver, Nobody, flashVars, CredInv, PlaceInv, SaverWorks, OrderInv, Twice,
      Distinct, StartForget, MayLock
  <2>3. ASSUME torn' = {}, failed' = {} PROVE Forgotten'
    BY <2>3, CredAssumption DEF Saver, Nobody, GoTo, flashVars, CredInv, PlaceInv,
      SaverWorks, Forgetting, OrderInv, Twice, Forgotten, Distinct, StartForget,
      MayLock, IsFirst, SlotsOf
  <2>4. ASSUME torn' = {} PROVE Fresh'
    BY DEF Saver, Nobody, GoTo, CredInv, PlaceInv, SaverWorks, Fresh, StartForget, MayLock
  <2>5. ASSUME torn' = {} PROVE Full'
    BY DEF Saver, Nobody, GoTo, CredInv, PlaceInv, SaverWorks, Full, StartForget, MayLock
  <2> QED BY <2>1, <2>2, <2>3, <2>4, <2>5 DEF OrderInv
<1>5. FailInv'
  BY DEF WipeSteps, GoTo, CredInv, PlaceInv, SaverWorks, WiperWorks, FailInv, StartForget
<1>6. GoneInv'
  BY DEF flashVars, CredInv, GoneInv, SlotsOf, StartForget, IsFirst
<1>7. WipeInv'
  BY DEF Wiper, Nobody, SaveSteps, CredTypeOK, GoTo, flashVars, CredInv, PlaceInv,
    SaverWorks, WiperWorks, Wiping, WipeInv, Bare, StartForget
<1> QED BY <1>1, <1>2, <1>3, <1>4, <1>5, <1>6, <1>7 DEF CredInv

\* When names are in order no other slot holds that one.
LEMMA ForgetSsidKeeps ==
    ASSUME CredTypeOK, CredInv, ForgetSsid
    PROVE  CredTypeOK' /\ CredInv'
<1>1. CredTypeOK'
  BY CredAssumption DEF Slots, Keepers, WipeSteps, CredTypeOK, GoTo, Write, CredInv,
    PlaceInv, WiperWorks, Forgetting, ForgetSsid
<1>2. PlaceInv'
  BY DEF SaveSteps, WipeSteps, GoTo, CredInv, PlaceInv, SaverWorks, WiperWorks, Forgetting,
    ForgetSsid
<1>3. KeepInv'
  <2>1. Kept'
    <3> DEFINE j == slot
    <3>1. j \in Slots
      BY WantNet DEF CredInv, PlaceInv, WiperWorks, CredTypeOK, Slots, ForgetSsid
    <3>2. \A i \in Slots \ {j} : ssid'[i] = ssid[i] /\ pass'[i] = pass[i]
      BY DEF Write, CredTypeOK, ForgetSsid
    <3>3. \A n \in Nets : good'[n] # {} => good[n] \subseteq good'[n]
      BY DEF ForgetSsid
    <3>4. \A n \in Nets : good'[n] # {} => \E i \in Slots \ {j} : Keeps(n, i)
      BY DEF CredInv, KeepInv, EraseFacts, Keeps, Forgetting, ForgetSsid, Kept
    <3> HIDE DEF j
    <3> QED BY <3>1, <3>2, <3>3, <3>4, KeptElsewhere
  <2>2. Sparing'
    BY DEF GoTo, CredInv, PlaceInv, SaverWorks, WiperWorks, Sparing, ForgetSsid
  <2>3. SaveFacts'
    BY DEF GoTo, CredInv, PlaceInv, SaverWorks, WiperWorks, KeepInv, SaveFacts, ForgetSsid
  <2>4. EraseFacts'
    BY DEF Wiper, Nobody, CredTypeOK, GoTo, Write, CredInv, PlaceInv, WiperWorks,
      Forgetting, KeepInv, Wiping, EraseFacts, ForgetSsid
  <2> QED BY <2>1, <2>2, <2>3, <2>4 DEF KeepInv
<1>4. OrderInv'
  <2>1. ASSUME torn' = {}, failed' = {} PROVE Paired'
    BY <2>1 DEF Keepers, CredTypeOK, GoTo, Write, CredInv, OrderInv, Loose, Paired,
      ForgetSsid
  <2>2. ASSUME torn' = {}, failed' = {} PROVE Distinct'
    BY <2>2 DEF CredTypeOK, GoTo, Write, CredInv, OrderInv, Twice, Distinct, ForgetSsid
  <2>3. ASSUME torn' = {}, failed' = {} PROVE Forgotten'
    BY <2>3, CredAssumption DEF Slots, CredTypeOK, Write, CredInv, PlaceInv, WiperWorks,
      Forgetting, OrderInv, Forgotten, ForgetSsid
  <2>4. ASSUME torn' = {} PROVE Fresh'
    BY DEF GoTo, CredInv, PlaceInv, SaverWorks, WiperWorks, Fresh, ForgetSsid
  <2>5. ASSUME torn' = {} PROVE Full'
    BY DEF GoTo, CredInv, PlaceInv, SaverWorks, WiperWorks, Full, ForgetSsid
  <2> QED BY <2>1, <2>2, <2>3, <2>4, <2>5 DEF OrderInv
<1>5. FailInv'
  BY DEF SaveSteps, GoTo, CredInv, PlaceInv, SaverWorks, WiperWorks, FailInv, ForgetSsid
<1>6. GoneInv'
  BY CredAssumption DEF CredTypeOK, GoTo, Write, CredInv, PlaceInv, SaverWorks, GoneInv,
    SlotsOf, ForgetSsid
<1>7. WipeInv'
  BY DEF CredTypeOK, GoTo, Write, CredInv, PlaceInv, SaverWorks, Wiping, WipeInv, Bare,
    ForgetSsid
<1> QED BY <1>1, <1>2, <1>3, <1>4, <1>5, <1>6, <1>7 DEF CredInv

\* The password is erased whatever became of the name.
LEMMA ForgetPassKeeps ==
    ASSUME CredTypeOK, CredInv, ForgetPass
    PROVE  CredTypeOK' /\ CredInv'
<1>1. CredTypeOK'
  BY CredAssumption DEF Slots, Keepers, WipeSteps, CredTypeOK, GoTo, Write, CredInv,
    PlaceInv, WiperWorks, Forgetting, ForgetPass
<1>2. PlaceInv'
  BY DEF SaveSteps, WipeSteps, GoTo, CredInv, PlaceInv, SaverWorks, WiperWorks, Forgetting,
    ForgetPass
<1>3. KeepInv'
  <2>1. Kept'
    <3> DEFINE j == slot
    <3>1. j \in Slots
      BY WantNet DEF CredInv, PlaceInv, WiperWorks, CredTypeOK, Slots, ForgetPass
    <3>2. \A i \in Slots \ {j} : ssid'[i] = ssid[i] /\ pass'[i] = pass[i]
      BY DEF Write, CredTypeOK, ForgetPass
    <3>3. \A n \in Nets : good'[n] # {} => good[n] \subseteq good'[n]
      BY DEF ForgetPass
    <3>4. \A n \in Nets : good'[n] # {} => \E i \in Slots \ {j} : Keeps(n, i)
      BY CredAssumption DEF CredInv, KeepInv, EraseFacts, Keeps, Forgetting, ForgetPass,
        Kept
    <3> HIDE DEF j
    <3> QED BY <3>1, <3>2, <3>3, <3>4, KeptElsewhere
  <2>2. Sparing'
    BY DEF GoTo, CredInv, PlaceInv, SaverWorks, WiperWorks, Sparing, ForgetPass
  <2>3. SaveFacts'
    BY DEF GoTo, CredInv, PlaceInv, SaverWorks, WiperWorks, KeepInv, SaveFacts, ForgetPass
  <2>4. EraseFacts'
    BY DEF GoTo, Write, CredInv, Forgetting, KeepInv, Wiping, EraseFacts, ForgetPass
  <2> QED BY <2>1, <2>2, <2>3, <2>4 DEF KeepInv
<1>4. OrderInv'
  <2>1. ASSUME torn' = {}, failed' = {} PROVE Paired'
    <3>1. /\ torn = {} /\ failed = {} /\ ssid' = ssid /\ pass' = [pass EXCEPT ![slot] = NoPass]
          /\ slot \in Slots /\ ssid[slot] = None
      BY <2>1, WantNet DEF CredInv, PlaceInv, WiperWorks, Write, CredTypeOK, Slots,
        ForgetPass, OrderInv, Forgotten
    <3>2. \A i \in Slots : i # slot => pass[i].net = ssid[i]
      BY <3>1 DEF CredInv, PlaceInv, SaverWorks, WiperWorks, ForgetPass, OrderInv,
        Paired, Loose
    <3> QED BY <3>1, <3>2 DEF Paired, NoPass, CredTypeOK
  <2>2. ASSUME torn' = {}, failed' = {} PROVE Distinct'
    BY <2>2 DEF CredTypeOK, GoTo, Write, CredInv, OrderInv, Twice, Distinct, ForgetPass
  <2>3. ASSUME torn' = {}, failed' = {} PROVE Forgotten'
    BY <2>3, CredAssumption DEF Slots, CredTypeOK, Write, CredInv, PlaceInv, WiperWorks,
      Forgetting, OrderInv, Forgotten, ForgetPass
  <2>4. ASSUME torn' = {} PROVE Fresh'
    BY <2>4 DEF GoTo, flashVars, CredInv, OrderInv, Fresh, ForgetPass
  <2>5. ASSUME torn' = {} PROVE Full'
    BY <2>5 DEF GoTo, flashVars, CredInv, OrderInv, Full, ForgetPass
  <2> QED BY <2>1, <2>2, <2>3, <2>4, <2>5 DEF OrderInv
<1>5. FailInv'
  BY DEF SaveSteps, GoTo, CredInv, PlaceInv, SaverWorks, WiperWorks, FailInv, ForgetPass
<1>6. GoneInv'
  BY DEF Keepers, CredTypeOK, GoTo, CredInv, PlaceInv, SaverWorks, GoneInv, SlotsOf,
    ForgetPass
<1>7. WipeInv'
  BY DEF CredTypeOK, GoTo, Write, CredInv, PlaceInv, SaverWorks, Wiping, WipeInv, Bare,
    ForgetPass
<1> QED BY <1>1, <1>2, <1>3, <1>4, <1>5, <1>6, <1>7 DEF CredInv

\* Success is reported only when neither erasure failed: then no slot holds the name.
LEMMA CommitForgetKeeps ==
    ASSUME CredTypeOK, CredInv, CommitForget
    PROVE  CredTypeOK' /\ CredInv'
<1>1. CredTypeOK'
  <2>1. ssid' \in [Slots -> Nets \union {None}] /\ pass' \in [Slots -> Password \union {NoPass}]
    BY DEF CredTypeOK, flashVars, CommitForget
  <2>2. holder' \in Keepers \union {Nobody} /\ leaked' \subseteq {"leaked"} /\ failed' \subseteq {"failed"}
    BY DEF CredTypeOK, CommitForget, Returns
  <2>3. place' \in [Keepers -> {"idle"} \union SaveSteps \union WipeSteps]
    BY DEF CredTypeOK, Keepers, CommitForget, Returns
  <2>4. slot' \in 0..NumSlots
    BY CredAssumption DEF CommitForget, Returns
  <2>5. want' \in Password \union [net : Nets \union {None}, ver : {0}]
    BY DEF NoPass, CommitForget, Returns
  <2>6. good' \in [Nets -> SUBSET Nat]
    BY DEF CredTypeOK, CommitForget
  <2>7. torn' \subseteq {"torn"} /\ wiped' \subseteq {"wiped"} /\ gone' \subseteq Nets
    BY WantNet DEF CredInv, CredTypeOK, SaveSteps, WipeSteps, Forgetting, CommitForget,
      Returns, Tears
  <2> QED BY <2>1, <2>2, <2>3, <2>4, <2>5, <2>6, <2>7 DEF CredTypeOK
<1>2. PlaceInv'
  BY DEF Wiper, Nobody, SaveSteps, WipeSteps, CredTypeOK, CredInv, PlaceInv, SaverWorks,
    WiperWorks, Forgetting, CommitForget, Returns
<1>3. KeepInv'
  <2>1. Kept'
    BY DEF CredInv, flashVars, KeepInv, Kept, Keeps, CommitForget
  <2>2. Sparing'
    BY DEF CredInv, PlaceInv, SaverWorks, WiperWorks, Sparing, CommitForget, Returns
  <2>3. SaveFacts'
    BY DEF SaveSteps, CredInv, PlaceInv, SaverWorks, WiperWorks, SaveFacts, CommitForget,
      Returns
  <2>4. EraseFacts'
    BY DEF Wiper, Nobody, CredTypeOK, CredInv, PlaceInv, WiperWorks, Forgetting, Wiping,
      EraseFacts, CommitForget, Returns
  <2> QED BY <2>1, <2>2, <2>3, <2>4 DEF KeepInv
<1>4. OrderInv'
  <2>1. ASSUME torn' = {}, failed' = {} PROVE Paired'
    BY <2>1 DEF flashVars, CredInv, PlaceInv, SaverWorks, WiperWorks, FailInv, OrderInv,
      Loose, Paired, CommitForget, Tears
  <2>2. ASSUME torn' = {}, failed' = {} PROVE Distinct'
    BY <2>2 DEF flashVars, CredInv, PlaceInv, SaverWorks, WiperWorks, OrderInv, Twice,
      Distinct, CommitForget, Tears
  <2>3. ASSUME torn' = {}, failed' = {} PROVE Forgotten'
    BY DEF Wiper, Nobody, CredTypeOK, CredInv, PlaceInv, WiperWorks, Forgetting, Forgotten,
      CommitForget, Returns
  <2>4. ASSUME torn' = {} PROVE Fresh'
    BY DEF CredInv, PlaceInv, SaverWorks, WiperWorks, Fresh, CommitForget, Returns
  <2>5. ASSUME torn' = {} PROVE Full'
    BY DEF CredInv, PlaceInv, SaverWorks, WiperWorks, Full, CommitForget, Returns
  <2> QED BY <2>1, <2>2, <2>3, <2>4, <2>5 DEF OrderInv
<1>5. FailInv'
  BY DEF FailInv, CommitForget, Returns
<1>6. GoneInv'
  <2>1. gone' \subseteq gone \union {want.net} /\ (torn' # {} => gone' = {})
    BY DEF CredInv, GoneInv, CommitForget, Returns, Tears
  <2>2. want.net \in gone' /\ want.net \notin gone => torn = {} /\ failed = {} /\ place[Wiper] = "forget_commit"
    BY DEF CommitForget, Tears, Returns
  <2>3. \A n \in gone' : SlotsOf(n)' = {}
    BY <2>1, <2>2 DEF CredInv, GoneInv, OrderInv, Forgotten, Forgetting, SlotsOf,
      CommitForget, flashVars
  <2>4. ~SaverWorks'
    BY DEF SaveSteps, CredInv, PlaceInv, SaverWorks, WiperWorks, CommitForget, Returns
  <2> QED BY <2>1, <2>3, <2>4 DEF GoneInv, SlotsOf
<1>7. WipeInv'
  BY DEF flashVars, CredInv, PlaceInv, SaverWorks, Wiping, WipeInv, Bare, CommitForget,
    Returns
<1> QED BY <1>1, <1>2, <1>3, <1>4, <1>5, <1>6, <1>7 DEF CredInv

\* A loss of power leaves flash as it is, torn if somebody was at work.
LEMMA ResetKeeps ==
    ASSUME CredTypeOK, CredInv, Reset
    PROVE  CredTypeOK' /\ CredInv'
<1>1. CredTypeOK'
  <2>1. ssid' \in [Slots -> Nets \union {None}] /\ pass' \in [Slots -> Password \union {NoPass}]
    BY DEF CredTypeOK, flashVars, Reset
  <2>2. holder' \in Keepers \union {Nobody} /\ leaked' \subseteq {"leaked"} /\ failed' \subseteq {"failed"}
    BY DEF CredTypeOK, Reset
  <2>3. place' \in [Keepers -> {"idle"} \union SaveSteps \union WipeSteps]
    BY DEF CredTypeOK, SaveSteps, GoTo, Reset
  <2>4. slot' \in 0..NumSlots
    BY CredAssumption DEF CredTypeOK, Reset
  <2>5. want' \in Password \union [net : Nets \union {None}, ver : {0}]
    BY DEF NoPass, Reset
  <2>6. good' \in [Nets -> SUBSET Nat]
    BY DEF CredTypeOK, Reset
  <2>7. torn' \subseteq {"torn"} /\ wiped' \subseteq {"wiped"} /\ gone' \subseteq Nets
    BY WantNet DEF CredInv, CredTypeOK, SaveSteps, WipeSteps, Forgetting, Reset, AtWork,
      Tears
  <2> QED BY <2>1, <2>2, <2>3, <2>4, <2>5, <2>6, <2>7 DEF CredTypeOK
<1>2. PlaceInv'
  BY DEF Keepers, SaveSteps, WipeSteps, CredTypeOK, GoTo, CredInv, PlaceInv, SaverWorks,
    WiperWorks, Forgetting, Reset
<1>3. KeepInv'
  <2>1. Kept'
    BY DEF CredInv, flashVars, KeepInv, Kept, Keeps, Reset
  <2>2. Sparing'
    BY DEF Keepers, CredTypeOK, GoTo, CredInv, PlaceInv, SaverWorks, WiperWorks,
      Sparing, Reset
  <2>3. SaveFacts'
    BY DEF Keepers, SaveSteps, SaveFacts, Reset
  <2>4. EraseFacts'
    BY DEF Keepers, CredTypeOK, GoTo, CredInv, PlaceInv, SaverWorks, WiperWorks, Forgetting,
      Wiping, EraseFacts, Reset
  <2> QED BY <2>1, <2>2, <2>3, <2>4 DEF KeepInv
<1>4. OrderInv'
  <2>1. ASSUME torn' = {}, failed' = {} PROVE Paired'
    BY <2>1 DEF Keepers, flashVars, CredInv, PlaceInv, WiperWorks, FailInv, OrderInv, Loose,
      Paired, Reset, AtWork, Tears
  <2>2. ASSUME torn' = {}, failed' = {} PROVE Distinct'
    BY <2>2 DEF Keepers, flashVars, CredInv, PlaceInv, WiperWorks, FailInv, OrderInv, Twice,
      Distinct, Reset, AtWork, Tears
  <2>3. ASSUME torn' = {}, failed' = {} PROVE Forgotten'
    BY DEF Keepers, CredTypeOK, GoTo, CredInv, PlaceInv, SaverWorks, WiperWorks, Forgetting,
      Forgotten, Reset
  <2>4. ASSUME torn' = {} PROVE Fresh'
    BY DEF Keepers, CredTypeOK, GoTo, Fresh, Reset
  <2>5. ASSUME torn' = {} PROVE Full'
    BY DEF Keepers, CredTypeOK, GoTo, Full, Reset
  <2> QED BY <2>1, <2>2, <2>3, <2>4, <2>5 DEF OrderInv
<1>5. FailInv'
  BY DEF CredInv, PlaceInv, SaverWorks, FailInv, Reset
<1>6. GoneInv'
  BY CredAssumption DEF NoPass, CredTypeOK, flashVars, CredInv, GoneInv, SlotsOf, Reset,
    Tears
<1>7. WipeInv'
  BY DEF Keepers, flashVars, CredInv, PlaceInv, SaverWorks, Wiping, WipeInv, Bare, Reset
<1> QED BY <1>1, <1>2, <1>3, <1>4, <1>5, <1>6, <1>7 DEF CredInv

\* Nothing changes when nothing happens.
LEMMA IdleKeeps ==
    ASSUME CredTypeOK, CredInv, UNCHANGED credVars
    PROVE  CredTypeOK' /\ CredInv'
<1>1. CredTypeOK'
  BY DEF CredTypeOK, flashVars, credVars
<1>2. PlaceInv'
  BY DEF CredInv, PlaceInv, SaverWorks, WiperWorks, credVars
<1>3. KeepInv'
  <2>1. Kept'
    BY DEF CredInv, flashVars, KeepInv, Kept, Keeps, credVars
  <2>2. Sparing'
    BY DEF flashVars, CredInv, KeepInv, Sparing, Spared, Keeps, credVars
  <2>3. SaveFacts'
    BY DEF flashVars, CredInv, KeepInv, SaveFacts, Stored, credVars
  <2>4. EraseFacts'
    BY DEF flashVars, CredInv, KeepInv, EraseFacts, credVars
  <2> QED BY <2>1, <2>2, <2>3, <2>4 DEF KeepInv
<1>4. OrderInv'
  <2>1. ASSUME torn' = {}, failed' = {} PROVE Paired'
    BY <2>1 DEF flashVars, CredInv, OrderInv, Loose, Paired, credVars
  <2>2. ASSUME torn' = {}, failed' = {} PROVE Distinct'
    BY <2>2 DEF flashVars, CredInv, OrderInv, Twice, Distinct, credVars
  <2>3. ASSUME torn' = {}, failed' = {} PROVE Forgotten'
    BY <2>3 DEF flashVars, CredInv, OrderInv, Forgotten, credVars
  <2>4. ASSUME torn' = {} PROVE Fresh'
    BY <2>4 DEF flashVars, CredInv, OrderInv, Fresh, credVars
  <2>5. ASSUME torn' = {} PROVE Full'
    BY <2>5 DEF flashVars, CredInv, OrderInv, Full, credVars
  <2> QED BY <2>1, <2>2, <2>3, <2>4, <2>5 DEF OrderInv
<1>5. FailInv'
  BY DEF CredInv, SaverWorks, FailInv, credVars
<1>6. GoneInv'
  BY DEF flashVars, CredInv, SaverWorks, GoneInv, SlotsOf, credVars
<1>7. WipeInv'
  BY DEF flashVars, CredInv, SaverWorks, WipeInv, Bare, credVars
<1> QED BY <1>1, <1>2, <1>3, <1>4, <1>5, <1>6, <1>7 DEF CredInv

-----------------------------------------------------------------------------
(* The theorems *)

\* An erased flash satisfies the invariant ...
LEMMA CredInitInv == CredInit => CredTypeOK /\ CredInv
<1> SUFFICES ASSUME CredInit PROVE CredTypeOK /\ CredInv
  OBVIOUS
<1>1. NumSlots \in Nat \ {0} /\ None \notin Nets
  BY CredAssumption
<1>2. CredTypeOK
  BY <1>1 DEF CredInit, CredTypeOK, NoPass, Keepers, Saver, Wiper, Nobody
<1>3. PlaceInv
  BY DEF CredInit, PlaceInv, SaverWorks, WiperWorks, SaveSteps, WipeSteps, Forgetting,
         Keepers, Saver, Wiper, Nobody, NoPass
<1>4. KeepInv
  BY DEF CredInit, KeepInv, Kept, Sparing, SaveFacts, EraseFacts, SaveSteps, Forgetting,
         Wiping, Keepers, Saver, Wiper
<1>5. OrderInv
  BY DEF CredInit, OrderInv, Paired, Distinct, Forgotten, Fresh, Full, Forgetting,
         Keepers, Saver, Wiper, NoPass
<1>6. FailInv /\ GoneInv /\ WipeInv
  BY DEF CredInit, FailInv, GoneInv, WipeInv, SaverWorks, SaveSteps, Wiping, Keepers,
         Saver, Wiper
<1> QED BY <1>2, <1>3, <1>4, <1>5, <1>6 DEF CredInv

\* ... and every step of the saver, of the wiper and of the power keeps it.
LEMMA CredStepInv ==
    ASSUME CredTypeOK, CredInv, [CredNext]_credVars
    PROVE  CredTypeOK' /\ CredInv'
<1>1. CASE SaveStep
  BY <1>1, StartSaveKeeps, UpdateKeeps, PutSsidKeeps, PutPassKeeps, EvictSsidKeeps,
     EvictPassKeeps, CopySsidKeeps, CopyPassKeeps, LastSsidKeeps, CommitSaveKeeps,
     SaveFailsKeeps, SaveFailsLockedKeeps DEF SaveStep
<1>2. CASE WipeStep
  BY <1>2, StartWipeKeeps, WipeSsidKeeps, WipePassKeeps, CommitWipeKeeps DEF WipeStep
<1>3. CASE ForgetStep
  BY <1>3, StartForgetKeeps, ForgetSsidKeeps, ForgetPassKeeps, CommitForgetKeeps
     DEF ForgetStep
<1> QED BY <1>1, <1>2, <1>3, ResetKeeps, IdleKeeps DEF CredNext

\* The types and the invariant hold in every reachable state, for any number of
\* slots, networks and passwords.
THEOREM CredInvariance == CredSpec => [](CredTypeOK /\ CredInv)
<1>1. CredInit => CredTypeOK /\ CredInv
  BY CredInitInv
<1>2. CredTypeOK /\ CredInv /\ [CredNext]_credVars => CredTypeOK' /\ CredInv'
  BY CredStepInv
<1> QED BY <1>1, <1>2, PTL DEF CredSpec

\* Whoever works on the keys holds the lock, and only a save that failed in its
\* last writes after an eviction keeps it when it is over.
THEOREM AlwaysOneKeeper == CredSpec => []OneKeeper
<1>1. CredTypeOK /\ CredInv => OneKeeper
  BY DEF CredTypeOK, CredInv, PlaceInv, SaverWorks, WiperWorks, OneKeeper, AtWork,
         Keepers, SaveSteps, WipeSteps, Saver, Wiper
<1> QED BY CredInvariance, <1>1, PTL

\* An acknowledged network stays readable with its password at every step of the
\* rotation and after every failed write or loss of power, until it is evicted or
\* deleted; and a reader finds no password under a wrong name unless a change
\* failed or was cut.
THEOREM AlwaysNetworksKept == CredSpec => []NetworksKept
<1>1. ASSUME CredTypeOK, CredInv PROVE NetworksKept
  <2>1. \A n \in Nets : good[n] # {} =>
            \E i \in Slots : ssid[i] = n /\ pass[i].net = n /\ pass[i].ver \in good[n]
    BY <1>1 DEF CredInv, KeepInv, Kept, Keeps
  <2>2. ASSUME NEW i \in Slots, Readable(i), torn = {} PROVE pass[i].net = ssid[i]
    <3>1. ~SaverWorks /\ ~WiperWorks /\ failed = {}
      BY <1>1, <2>2 DEF CredInv, PlaceInv, Readable, Nobody, Saver, Wiper
    <3>2. Paired
      BY <1>1, <2>2, <3>1 DEF CredInv, OrderInv
    <3>3. ~Loose(i)
      BY <3>1 DEF Loose, SaverWorks, WiperWorks, SaveSteps, WipeSteps
    <3> QED BY <3>2, <3>3 DEF Paired
  <2> QED BY <2>1, <2>2 DEF NetworksKept
<1> QED BY CredInvariance, <1>1, PTL

\* What was reported deleted is gone: all slots after a full deletion, and every
\* slot of a network that was forgotten, as long as no change failed or was cut.
THEOREM AlwaysDeletedIsGone == CredSpec => []DeletedIsGone
<1>1. CredInv => DeletedIsGone
  BY DEF CredInv, GoneInv, WipeInv, Bare, DeletedIsGone
<1> QED BY CredInvariance, <1>1, PTL

-----------------------------------------------------------------------------
(* The saving of profiles *)

\* What an enqueuer has made and not yet set has neither left nor is leaving.
MadeIsLive ==
    \A c \in Savers : made[c] # NoWorker => saveTask[made[c]] \in {"waiting", "saving"}

SaveInv == SaveWorkerTypeOK /\ HandleIsLive /\ MadeIsLive

\* Nothing is queued at first and nobody works.
LEMMA SaveInitGood == SaveWorkerInit => SaveInv
  BY SaveWorkerAssumption, SMT
  DEF SaveWorkerInit, SaveInv, SaveWorkerTypeOK, HandleIsLive, MadeIsLive, SaverPlaces, NoWorker

\* An enqueuer's steps keep the invariant.
LEMMA SaverGood ==
    ASSUME SaveInv, NEW c \in Savers,
           QueueProfile(c) \/ LookAtHandle(c) \/ CreateWorker(c) \/ AssignHandle(c)
    PROVE  SaveInv'
<1> USE SaveWorkerAssumption DEF SaveInv, SaverAt, WorkerDoes, SaverPlaces
<1>1. CASE QueueProfile(c)
  BY <1>1, SMT DEF QueueProfile, SaveWorkerTypeOK, HandleIsLive, MadeIsLive
<1>2. CASE LookAtHandle(c)
  BY <1>2, SMT DEF LookAtHandle, SaveWorkerTypeOK, HandleIsLive, MadeIsLive
<1>3. CASE CreateWorker(c)
  <2>1. CASE /\ SaverAt(c, "away") /\ UNCHANGED <<made, saveTask, saves, saveHandle>>
    BY <2>1, SMT DEF SaveWorkerTypeOK, HandleIsLive, MadeIsLive
  <2>2. ASSUME NEW w \in SaveWorkers, saveTask[w] = "none", WorkerDoes(w, "waiting"),
               made' = [made EXCEPT ![c] = w], SaverAt(c, "assign"),
               UNCHANGED <<saves, saveHandle>>
        PROVE  SaveInv'
    <3>1. SaveWorkerTypeOK'
      BY <2>2, SMT DEF SaveWorkerTypeOK
    <3>2. HandleIsLive' /\ MadeIsLive'
      BY <2>2, SMT DEF SaveWorkerTypeOK, HandleIsLive, MadeIsLive
    <3> QED BY <3>1, <3>2
  <2> QED BY <1>3, <2>1, <2>2 DEF CreateWorker
<1>4. CASE AssignHandle(c)
  BY <1>4, SMT DEF AssignHandle, SaveWorkerTypeOK, HandleIsLive, MadeIsLive
<1> QED BY <1>1, <1>2, <1>3, <1>4

\* So do a worker's: it leaves only when no enqueuer has yet to set it, and
\* clears the handle, whomever it names, as it goes.
LEMMA SaveWorkerGood ==
    ASSUME SaveInv, NEW w \in SaveWorkers,
           TakeProfile(w) \/ ProfileSaved(w) \/ WorkerTimesOut(w) \/ WorkerLeaves(w)
    PROVE  SaveInv'
<1> USE SaveWorkerAssumption DEF SaveInv, WorkerDoes
<1>1. CASE TakeProfile(w)
  BY <1>1, SMT DEF TakeProfile, SaveWorkerTypeOK, HandleIsLive, MadeIsLive
<1>2. CASE ProfileSaved(w)
  BY <1>2, SMT DEF ProfileSaved, SaveWorkerTypeOK, HandleIsLive, MadeIsLive
<1>3. CASE WorkerTimesOut(w)
  BY <1>3, SMT DEF WorkerTimesOut, SaveWorkerTypeOK, HandleIsLive, MadeIsLive
<1>4. CASE WorkerLeaves(w)
  BY <1>4, SMT DEF WorkerLeaves, SaveWorkerTypeOK, HandleIsLive, MadeIsLive
<1> QED BY <1>1, <1>2, <1>3, <1>4

\* The invariant holds in every behaviour.
LEMMA SaveInvariant == SaveWorkerSpec => []SaveInv
<1>1. SaveInv /\ [SaveWorkerNext]_saveVars => SaveInv'
  <2>1. ASSUME SaveInv, UNCHANGED saveVars PROVE SaveInv'
    BY <2>1, SMT DEF SaveInv, SaveWorkerTypeOK, HandleIsLive, MadeIsLive, saveVars
  <2> QED BY <2>1, SaverGood, SaveWorkerGood DEF SaveWorkerNext
<1> QED BY SaveInitGood, <1>1, PTL DEF SaveWorkerSpec

\* Every variable of nvs_setup.c's saving keeps its type.
THEOREM SaveTypeCorrect == SaveWorkerSpec => []SaveWorkerTypeOK
<1>1. SaveInv => SaveWorkerTypeOK
  BY DEF SaveInv
<1> QED BY SaveInvariant, <1>1, PTL

(***************************************************************************)
(* s_nvs_save_worker never names a worker that is gone, although it is     *)
(* tested, made, set and cleared without a lock by any number of tasks:    *)
(* saving can be revived by the next profile, always.                      *)
(***************************************************************************)
THEOREM HandleNeverDangles == SaveWorkerSpec => []HandleIsLive
<1>1. SaveInv => HandleIsLive
  BY DEF SaveInv
<1> QED BY SaveInvariant, <1>1, PTL

-----------------------------------------------------------------------------
(* The device registry *)

DataTypes ==
    /\ table \in [Aliases -> Endpoints \union {Absent}]
    /\ blobs \in [Endpoints -> Aliases \union {Absent}]
    /\ mixed \subseteq Aliases

QueueTypes == jobs \in Seq(Jobs) /\ Len(jobs) <= JobsLen

WorkerTypes ==
    /\ hand \in Jobs \union {NoJob}
    /\ worker \in {"none", "waiting", "working", "leaving"}
    /\ handle \subseteq {"set"} /\ refused \subseteq {"no_memory"}

CallTypes ==
    /\ stage \in [ToolTasks -> Stages]
    /\ item \in [ToolTasks -> Jobs \union {NoJob}]
    /\ spare \in [ToolTasks -> Jobs \union {NoJob}]
    /\ turns \in [ToolTasks -> 0..JobsLen] /\ calls \in 0..MaxCalls

\* A call that is under way has a job to post, and one that has taken a job out
\* of the queue has it in its hand.
HandsFull ==
    \A c \in ToolTasks : /\ stage[c] # "away" => item[c] \in Jobs
                         /\ stage[c] \in {"put_back", "replace"} => spare[c] \in Jobs

\* Without a worker, although there was memory for one, a job in the queue and a
\* call that turns the queue over have a call behind them that makes a worker.
Watched ==
    (handle = {} /\ refused = {} /\ (jobs # <<>> \/ Turning # {})) =>
        \E c \in ToolTasks : stage[c] = "ensure"

RegistryInv == DataTypes /\ QueueTypes /\ WorkerTypes /\ CallTypes /\ HandsFull /\ OneWorker /\ Watched

-----------------------------------------------------------------------------
(* Jobs *)

\* What the tools and the boot post is a job, and no job is NoJob.
LEMMA JobKinds ==
    /\ \A a \in Aliases, e \in Endpoints : SaveJob(a, e) \in Jobs /\ DeleteJob(a, e) \in Jobs
    /\ \A e \in Endpoints : ProfileJob(e) \in Jobs
    /\ GeneralJob("wipe") \in Jobs /\ GeneralJob("load") \in Jobs
    /\ NoJob \notin Jobs
<1>1. \A a \in Aliases, e \in Endpoints : SaveJob(a, e) \in Jobs /\ DeleteJob(a, e) \in Jobs
  BY SMT DEF Jobs
<1>2. \A e \in Endpoints : ProfileJob(e) \in Jobs
  BY SMT DEF Jobs
<1>3. GeneralJob("wipe") \in Jobs /\ GeneralJob("load") \in Jobs
  BY SMT DEF Jobs
<1>4. \A j \in Jobs : j.op \in {"save", "delete", "profile", "wipe", "load"}
  BY SMT DEF Jobs, SaveJob, DeleteJob, ProfileJob, GeneralJob
<1>5. NoJob.op = "none"
  BY SMT DEF NoJob, GeneralJob
<1>6. NoJob \notin Jobs
  BY <1>4, <1>5, SMT
<1> QED BY <1>1, <1>2, <1>3, <1>6

\* Names that are left out are aliases.
LEMMA NamesAreAliases ==
    /\ \A j : NamesOf(j) \subseteq Aliases
    /\ \A j, S : ClashNames(j, S) \subseteq Aliases
    /\ \A a \in Aliases : \A e : Moved(a, e) \subseteq Aliases
    /\ \A j, k : Replaced(j, k) \subseteq Aliases
<1>1. \A j : NamesOf(j) \subseteq Aliases
  BY Zenon DEF NamesOf
<1>2. \A j, S : ClashNames(j, S) \subseteq Aliases
  BY <1>1, Zenon DEF ClashNames
<1>3. \A a \in Aliases : \A e : Moved(a, e) \subseteq Aliases
  BY SMT DEF Moved
<1>4. \A j, k : Replaced(j, k) \subseteq Aliases
  BY <1>1, Zenon DEF Replaced
<1> QED BY <1>1, <1>2, <1>3, <1>4

\* A job put in where there is room leaves a queue.
LEMMA AppendQueue ==
    ASSUME QueueTypes, HasRoom, NEW j \in Jobs
    PROVE  /\ Append(jobs, j) \in Seq(Jobs) /\ Len(Append(jobs, j)) <= JobsLen
           /\ Append(jobs, j) # <<>>
  BY RegistryAssumption, SMT DEF QueueTypes, HasRoom

\* The first job taken out is one, and leaves a queue.
LEMMA TailQueue ==
    ASSUME QueueTypes, jobs # <<>>
    PROVE  /\ Tail(jobs) \in Seq(Jobs) /\ Len(Tail(jobs)) <= JobsLen
           /\ Head(jobs) \in Jobs
  BY RegistryAssumption, SMT DEF QueueTypes

-----------------------------------------------------------------------------
(* Tool calls *)

\* The end of a posting: the call makes another one, goes on to the table or is
\* over; the other calls stay where they are.
LEMMA GoesOnTypes ==
    ASSUME CallTypes, HandsFull, NEW c \in ToolTasks, stage[c] # "away", GoesOn(c),
           UNCHANGED calls
    PROVE  /\ CallTypes' /\ HandsFull'
           /\ stage'[c] \in {"send", "clear", "away"}
           /\ \A d \in ToolTasks \ {c} : stage'[d] = stage[d]
<1> DEFINE more == item[c].op = "delete" /\ item[c].end \in BleEndpoints
           next == IF more THEN "send" ELSE IF item[c].op = "wipe" THEN "clear" ELSE "away"
           post == IF more THEN ProfileJob(item[c].end)
                   ELSE IF next = "clear" THEN item[c] ELSE NoJob
<1>1. /\ stage' = [stage EXCEPT ![c] = next] /\ item' = [item EXCEPT ![c] = post]
      /\ turns' = [turns EXCEPT ![c] = 0] /\ spare' = [spare EXCEPT ![c] = NoJob]
  BY Zenon DEF GoesOn
<1>2. next \in {"send", "clear", "away"}
  OBVIOUS
<1>3. item[c] \in Jobs
  BY DEF HandsFull
<1>4. more => item[c].end \in Endpoints
  BY RegistryAssumption
<1>5. post \in Jobs \union {NoJob} /\ (next # "away" => post \in Jobs)
  <2>1. CASE more
    BY <2>1, <1>4, JobKinds
  <2>2. CASE ~more
    BY <2>2, <1>3
  <2> QED BY <2>1, <2>2
<1> HIDE DEF next, post
<1>6. CallTypes'
  BY <1>1, <1>2, <1>5, RegistryAssumption, SMT DEF CallTypes, Stages
<1>7. stage'[c] = next /\ item'[c] = post /\ \A d \in ToolTasks \ {c} : stage'[d] = stage[d]
  BY <1>1, SMT DEF CallTypes
<1>8. HandsFull'
  BY <1>1, <1>2, <1>5, <1>7, SMT DEF CallTypes, HandsFull
<1> QED BY <1>2, <1>6, <1>7, <1>8

\* A call begins.
LEMMA BeginGood ==
    ASSUME RegistryInv, NEW c \in ToolTasks, NEW job \in Jobs, NEW names, names \subseteq Aliases,
           table' \in [Aliases -> Endpoints \union {Absent}], Begin(c, job, names)
    PROVE  RegistryInv'
<1> USE DEF RegistryInv
<1>1. DataTypes'
  BY NamesAreAliases, SMT DEF DataTypes, Begin
<1>2. QueueTypes' /\ WorkerTypes' /\ OneWorker'
  BY SMT DEF QueueTypes, WorkerTypes, OneWorker, Begin, workerVars
<1>3. CallTypes' /\ HandsFull'
  BY RegistryAssumption, SMT DEF CallTypes, HandsFull, Begin, Stages
<1>4. Watched'
  BY SMT DEF CallTypes, Watched, Turning, Begin, workerVars
<1> QED BY <1>1, <1>2, <1>3, <1>4

\* A tool changes the table and has a job for it.
LEMMA ToolsGood ==
    ASSUME RegistryInv, NEW c \in ToolTasks,
           \/ \E a \in Aliases, e \in Endpoints : RegisterDevice(c, a, e)
           \/ \E a \in Aliases : RemoveDevice(c, a)
           \/ EraseAll(c)
    PROVE  RegistryInv'
<1>1. ASSUME NEW a \in Aliases, NEW e \in Endpoints, RegisterDevice(c, a, e) PROVE RegistryInv'
  <2>1. table' \in [Aliases -> Endpoints \union {Absent}]
    BY <1>1, SMT DEF RegistryInv, DataTypes, RegisterDevice
  <2>2. Begin(c, SaveJob(a, e), Moved(a, e))
    BY <1>1 DEF RegisterDevice
  <2> QED BY <2>1, <2>2, JobKinds, NamesAreAliases, BeginGood
<1>2. ASSUME NEW a \in Aliases, RemoveDevice(c, a) PROVE RegistryInv'
  <2>1. table' \in [Aliases -> Endpoints \union {Absent}] /\ table[a] \in Endpoints
    BY <1>2, SMT DEF RegistryInv, DataTypes, RemoveDevice
  <2>2. Begin(c, DeleteJob(a, table[a]), {x \in {a} : LoadIsPending} \union Sharing(a))
    BY <1>2 DEF RemoveDevice
  <2>3. {x \in {a} : LoadIsPending} \union Sharing(a) \subseteq Aliases
    BY DEF Sharing
  <2> QED BY <2>1, <2>2, <2>3, JobKinds, BeginGood
<1>3. ASSUME EraseAll(c) PROVE RegistryInv'
  <2>1. table' \in [Aliases -> Endpoints \union {Absent}]
    BY <1>3, SMT DEF RegistryInv, DataTypes, EraseAll
  <2>2. Begin(c, GeneralJob("wipe"), {})
    BY <1>3 DEF EraseAll
  <2> QED BY <2>1, <2>2, JobKinds, BeginGood
<1> QED BY <1>1, <1>2, <1>3

\* The table is emptied after the job of erase_all_data.
LEMMA EmptyTableGood == ASSUME RegistryInv, NEW c \in ToolTasks, EmptyTable(c) PROVE RegistryInv'
<1> USE DEF RegistryInv
<1>1. DataTypes'
  BY SMT DEF DataTypes, EmptyTable, NoTable
<1>2. QueueTypes' /\ WorkerTypes' /\ OneWorker'
  BY SMT DEF QueueTypes, WorkerTypes, OneWorker, EmptyTable, workerVars
<1>3. CallTypes' /\ HandsFull'
  BY SMT DEF CallTypes, HandsFull, EmptyTable, Stages
<1>4. Watched'
  BY SMT DEF CallTypes, Watched, Turning, EmptyTable, workerVars
<1> QED BY <1>1, <1>2, <1>3, <1>4

-----------------------------------------------------------------------------
(* registry_persist_enqueue *)

\* A job that finds a place is watched by its own call; one that finds none finds
\* a queue that is watched already.
LEMMA PostJobGood == ASSUME RegistryInv, NEW c \in ToolTasks, PostJob(c) PROVE RegistryInv'
<1> USE DEF RegistryInv
<1>1. item[c] \in Jobs
  BY DEF PostJob, HandsFull
<1>2. DataTypes' /\ WorkerTypes' /\ OneWorker'
  BY SMT DEF DataTypes, WorkerTypes, OneWorker, PostJob, workerVars
<1>3. QueueTypes'
  BY <1>1, AppendQueue, SMT DEF QueueTypes, PostJob
<1>4. CallTypes' /\ HandsFull'
  <2>1. PICK p \in {"ensure", "turn"} : stage' = [stage EXCEPT ![c] = p]
    BY Zenon DEF PostJob
  <2>2. UNCHANGED <<item, spare, turns, calls>>
    BY DEF PostJob
  <2> QED BY <1>1, <2>1, <2>2, SMT DEF CallTypes, HandsFull, Stages
<1>5. Watched'
  <2>1. CASE HasRoom
    BY <2>1, SMT DEF CallTypes, Watched, PostJob
  <2>2. CASE ~HasRoom
    <3>1. jobs # <<>> /\ stage' = [stage EXCEPT ![c] = "turn"] /\ stage[c] = "send"
      BY <2>2, RegistryAssumption, SMT DEF QueueTypes, PostJob, HasRoom
    <3>2. UNCHANGED <<jobs, handle, refused>>
      BY <2>2, Zenon DEF PostJob, workerVars
    <3> QED BY <3>1, <3>2, SMT DEF CallTypes, Watched
  <2> QED BY <2>1, <2>2
<1> QED BY <1>1, <1>2, <1>3, <1>4, <1>5

\* A job is taken out of the full queue.
LEMMA TakeTurnGood == ASSUME RegistryInv, NEW c \in ToolTasks, TakeTurn(c) PROVE RegistryInv'
<1> USE DEF RegistryInv
<1>1. item[c] \in Jobs /\ Head(jobs) \in Jobs
  BY TailQueue DEF TakeTurn, HandsFull
<1>2. WorkerTypes' /\ OneWorker'
  BY SMT DEF WorkerTypes, OneWorker, TakeTurn, workerVars
<1>3. DataTypes'
  BY NamesAreAliases, SMT DEF DataTypes, TakeTurn
<1>4. QueueTypes'
  BY TailQueue, SMT DEF QueueTypes, TakeTurn
<1>5. PICK p \in {"replace", "put_back"}, j \in Jobs :
         stage' = [stage EXCEPT ![c] = p] /\ spare' = [spare EXCEPT ![c] = j]
  BY <1>1, SMT DEF TakeTurn
<1>6. CallTypes'
  BY <1>5, RegistryAssumption, SMT DEF CallTypes, TakeTurn, Stages
<1>7. HandsFull'
  BY <1>1, <1>5, SMT DEF CallTypes, HandsFull, TakeTurn
<1>8. Watched'
  BY <1>5, SMT DEF CallTypes, Watched, Turning, TakeTurn, workerVars
<1> QED BY <1>2, <1>3, <1>4, <1>6, <1>7, <1>8

\* It is put back, or lost when the place is gone.
LEMMA PutBackGood == ASSUME RegistryInv, NEW c \in ToolTasks, PutBack(c) PROVE RegistryInv'
<1> USE DEF RegistryInv
<1>1. spare[c] \in Jobs
  BY DEF PutBack, HandsFull
<1>2. WorkerTypes' /\ OneWorker'
  BY SMT DEF WorkerTypes, OneWorker, PutBack, workerVars
<1>3. DataTypes'
  BY NamesAreAliases, SMT DEF DataTypes, PutBack
<1>4. QueueTypes'
  BY <1>1, AppendQueue, SMT DEF QueueTypes, PutBack
<1>5. CallTypes' /\ HandsFull'
  BY SMT DEF CallTypes, HandsFull, PutBack, Stages
<1>6. Watched'
  BY SMT DEF CallTypes, Watched, Turning, PutBack, workerVars
<1> QED BY <1>2, <1>3, <1>4, <1>5, <1>6

\* Its place is given to the new job.
LEMMA ReplaceGood == ASSUME RegistryInv, NEW c \in ToolTasks, Replace(c) PROVE RegistryInv'
<1> USE DEF RegistryInv
<1>1. spare[c] \in Jobs
  BY DEF Replace, HandsFull
<1>2. DataTypes' /\ WorkerTypes' /\ OneWorker'
  BY SMT DEF DataTypes, WorkerTypes, OneWorker, Replace, workerVars
<1>3. QueueTypes'
  BY <1>1, AppendQueue, SMT DEF QueueTypes, Replace
<1>4. CallTypes' /\ HandsFull'
  BY SMT DEF CallTypes, HandsFull, Replace, Stages
<1>5. Watched'
  BY SMT DEF CallTypes, Watched, Replace
<1> QED BY <1>2, <1>3, <1>4, <1>5

\* A rejected call leaves the queue to whoever watched it before.
LEMMA RejectGood == ASSUME RegistryInv, NEW c \in ToolTasks, Reject(c) PROVE RegistryInv'
<1> USE DEF RegistryInv
<1>1. stage[c] \in {"turn", "replace"} /\ GoesOn(c)
      /\ UNCHANGED <<table, blobs, jobs, workerVars, calls>>
  BY DEF Reject
<1>2. WorkerTypes' /\ OneWorker' /\ QueueTypes'
  BY <1>1, SMT DEF WorkerTypes, OneWorker, QueueTypes, workerVars
<1>3. DataTypes'
  BY NamesAreAliases, SMT DEF DataTypes, Reject
<1>4. /\ CallTypes' /\ HandsFull'
      /\ \A d \in ToolTasks \ {c} : stage'[d] = stage[d]
  BY <1>1, GoesOnTypes
<1>5. Watched'
  BY <1>1, <1>4, SMT DEF Watched, Turning, workerVars
<1> QED BY <1>2, <1>3, <1>4, <1>5

\* Once a worker is ensured there is one, or there was no memory for it.
LEMMA EnsureGood == ASSUME RegistryInv, NEW c \in ToolTasks, Ensure(c) PROVE RegistryInv'
<1> USE DEF RegistryInv
<1>1. stage[c] = "ensure" /\ GoesOn(c) /\ UNCHANGED <<table, blobs, mixed, jobs, hand, calls>>
  BY DEF Ensure
<1>2. \/ handle # {} /\ UNCHANGED <<worker, handle, refused>>
      \/ handle = {} /\ worker' = "waiting" /\ handle' = {"set"} /\ refused' = {}
      \/ handle = {} /\ refused' = {"no_memory"} /\ UNCHANGED <<worker, handle>>
  BY DEF Ensure
<1>3. DataTypes' /\ QueueTypes'
  BY <1>1, SMT DEF DataTypes, QueueTypes
<1>4. WorkerTypes' /\ OneWorker'
  <2>1. CASE worker' = "waiting" /\ handle = {} /\ handle' = {"set"} /\ refused' = {}
    <3>1. WorkerTypes'
      BY <1>1, <2>1, SMT DEF WorkerTypes
    <3>2. OneWorker'
      BY <1>1, <2>1, SMT DEF OneWorker
    <3> QED BY <3>1, <3>2
  <2>2. CASE UNCHANGED <<worker, handle>> /\ (refused' = refused \/ refused' = {"no_memory"})
    <3>1. refused' \subseteq {"no_memory"}
      <4>1. CASE refused' = refused
        BY <4>1, Zenon DEF WorkerTypes
      <4>2. CASE refused' = {"no_memory"}
        BY <4>2
      <4> QED BY <2>2, <4>1, <4>2
    <3>2. UNCHANGED <<worker, handle, hand>>
      BY <1>1, <2>2
    <3> QED BY <3>1, <3>2, SMT DEF WorkerTypes, OneWorker
  <2> QED BY <1>2, <2>1, <2>2
<1>5. CallTypes' /\ HandsFull'
  BY <1>1, GoesOnTypes
<1>6. Watched'
  BY <1>2, SMT DEF Watched
<1> QED BY <1>3, <1>4, <1>5, <1>6

-----------------------------------------------------------------------------
(* registry_worker_task *)

\* The worker takes jobs, works on them, and leaves only an empty queue that no
\* call turns over.
LEMMA RegistryWorkerGood == ASSUME RegistryInv, WorkerStep PROVE RegistryInv'
<1> USE DEF RegistryInv
<1>1. CASE Receive
  <2>1. DataTypes' /\ CallTypes' /\ HandsFull'
    BY <1>1, SMT DEF DataTypes, CallTypes, HandsFull, Receive, callVars
  <2>2. QueueTypes'
    BY <1>1, TailQueue, SMT DEF QueueTypes, Receive
  <2>3. WorkerTypes' /\ OneWorker'
    BY <1>1, TailQueue, JobKinds, SMT DEF WorkerTypes, OneWorker, Receive
  <2>4. Watched'
    BY <1>1, SMT DEF Watched, OneWorker, Receive
  <2> QED BY <2>1, <2>2, <2>3, <2>4
<1>2. CASE IdleTimeout
  <2>1. DataTypes' /\ QueueTypes' /\ CallTypes' /\ HandsFull'
    BY <1>2, SMT DEF DataTypes, QueueTypes, CallTypes, HandsFull, IdleTimeout, callVars
  <2>2. WorkerTypes' /\ OneWorker'
    BY <1>2, SMT DEF WorkerTypes, OneWorker, IdleTimeout
  <2>3. Watched'
    BY <1>2, SMT DEF Watched, OneWorker, IdleTimeout
  <2> QED BY <2>1, <2>2, <2>3
<1>3. CASE Leave
  <2>1. DataTypes' /\ QueueTypes' /\ CallTypes' /\ HandsFull'
    BY <1>3, SMT DEF DataTypes, QueueTypes, CallTypes, HandsFull, Leave, callVars
  <2>2. WorkerTypes' /\ OneWorker'
    <3>1. CASE jobs = <<>>
      <4>1. worker = "leaving" /\ worker' = "none" /\ handle' = {} /\ UNCHANGED <<hand, refused>>
        BY <1>3, <3>1, Zenon DEF Leave
      <4> QED BY <4>1, SMT DEF WorkerTypes, OneWorker
    <3>2. CASE jobs # <<>>
      <4>1. worker = "leaving" /\ worker' = "waiting" /\ UNCHANGED <<handle, hand, refused>>
        BY <1>3, <3>2, Zenon DEF Leave
      <4> QED BY <4>1, SMT DEF WorkerTypes, OneWorker
    <3> QED BY <3>1, <3>2
  <2>3. Watched'
    BY <1>3, SMT DEF Watched, OneWorker, Leave, Turning, callVars
  <2> QED BY <2>1, <2>2, <2>3
<1>4. CASE Work
  <2>1. QueueTypes' /\ CallTypes' /\ HandsFull'
    BY <1>4, SMT DEF QueueTypes, CallTypes, HandsFull, Work, callVars
  <2>2. WorkerTypes' /\ OneWorker'
    BY <1>4, SMT DEF WorkerTypes, OneWorker, Work
  <2>3. Watched'
    BY <1>4, SMT DEF Watched, OneWorker, Work
  <2>4. DataTypes'
    <3>1. BlobsAfter(hand) \in [Endpoints -> Aliases \union {Absent}]
      BY SMT DEF DataTypes, WorkerTypes, BlobsAfter, Jobs, NoJob, SaveJob, DeleteJob,
                 ProfileJob, GeneralJob
    <3>2. BlobsAfterFailure(hand) \subseteq [Endpoints -> Aliases \union {Absent}]
      BY <3>1, Zenon DEF DataTypes, BlobsAfterFailure
    <3>3. blobs' \in [Endpoints -> Aliases \union {Absent}]
      BY <1>4, <3>1, <3>2, Zenon DEF Work
    <3>4. table' \in [Aliases -> Endpoints \union {Absent}]
      BY <1>4, SMT DEF DataTypes, Work, TablesAfterLoad
    <3>5. mixed' \subseteq Aliases
      BY <1>4, NamesAreAliases, SMT DEF DataTypes, Work
    <3> QED BY <3>3, <3>4, <3>5 DEF DataTypes
  <2> QED BY <2>1, <2>2, <2>3, <2>4
<1> QED BY <1>1, <1>2, <1>3, <1>4 DEF WorkerStep

-----------------------------------------------------------------------------
(* Boot *)

\* The boot posts its load whether or not it has a worker.
LEMMA BootGood ==
    ASSUME DataTypes',
           jobs' = <<GeneralJob("load")>>, hand' = NoJob,
           \/ worker' = "waiting" /\ handle' = {"set"} /\ refused' = {}
           \/ worker' = "none" /\ handle' = {} /\ refused' = {"no_memory"},
           stage' = Nowhere, item' = NoJobs, spare' = NoJobs, turns' = NoTurns, calls' = 0
    PROVE  RegistryInv'
<1>1. QueueTypes'
  BY JobKinds, RegistryAssumption, SMT DEF QueueTypes
<1>2. WorkerTypes' /\ OneWorker'
  BY SMT DEF WorkerTypes, OneWorker
<1>3. CallTypes' /\ HandsFull'
  BY RegistryAssumption, SMT DEF CallTypes, HandsFull, Nowhere, NoJobs, NoTurns, Stages
<1>4. Watched'
  BY SMT DEF Watched
<1> QED BY <1>1, <1>2, <1>3, <1>4 DEF RegistryInv

\* The first boot is like the later ones, with an empty NVS.
LEMMA RegistryInitGood == RegistryInit => RegistryInv
<1> SUFFICES ASSUME RegistryInit PROVE RegistryInv
  OBVIOUS
<1>1. DataTypes
  BY SMT DEF RegistryInit, DataTypes, NoTable
<1>2. QueueTypes
  BY JobKinds, RegistryAssumption, SMT DEF RegistryInit, QueueTypes
<1>3. WorkerTypes /\ OneWorker
  BY SMT DEF RegistryInit, WorkerTypes, OneWorker
<1>4. CallTypes /\ HandsFull
  BY RegistryAssumption, SMT DEF RegistryInit, CallTypes, HandsFull, Nowhere, NoJobs,
                                 NoTurns, Stages
<1>5. Watched
  BY SMT DEF RegistryInit, Watched
<1> QED BY <1>1, <1>2, <1>3, <1>4, <1>5 DEF RegistryInv

\* A power loss keeps the blobs and boots again.
LEMMA PowerCycleGood == ASSUME RegistryInv, PowerCycle PROVE RegistryInv'
<1>1. DataTypes'
  BY SMT DEF RegistryInv, DataTypes, PowerCycle, NoTable, Shadowed
<1> QED BY <1>1, BootGood, Zenon DEF PowerCycle

\* The invariant holds in every behaviour.
LEMMA RegistryInvariant == RegistrySpec => []RegistryInv
<1>1. RegistryInv /\ [RegistryNext]_registryVars => RegistryInv'
  <2>1. ASSUME RegistryInv, NEW c \in ToolTasks, CallStep(c) PROVE RegistryInv'
    BY <2>1, ToolsGood, EmptyTableGood, PostJobGood, TakeTurnGood, PutBackGood,
       ReplaceGood, RejectGood, EnsureGood, Zenon DEF CallStep
  <2>2. ASSUME RegistryInv, UNCHANGED registryVars PROVE RegistryInv'
    BY <2>2, SMT DEF RegistryInv, DataTypes, QueueTypes, WorkerTypes, CallTypes, HandsFull,
                     OneWorker, Watched, Turning, registryVars, workerVars, callVars
  <2> QED BY <2>1, <2>2, RegistryWorkerGood, PowerCycleGood, Zenon DEF RegistryNext
<1> QED BY RegistryInitGood, <1>1, PTL DEF RegistrySpec

\* Every variable of the registry keeps its type; the queue holds jobs only, and
\* never more than it has places for.
THEOREM RegistryTypeCorrect == RegistrySpec => []RegistryTypeOK
<1>1. RegistryInv => RegistryTypeOK
  BY Zenon DEF RegistryInv, DataTypes, QueueTypes, WorkerTypes, CallTypes, RegistryTypeOK
<1> QED BY RegistryInvariant, <1>1, PTL

(***************************************************************************)
(* The worker that deletes itself never leaves a job behind that nobody    *)
(* watches, whatever calls post, turn over and reject at the same time:    *)
(* registry_persist_ensure_worker and the second look under the spawn lock *)
(* close the race that SaveWorker has.                                     *)
(***************************************************************************)
THEOREM NoJobForsaken == RegistrySpec => []WorkIsWatched
<1>1. RegistryInv => WorkIsWatched
  BY DEF RegistryInv, Watched, WorkIsWatched
<1> QED BY RegistryInvariant, <1>1, PTL

\* There is one worker at most, and s_registry_worker tells of it: two tasks never
\* write the registry to NVS.
THEOREM WorkerIsAlone == RegistrySpec => []OneWorker
<1>1. RegistryInv => OneWorker
  BY DEF RegistryInv
<1> QED BY RegistryInvariant, <1>1, PTL

-----------------------------------------------------------------------------
(* What a restart brings back *)

\* The jobs in the order in which they will be done: the worker's first.
At(i) == IF i = 0 THEN hand ELSE jobs[i]
JobPlaces == 0..Len(jobs)
LoadJob == GeneralJob("load")
WipeJob == GeneralJob("wipe")

\* Jobs that settle whether endpoint e is alias a's, and those of other aliases
\* that write the same key.
Own(a, e, j) == j \in {SaveJob(a, e), DeleteJob(a, e), WipeJob}
Foreign(a, e, j) == j.op \in {"save", "delete"} /\ j.end = e /\ j.name # a

\* What a call has still to post, or to put back.
HasItem(c) == stage[c] \in {"send", "turn", "put_back"}
HasSpare(c) == stage[c] \in {"put_back", "replace"}
OwnItem(a, e, c) == HasItem(c) /\ Own(a, e, item[c])
OwnSpare(a, e, c) == HasSpare(c) /\ Own(a, e, spare[c])
InHands(a, e) == \E c \in ToolTasks : OwnItem(a, e, c) \/ OwnSpare(a, e, c)

\* Alias a's blob is there when its own jobs before place i are done.
There(a, e, i) ==
    \/ blobs[e] = a /\ \A k \in JobPlaces : k < i => ~Own(a, e, At(k))
    \/ \E k \in JobPlaces : /\ k < i /\ At(k) = SaveJob(a, e)
                            /\ \A m \in JobPlaces : k < m /\ m < i => ~Own(a, e, At(m))
AtEnd(a, e) == There(a, e, Len(jobs) + 1)
Later(a, e, i) == \E k \in JobPlaces : k > i /\ Own(a, e, At(k))

\* What the table says, when the load of the boot and the erasure that are under
\* way have come to their ends.
Erasing == \E c \in ToolTasks : stage[c] # "away" /\ item[c].op = "wipe"
Recorded(a, e) == ~Erasing /\ (table[a] = e \/ (LoadIsPending /\ blobs[e] = a))

\* The last of the alias's own jobs leaves what the table says.
Settled(a, e) ==
    /\ ~InHands(a, e) => (AtEnd(a, e) <=> Recorded(a, e))
    /\ \A c \in ToolTasks :
         /\ OwnItem(a, e, c) => (item[c] = SaveJob(a, e) <=> Recorded(a, e))
         /\ OwnSpare(a, e, c) /\ ~OwnItem(a, e, c)
                => (spare[c] = SaveJob(a, e) <=> Recorded(a, e))

\* Another alias's job finds nothing of this one to overwrite, unless one of its
\* own is still to come.
Unharmed(a, e) ==
    /\ \A i \in JobPlaces : Foreign(a, e, At(i)) =>
           ~There(a, e, i) \/ Later(a, e, i) \/ InHands(a, e)
    /\ \A c \in ToolTasks :
         /\ HasSpare(c) /\ Foreign(a, e, spare[c]) => ~AtEnd(a, e) \/ OwnItem(a, e, c)
         /\ HasItem(c) /\ Foreign(a, e, item[c]) =>
               IF OwnSpare(a, e, c) THEN spare[c] # SaveJob(a, e) ELSE ~AtEnd(a, e)

\* Until the load of the boot is done the table agrees with the blobs.
Loading(a, e) ==
    LoadIsPending =>
        /\ blobs[e] = a => table[a] \in {Absent, e} /\ \A f \in Endpoints : blobs[f] = a => f = e
        /\ blobs[e] = a \/ table[a] = e => \A b \in Aliases \ {a} : table[b] # e
        /\ \A i \in JobPlaces : /\ At(i) = SaveJob(a, e) => table[a] = e
                                /\ At(i) # DeleteJob(a, e)
                                /\ At(i) = WipeJob => Erasing
        /\ \A c \in ToolTasks : \A j \in {item[c], spare[c]} :
              /\ j = SaveJob(a, e) => table[a] = e
              /\ j # DeleteJob(a, e)
              /\ j = WipeJob => Erasing

\* What all this comes to, for the aliases whose order the code keeps.
JobOrder ==
    \A a \in Aliases \ mixed, e \in Endpoints :
        Settled(a, e) /\ Unharmed(a, e) /\ Loading(a, e)

\* What a call has in hand fits to where it is.
FitInv ==
    \A c \in ToolTasks :
        /\ stage[c] = "clear" => item[c].op = "wipe"
        /\ item[c].op # "load"
        /\ ~HasSpare(c) => spare[c] = NoJob
        /\ stage[c] = "replace" => spare[c] = item[c]
        /\ stage[c] = "away" => item[c] = NoJob

\* Jobs of two calls do not clash, or the aliases they name are left out.
ApartInv ==
    \A c, d \in ToolTasks : c # d =>
        \A j \in {item[c], spare[c]}, k \in {item[d], spare[d]} :
            Clash(j, k) => NamesOf(j) \union NamesOf(k) \subseteq mixed

\* There is one load.
OnceInv ==
    /\ \A i, k \in JobPlaces : At(i) = LoadJob /\ At(k) = LoadJob => i = k
    /\ \A i \in JobPlaces, c \in ToolTasks : At(i) = LoadJob => spare[c] # LoadJob
    /\ \A c, d \in ToolTasks : spare[c] = LoadJob /\ spare[d] = LoadJob => c = d

HandsInv == FitInv /\ ApartInv /\ OnceInv

-----------------------------------------------------------------------------
\* Every job is of one kind.
LEMMA JobShapes ==
    ASSUME NEW j \in Jobs \union {NoJob}
    PROVE  /\ j.op \in {"save", "delete", "profile", "wipe", "load", "none"}
           /\ j.op = "save" => j.name \in Aliases /\ j.end \in Endpoints /\ j = SaveJob(j.name, j.end)
           /\ j.op = "delete" => j.name \in Aliases /\ j.end \in Endpoints /\ j = DeleteJob(j.name, j.end)
           /\ j.op = "profile" => j.end \in Endpoints /\ j = ProfileJob(j.end)
           /\ j.op = "wipe" <=> j = WipeJob
           /\ j.op = "load" <=> j = LoadJob
           /\ j.op = "none" <=> j = NoJob
  BY SMT DEF Jobs, NoJob, WipeJob, LoadJob, SaveJob, DeleteJob, ProfileJob, GeneralJob

\* Which jobs are an alias's own.
LEMMA OwnFacts ==
    ASSUME NEW a \in Aliases, NEW e \in Endpoints, NEW j \in Jobs \union {NoJob}
    PROVE  /\ Own(a, e, j) => a \in NamesOf(j) /\ j \in Jobs /\ ~Foreign(a, e, j)
           /\ Own(a, e, j) <=> \/ j.op = "wipe"
                               \/ j.op \in {"save", "delete"} /\ j.name = a /\ j.end = e
           /\ j = SaveJob(a, e) <=> j.op = "save" /\ j.name = a /\ j.end = e
           /\ j = DeleteJob(a, e) <=> j.op = "delete" /\ j.name = a /\ j.end = e
<1>1. j = SaveJob(a, e) <=> j.op = "save" /\ j.name = a /\ j.end = e
  BY JobShapes, SMT DEF SaveJob
<1>2. j = DeleteJob(a, e) <=> j.op = "delete" /\ j.name = a /\ j.end = e
  BY JobShapes, SMT DEF DeleteJob
<1>3. Own(a, e, j) <=> \/ j.op = "wipe"
                       \/ j.op \in {"save", "delete"} /\ j.name = a /\ j.end = e
  BY <1>1, <1>2, JobShapes, Zenon DEF Own
<1>4. Own(a, e, j) => a \in NamesOf(j) /\ ~Foreign(a, e, j)
  BY <1>3, SMT DEF NamesOf, Foreign
<1>5. Own(a, e, j) => j \in Jobs
  BY JobKinds, Zenon DEF Own, WipeJob
<1> QED BY <1>1, <1>2, <1>3, <1>4, <1>5

\* An own job clashes with all that write the same key.
LEMMA OwnClashes ==
    ASSUME NEW a \in Aliases, NEW e \in Endpoints,
           NEW j \in Jobs \union {NoJob}, NEW k \in Jobs \union {NoJob},
           Own(a, e, j), Own(a, e, k) \/ Foreign(a, e, k)
    PROVE  Clash(j, k) /\ Clash(k, j)
  BY OwnFacts, SMT DEF Clash, Foreign

\* So of two calls with something for one key none has an own job.
LEMMA HandsApart ==
    ASSUME CallTypes, ApartInv, NEW a \in Aliases \ mixed, NEW e \in Endpoints,
           NEW c \in ToolTasks, NEW d \in ToolTasks, c # d,
           NEW j \in {item[c], spare[c]}, NEW k \in {item[d], spare[d]},
           Own(a, e, j)
    PROVE  ~Own(a, e, k) /\ ~Foreign(a, e, k)
<1>1. j \in Jobs \union {NoJob} /\ k \in Jobs \union {NoJob}
  BY DEF CallTypes
<1>2. SUFFICES ASSUME Clash(j, k) PROVE FALSE
  BY <1>1, OwnClashes
<1>3. NamesOf(j) \subseteq mixed
  BY <1>2 DEF ApartInv
<1> QED BY <1>1, <1>3, OwnFacts

-----------------------------------------------------------------------------
(* What is in the hands of calls *)

\* Clashing jobs are left out where the model says so.
LEMMA ClashNamed ==
    ASSUME NEW j, NEW S, NEW k \in S, Clash(j, k)
    PROVE  NamesOf(j) \union NamesOf(k) \subseteq ClashNames(j, S)
  BY DEF ClashNames

\* A call keeps apart from the others when what it takes up clashes with nothing
\* that they hold.
LEMMA KeptApart ==
    ASSUME CallTypes, ApartInv, NEW c \in ToolTasks, NEW x, NEW y,
           item' = [item EXCEPT ![c] = x], spare' = [spare EXCEPT ![c] = y],
           mixed \subseteq mixed',
           \A j \in {x, y} : \/ j \in {item[c], spare[c]}
                             \/ j.op \notin {"save", "delete", "wipe"}
                             \/ \A k \in InCalls(c) : Clash(j, k) =>
                                    NamesOf(j) \union NamesOf(k) \subseteq mixed'
    PROVE  ApartInv'
<1>1. /\ item'[c] = x /\ spare'[c] = y
      /\ \A d \in ToolTasks \ {c} : item'[d] = item[d] /\ spare'[d] = spare[d]
  BY DEF CallTypes
<1>2. ASSUME NEW d \in ToolTasks \ {c}, NEW j \in {x, y}, NEW k \in {item[d], spare[d]},
             Clash(j, k)
      PROVE  NamesOf(j) \union NamesOf(k) \subseteq mixed'
  <2>1. CASE j \in {item[c], spare[c]}
    BY <1>2, <2>1, Zenon DEF ApartInv
  <2>2. CASE j.op \notin {"save", "delete", "wipe"}
    BY <1>2, <2>2 DEF Clash
  <2>3. k \in InCalls(c)
    BY DEF InCalls
  <2> QED BY <1>2, <2>1, <2>2, <2>3, Zenon
<1>3. \A j, k : Clash(j, k) => Clash(k, j)
  BY DEF Clash
<1>4. ASSUME NEW d \in ToolTasks, NEW f \in ToolTasks, d # f,
             NEW j \in {item'[d], spare'[d]}, NEW k \in {item'[f], spare'[f]}, Clash(j, k)
      PROVE  NamesOf(j) \union NamesOf(k) \subseteq mixed'
  <2>1. CASE d = c
    <3>1. f \in ToolTasks \ {c} /\ j \in {x, y} /\ k \in {item[f], spare[f]}
      BY <1>1, <1>4, <2>1
    <3> QED BY <1>2, <1>4, <3>1
  <2>2. CASE f = c
    <3>1. d \in ToolTasks \ {c} /\ k \in {x, y} /\ j \in {item[d], spare[d]}
      BY <1>1, <1>4, <2>2
    <3> QED BY <1>2, <1>3, <1>4, <3>1
  <2>3. CASE d # c /\ f # c
    <3>1. j \in {item[d], spare[d]} /\ k \in {item[f], spare[f]}
      BY <1>1, <2>3
    <3>2. NamesOf(j) \union NamesOf(k) \subseteq mixed
      BY <1>4, <3>1 DEF ApartInv
    <3> QED BY <3>2
  <2> QED BY <2>1, <2>2, <2>3
<1> QED BY <1>4, Zenon DEF ApartInv, NamesOf, Clash

\* What GoesOn leaves in the hands of the call.
LEMMA GoesOnHands ==
    ASSUME CallTypes, HandsFull, FitInv, NEW c \in ToolTasks, stage[c] # "away", GoesOn(c)
    PROVE  \E s \in {"send", "clear", "away"}, x \in Jobs \union {NoJob} :
             /\ stage' = [stage EXCEPT ![c] = s] /\ item' = [item EXCEPT ![c] = x]
             /\ spare' = [spare EXCEPT ![c] = NoJob]
             /\ s = "clear" <=> item[c].op = "wipe"
             /\ s = "clear" => x = item[c]
             /\ s = "send" => x = ProfileJob(item[c].end)
             /\ s = "away" => x = NoJob
<1> DEFINE more == item[c].op = "delete" /\ item[c].end \in BleEndpoints
           s == IF more THEN "send" ELSE IF item[c].op = "wipe" THEN "clear" ELSE "away"
           x == IF more THEN ProfileJob(item[c].end)
                   ELSE IF s = "clear" THEN item[c] ELSE NoJob
<1>1. /\ stage' = [stage EXCEPT ![c] = s] /\ item' = [item EXCEPT ![c] = x]
      /\ spare' = [spare EXCEPT ![c] = NoJob]
  BY Zenon DEF GoesOn
<1>2. more => item[c].end \in Endpoints
  BY RegistryAssumption
<1>3. s \in {"send", "clear", "away"} /\ x \in Jobs \union {NoJob}
  BY <1>2, JobKinds DEF HandsFull
<1>4. /\ s = "clear" <=> item[c].op = "wipe"
      /\ s = "clear" => x = item[c]
      /\ s = "send" => x = ProfileJob(item[c].end)
      /\ s = "away" => x = NoJob
  OBVIOUS
<1> HIDE DEF s, x
<1> QED BY <1>1, <1>3, <1>4

\* A call that begins holds its job, and stays apart from the calls with jobs that
\* clash with it.
LEMMA BeginHands ==
    ASSUME RegistryInv, FitInv, ApartInv, NEW c \in ToolTasks, NEW job \in Jobs, NEW names,
           job.op # "load", Begin(c, job, names)
    PROVE  FitInv' /\ ApartInv'
<1>1. FitInv'
  BY JobKinds, SMT DEF RegistryInv, CallTypes, FitInv, Begin, HasSpare
<1>2. item' = [item EXCEPT ![c] = job] /\ spare' = [spare EXCEPT ![c] = spare[c]]
  BY DEF RegistryInv, CallTypes, Begin
<1>3. mixed \subseteq mixed'
  BY DEF Begin
<1>4. \A k \in InCalls(c) : Clash(job, k) => NamesOf(job) \union NamesOf(k) \subseteq mixed'
  BY ClashNamed, Zenon DEF Begin
<1>5. \A j \in {job, spare[c]} : \/ j \in {item[c], spare[c]}
                                 \/ j.op \notin {"save", "delete", "wipe"}
                                 \/ \A k \in InCalls(c) : Clash(j, k) =>
                                       NamesOf(j) \union NamesOf(k) \subseteq mixed'
  BY <1>4
<1>6. ApartInv'
  BY <1>2, <1>3, <1>5, KeptApart, Zenon DEF RegistryInv
<1> QED BY <1>1, <1>6

\* The end of an erasure leaves the hands in order.
LEMMA EmptyTableHands ==
    ASSUME RegistryInv, FitInv, ApartInv, NEW c \in ToolTasks, EmptyTable(c)
    PROVE  FitInv' /\ ApartInv'
<1>1. FitInv'
  BY JobKinds, SMT DEF RegistryInv, CallTypes, FitInv, EmptyTable, HasSpare, NoJob,
    GeneralJob
<1>2. item' = [item EXCEPT ![c] = NoJob] /\ spare' = [spare EXCEPT ![c] = spare[c]]
  BY DEF RegistryInv, CallTypes, EmptyTable
<1>3. mixed \subseteq mixed'
  BY DEF EmptyTable, RegistryInv, DataTypes
<1>4. NoJob.op \notin {"save", "delete", "wipe"}
  BY DEF NoJob, GeneralJob
<1>5. ApartInv'
  BY <1>2, <1>3, <1>4, KeptApart, Zenon DEF RegistryInv
<1> QED BY <1>1, <1>5

\* So does a call that posts its job or finds the queue full,
LEMMA PostJobHands ==
    ASSUME RegistryInv, FitInv, ApartInv, NEW c \in ToolTasks, PostJob(c)
    PROVE  FitInv' /\ ApartInv'
<1>1. PICK s \in {"ensure", "turn"} : stage' = [stage EXCEPT ![c] = s]
  BY Zenon DEF PostJob
<1>2. UNCHANGED <<item, spare, mixed>> /\ stage[c] = "send"
  BY DEF PostJob
<1>3. FitInv'
  BY <1>1, <1>2, SMT DEF RegistryInv, CallTypes, FitInv, HasSpare
<1>4. ApartInv'
  BY <1>2 DEF ApartInv
<1> QED BY <1>3, <1>4

\* one that takes the first job out: what it holds then clashes with nothing in
\* other hands but for the aliases that are left out,
LEMMA TakeTurnHands ==
    ASSUME RegistryInv, FitInv, ApartInv, NEW c \in ToolTasks, TakeTurn(c)
    PROVE  FitInv' /\ ApartInv'
<1>1. CASE Collapsible(Head(jobs), item[c])
  <2>1. /\ spare' = [spare EXCEPT ![c] = item[c]] /\ stage' = [stage EXCEPT ![c] = "replace"]
        /\ UNCHANGED item /\ stage[c] = "turn" /\ mixed \subseteq mixed'
    BY <1>1 DEF TakeTurn
  <2>2. FitInv'
    BY <2>1, SMT DEF RegistryInv, CallTypes, FitInv, HasSpare
  <2>3. item' = [item EXCEPT ![c] = item[c]]
    BY <2>1 DEF RegistryInv, CallTypes
  <2> QED BY <2>1, <2>2, <2>3, KeptApart, Zenon DEF RegistryInv
<1>2. CASE ~Collapsible(Head(jobs), item[c])
  <2>1. /\ spare' = [spare EXCEPT ![c] = Head(jobs)] /\ stage' = [stage EXCEPT ![c] = "put_back"]
        /\ UNCHANGED item /\ stage[c] = "turn" /\ mixed \subseteq mixed'
        /\ ClashNames(Head(jobs), Queued(Tail(jobs)) \union InCalls(c)) \subseteq mixed'
    BY <1>2 DEF TakeTurn
  <2>2. FitInv'
    BY <2>1, SMT DEF RegistryInv, CallTypes, FitInv, HasSpare
  <2>3. item' = [item EXCEPT ![c] = item[c]]
    BY <2>1 DEF RegistryInv, CallTypes
  <2>4. ASSUME NEW k \in InCalls(c), Clash(Head(jobs), k)
        PROVE  NamesOf(Head(jobs)) \union NamesOf(k) \subseteq mixed'
    BY <2>1, <2>4, ClashNamed
  <2>5. \A j \in {item[c], Head(jobs)} :
            \/ j \in {item[c], spare[c]}
            \/ j.op \notin {"save", "delete", "wipe"}
            \/ \A k \in InCalls(c) : Clash(j, k) =>
                   NamesOf(j) \union NamesOf(k) \subseteq mixed'
    BY <2>4
  <2>6. ApartInv'
    BY <2>1, <2>3, <2>5, KeptApart, Zenon DEF RegistryInv
  <2> QED BY <2>2, <2>6
<1> QED BY <1>1, <1>2

\* one that puts a job back or posts it in another's place,
LEMMA PutBackHands ==
    ASSUME RegistryInv, FitInv, ApartInv, NEW c \in ToolTasks, PutBack(c) \/ Replace(c)
    PROVE  FitInv' /\ ApartInv'
<1>1. PICK s \in {"turn", "ensure"} : stage' = [stage EXCEPT ![c] = s]
  BY Zenon DEF PutBack, Replace
<1>2. /\ spare' = [spare EXCEPT ![c] = NoJob] /\ UNCHANGED item /\ mixed \subseteq mixed'
      /\ stage[c] # "away"
  BY DEF PutBack, Replace
<1>3. FitInv'
  BY <1>1, <1>2, SMT DEF RegistryInv, CallTypes, FitInv, HasSpare
<1>4. item' = [item EXCEPT ![c] = item[c]]
  BY <1>2 DEF RegistryInv, CallTypes
<1>5. NoJob.op \notin {"save", "delete", "wipe"}
  BY DEF NoJob, GeneralJob
<1> QED BY <1>2, <1>3, <1>4, <1>5, KeptApart, Zenon DEF RegistryInv

\* and one that is rejected or has ensured a worker.
LEMMA GoesOnFits ==
    ASSUME RegistryInv, FitInv, ApartInv, NEW c \in ToolTasks, Reject(c) \/ Ensure(c)
    PROVE  FitInv' /\ ApartInv'
<1>1. stage[c] # "away" /\ GoesOn(c) /\ mixed \subseteq mixed'
  BY DEF Reject, Ensure
<1>2. PICK s \in {"send", "clear", "away"}, x \in Jobs \union {NoJob} :
             /\ stage' = [stage EXCEPT ![c] = s] /\ item' = [item EXCEPT ![c] = x]
             /\ spare' = [spare EXCEPT ![c] = NoJob]
             /\ s = "clear" <=> item[c].op = "wipe"
             /\ s = "clear" => x = item[c]
             /\ s = "send" => x = ProfileJob(item[c].end)
             /\ s = "away" => x = NoJob
  BY <1>1, GoesOnHands DEF RegistryInv
<1>3. /\ NoJob.op \notin {"save", "delete", "wipe", "load"}
      /\ ProfileJob(item[c].end).op \notin {"save", "delete", "wipe", "load"}
  BY DEF NoJob, GeneralJob, ProfileJob
<1>4. FitInv'
  BY <1>2, <1>3, SMT DEF RegistryInv, CallTypes, FitInv, HasSpare
<1>5. x = item[c] \/ x.op \notin {"save", "delete", "wipe"}
  BY <1>2, <1>3
<1>6. ApartInv'
  BY <1>1, <1>2, <1>3, <1>5, KeptApart, Zenon DEF RegistryInv
<1> QED BY <1>4, <1>6

-----------------------------------------------------------------------------
(* The worker's hand and the queue, as places *)

\* The places of jobs: the worker's hand and the queue.
LEMMA PlaceFacts ==
    ASSUME RegistryInv
    PROVE  /\ Len(jobs) \in Nat /\ 0 \in JobPlaces
           /\ \A i \in JobPlaces : At(i) \in Jobs \union {NoJob}
           /\ LoadIsPending <=> \/ \E i \in JobPlaces : At(i) = LoadJob
                                \/ \E c \in ToolTasks : spare[c] = LoadJob
<1>1. Len(jobs) \in Nat /\ 0 \in JobPlaces /\ \A i \in 1..Len(jobs) : jobs[i] \in Jobs
  BY DEF RegistryInv, QueueTypes, JobPlaces
<1>2. \A i \in JobPlaces : At(i) \in Jobs \union {NoJob}
  BY <1>1 DEF At, JobPlaces, RegistryInv, WorkerTypes
<1>3. Queued(jobs) \union {hand} = {At(i) : i \in JobPlaces}
  BY <1>1 DEF At, JobPlaces, Queued
<1> QED BY <1>1, <1>2, <1>3 DEF LoadIsPending, LoadJob

\* A job put at the end gets the place behind the last one.
LEMMA AppendPlaces ==
    ASSUME RegistryInv, NEW j, NEW n, n = Len(jobs) + 1, jobs' = Append(jobs, j), hand' = hand
    PROVE  /\ n \in Nat /\ Len(jobs') = n /\ JobPlaces = 0..n-1 /\ JobPlaces' = 0..n
           /\ \A i \in JobPlaces : At(i)' = At(i)
           /\ At(n)' = j
  BY DEF RegistryInv, QueueTypes, JobPlaces, At

\* When the first job is taken out by a call, those behind it move up.
LEMMA TailPlaces ==
    ASSUME RegistryInv, NEW n, n = Len(jobs), jobs # <<>>, jobs' = Tail(jobs), hand' = hand
    PROVE  /\ n \in Nat \ {0} /\ Len(jobs') = n - 1 /\ JobPlaces = 0..n /\ JobPlaces' = 0..n-1
           /\ At(1) = Head(jobs)
           /\ At(0)' = At(0)
           /\ \A i \in 1..n-1 : At(i)' = At(i + 1)
  BY DEF RegistryInv, QueueTypes, JobPlaces, At

\* When the worker takes it, all the places move up.
LEMMA ReceivePlaces ==
    ASSUME RegistryInv, NEW n, n = Len(jobs), jobs # <<>>, jobs' = Tail(jobs), hand' = Head(jobs)
    PROVE  /\ n \in Nat \ {0} /\ Len(jobs') = n - 1 /\ JobPlaces = 0..n /\ JobPlaces' = 0..n-1
           /\ \A i \in 0..n-1 : At(i)' = At(i + 1)
  BY DEF RegistryInv, QueueTypes, JobPlaces, At

\* When the worker is done with a job, the other places stay as they are.
LEMMA WorkPlaces ==
    ASSUME RegistryInv, UNCHANGED jobs, hand' = NoJob
    PROVE  /\ JobPlaces' = JobPlaces /\ At(0)' = NoJob
           /\ \A i \in JobPlaces \ {0} : At(i)' = At(i)
  BY DEF RegistryInv, QueueTypes, JobPlaces, At

\* What is there after a job is put at the end.
LEMMA AppendThere ==
    ASSUME RegistryInv, NEW j, NEW n, n = Len(jobs) + 1, jobs' = Append(jobs, j), hand' = hand,
           UNCHANGED blobs, NEW a \in Aliases, NEW e \in Endpoints
    PROVE  /\ \A i \in 0..n : There(a, e, i)' <=> There(a, e, i)
           /\ \A i \in 0..n-1 : Later(a, e, i)' <=> Later(a, e, i) \/ Own(a, e, j)
           /\ Own(a, e, j) => (There(a, e, n + 1)' <=> j = SaveJob(a, e))
           /\ ~Own(a, e, j) => (There(a, e, n + 1)' <=> There(a, e, n))
<1>1. /\ n \in Nat /\ Len(jobs') = n /\ JobPlaces = 0..n-1 /\ JobPlaces' = 0..n
      /\ \A i \in JobPlaces : At(i)' = At(i)
      /\ At(n)' = j
  BY AppendPlaces
<1>2. j = SaveJob(a, e) => Own(a, e, j)
  BY DEF Own
<1>3. \A i \in 0..n : There(a, e, i)' <=> There(a, e, i)
  BY <1>1 DEF There
<1>4. \A i \in 0..n-1 : Later(a, e, i)' <=> Later(a, e, i) \/ Own(a, e, j)
  BY <1>1 DEF Later
<1>5. Own(a, e, j) => (There(a, e, n + 1)' <=> j = SaveJob(a, e))
  BY <1>1 DEF There
<1>6. ~Own(a, e, j) => (There(a, e, n + 1)' <=> There(a, e, n))
  BY <1>1, <1>2 DEF There
<1> QED BY <1>3, <1>4, <1>5, <1>6

\* What is there when the worker has received a job.
LEMMA ReceiveThere ==
    ASSUME RegistryInv, hand = NoJob, jobs # <<>>, jobs' = Tail(jobs), hand' = Head(jobs),
           UNCHANGED blobs, NEW a \in Aliases, NEW e \in Endpoints, NEW n, n = Len(jobs)
    PROVE  /\ \A i \in 0..n : There(a, e, i)' <=> There(a, e, i + 1)
           /\ \A i \in 0..n-1 : Later(a, e, i)' <=> Later(a, e, i + 1)
<1>1. /\ n \in Nat \ {0} /\ Len(jobs') = n - 1 /\ JobPlaces = 0..n /\ JobPlaces' = 0..n-1
      /\ \A i \in 0..n-1 : At(i)' = At(i + 1)
  BY ReceivePlaces
<1>2. ~Own(a, e, At(0)) /\ At(0) # SaveJob(a, e)
  BY DEF At, Own, NoJob, SaveJob, DeleteJob, WipeJob, GeneralJob
<1> DEFINE p(i) == At(i)'
<1>3. /\ \A k \in 0..n-1 : k + 1 \in 1..n /\ p(k) = At(k + 1)
      /\ \A k \in 1..n : k - 1 \in 0..n-1 /\ p(k - 1) = At(k)
  BY <1>1
<1>4. ASSUME NEW i \in 0..n PROVE There(a, e, i)' <=> There(a, e, i + 1)
  <2>1. There(a, e, i)' <=>
          \/ blobs[e] = a /\ \A k \in 0..n-1 : k < i => ~Own(a, e, p(k))
          \/ \E k \in 0..n-1 : /\ k < i /\ p(k) = SaveJob(a, e)
                               /\ \A m \in 0..n-1 : k < m /\ m < i => ~Own(a, e, p(m))
    BY <1>1 DEF There, Own, SaveJob, DeleteJob, WipeJob, GeneralJob
  <2>2. There(a, e, i + 1) <=>
          \/ blobs[e] = a /\ \A k \in 1..n : k < i + 1 => ~Own(a, e, At(k))
          \/ \E k \in 1..n : /\ k < i + 1 /\ At(k) = SaveJob(a, e)
                            /\ \A m \in 1..n : k < m /\ m < i + 1 => ~Own(a, e, At(m))
    BY <1>1, <1>2 DEF There
  <2> HIDE DEF p
  <2>3. (\A k \in 0..n-1 : k < i => ~Own(a, e, p(k))) <=>
          \A k \in 1..n : k < i + 1 => ~Own(a, e, At(k))
    BY <1>1, <1>3
  <2>4. ASSUME NEW k \in 0..n-1, k < i, p(k) = SaveJob(a, e),
               \A m \in 0..n-1 : k < m /\ m < i => ~Own(a, e, p(m))
        PROVE  /\ k + 1 \in 1..n /\ k + 1 < i + 1 /\ At(k + 1) = SaveJob(a, e)
               /\ \A m \in 1..n : k + 1 < m /\ m < i + 1 => ~Own(a, e, At(m))
    BY <1>1, <1>3, <2>4
  <2>5. ASSUME NEW k \in 1..n, k < i + 1, At(k) = SaveJob(a, e),
               \A m \in 1..n : k < m /\ m < i + 1 => ~Own(a, e, At(m))
        PROVE  /\ k - 1 \in 0..n-1 /\ k - 1 < i /\ p(k - 1) = SaveJob(a, e)
               /\ \A m \in 0..n-1 : k - 1 < m /\ m < i => ~Own(a, e, p(m))
    BY <1>1, <1>3, <2>5
  <2> QED BY <2>1, <2>2, <2>3, <2>4, <2>5
<1>5. ASSUME NEW i \in 0..n-1 PROVE Later(a, e, i)' <=> Later(a, e, i + 1)
  <2>1. Later(a, e, i)' <=> \E k \in 0..n-1 : k > i /\ Own(a, e, p(k))
    BY <1>1 DEF Later, Own, SaveJob, DeleteJob, WipeJob, GeneralJob
  <2>2. Later(a, e, i + 1) <=> \E k \in 1..n : k > i + 1 /\ Own(a, e, At(k))
    BY <1>1 DEF Later
  <2> HIDE DEF p
  <2> QED BY <1>1, <1>3, <2>1, <2>2
<1> QED BY <1>4, <1>5

\* What is there when a call has taken the first job out of the queue.
LEMMA TakeThere ==
    ASSUME RegistryInv, NEW n, n = Len(jobs), jobs # <<>>, jobs' = Tail(jobs), hand' = hand,
           UNCHANGED blobs, NEW a \in Aliases, NEW e \in Endpoints
    PROVE  /\ There(a, e, 0)' <=> There(a, e, 0)
           /\ ~Own(a, e, Head(jobs)) =>
                /\ \A i \in 1..n : There(a, e, i)' <=> There(a, e, i + 1)
                /\ \A i \in 1..n-1 : Later(a, e, i)' <=> Later(a, e, i + 1)
                /\ Later(a, e, 0)' <=> Later(a, e, 0)
           /\ (\A i \in 2..n : ~Own(a, e, At(i))) =>
                /\ \A i \in 1..n : There(a, e, i + 1) <=> There(a, e, 2)
                /\ Own(a, e, Head(jobs)) => (AtEnd(a, e) <=> Head(jobs) = SaveJob(a, e))
                /\ ~Own(a, e, Head(jobs)) => ~Later(a, e, 0) /\ (There(a, e, 2) <=> There(a, e, 1))
                /\ ~Later(a, e, 1)
<1>1. /\ n \in Nat \ {0} /\ Len(jobs') = n - 1 /\ JobPlaces = 0..n /\ JobPlaces' = 0..n-1
      /\ At(1) = Head(jobs)
      /\ At(0)' = At(0)
      /\ \A i \in 1..n-1 : At(i)' = At(i + 1)
  BY TailPlaces
<1>2. \A j : j = SaveJob(a, e) => Own(a, e, j)
  BY DEF Own
<1>3. There(a, e, 0)' <=> There(a, e, 0)
  BY <1>1 DEF There
<1>4. ASSUME ~Own(a, e, Head(jobs))
      PROVE  /\ \A i \in 1..n : There(a, e, i)' <=> There(a, e, i + 1)
             /\ \A i \in 1..n-1 : Later(a, e, i)' <=> Later(a, e, i + 1)
             /\ Later(a, e, 0)' <=> Later(a, e, 0)
  <2> DEFINE p(i) == At(i)'
  <2>1. /\ \A k \in 1..n-1 : k + 1 \in 2..n /\ p(k) = At(k + 1)
        /\ \A k \in 2..n : k - 1 \in 1..n-1 /\ p(k - 1) = At(k)
        /\ p(0) = At(0) /\ ~Own(a, e, At(1))
    BY <1>1, <1>4
  <2>2. ASSUME NEW i \in 1..n PROVE There(a, e, i)' <=> There(a, e, i + 1)
    <3>1. There(a, e, i)' <=>
            \/ blobs[e] = a /\ \A k \in 0..n-1 : k < i => ~Own(a, e, p(k))
            \/ \E k \in 0..n-1 : /\ k < i /\ p(k) = SaveJob(a, e)
                                 /\ \A m \in 0..n-1 : k < m /\ m < i => ~Own(a, e, p(m))
      BY <1>1 DEF There, Own, SaveJob, DeleteJob, WipeJob, GeneralJob
    <3>2. There(a, e, i + 1) <=>
            \/ blobs[e] = a /\ \A k \in 0..n : k < i + 1 => ~Own(a, e, At(k))
            \/ \E k \in 0..n : /\ k < i + 1 /\ At(k) = SaveJob(a, e)
                               /\ \A m \in 0..n : k < m /\ m < i + 1 => ~Own(a, e, At(m))
      BY <1>1 DEF There
    <3> HIDE DEF p
    <3>3. (\A k \in 0..n-1 : k < i => ~Own(a, e, p(k))) <=>
            \A k \in 0..n : k < i + 1 => ~Own(a, e, At(k))
      BY <1>1, <2>1
    <3>4. ASSUME NEW k \in 0..n-1, k < i, p(k) = SaveJob(a, e),
                 \A m \in 0..n-1 : k < m /\ m < i => ~Own(a, e, p(m))
          PROVE  \E l \in 0..n : /\ l < i + 1 /\ At(l) = SaveJob(a, e)
                                /\ \A m \in 0..n : l < m /\ m < i + 1 => ~Own(a, e, At(m))
      <4>1. CASE k = 0 BY <1>1, <2>1, <3>4, <4>1
      <4>2. CASE k # 0
        <5>1. k + 1 \in 0..n /\ k + 1 < i + 1 /\ At(k + 1) = SaveJob(a, e)
          BY <1>1, <2>1, <3>4, <4>2
        <5>2. \A m \in 0..n : k + 1 < m /\ m < i + 1 => ~Own(a, e, At(m))
          BY <1>1, <2>1, <3>4, <4>2
        <5> QED BY <5>1, <5>2
      <4> QED BY <4>1, <4>2
    <3>5. ASSUME NEW k \in 0..n, k < i + 1, At(k) = SaveJob(a, e),
                 \A m \in 0..n : k < m /\ m < i + 1 => ~Own(a, e, At(m))
          PROVE  \E l \in 0..n-1 : /\ l < i /\ p(l) = SaveJob(a, e)
                                  /\ \A m \in 0..n-1 : l < m /\ m < i => ~Own(a, e, p(m))
      <4>1. CASE k = 0 BY <1>1, <2>1, <3>5, <4>1
      <4>2. CASE k # 0
        <5>1. k - 1 \in 0..n-1 /\ k - 1 < i /\ p(k - 1) = SaveJob(a, e)
          BY <1>1, <1>2, <2>1, <3>5, <4>2
        <5>2. \A m \in 0..n-1 : k - 1 < m /\ m < i => ~Own(a, e, p(m))
          BY <1>1, <1>2, <2>1, <3>5, <4>2
        <5> QED BY <5>1, <5>2
      <4> QED BY <4>1, <4>2
    <3> QED BY <3>1, <3>2, <3>3, <3>4, <3>5
  <2>3. /\ \A i \in 1..n-1 : Later(a, e, i)' <=> Later(a, e, i + 1)
        /\ Later(a, e, 0)' <=> Later(a, e, 0)
    <3>1. \A i \in 0..n-1 : Later(a, e, i)' <=> \E k \in 0..n-1 : k > i /\ Own(a, e, p(k))
      BY <1>1 DEF Later, Own, SaveJob, DeleteJob, WipeJob, GeneralJob
    <3>2. \A i \in 0..n : Later(a, e, i) <=> \E k \in 0..n : k > i /\ Own(a, e, At(k))
      BY <1>1 DEF Later
    <3> HIDE DEF p
    <3>3. ASSUME NEW i \in 1..n-1 PROVE Later(a, e, i)' <=> Later(a, e, i + 1)
      BY <1>1, <2>1, <3>1, <3>2
    <3>4. Later(a, e, 0)' <=> Later(a, e, 0)
      BY <1>1, <2>1, <3>1, <3>2
    <3> QED BY <3>3, <3>4
  <2> QED BY <2>2, <2>3
<1>5. ASSUME \A i \in 2..n : ~Own(a, e, At(i))
      PROVE  /\ \A i \in 1..n : There(a, e, i + 1) <=> There(a, e, 2)
             /\ Own(a, e, Head(jobs)) => (AtEnd(a, e) <=> Head(jobs) = SaveJob(a, e))
             /\ ~Own(a, e, Head(jobs)) => ~Later(a, e, 0) /\ (There(a, e, 2) <=> There(a, e, 1))
             /\ ~Later(a, e, 1)
  <2>1. ASSUME NEW i \in 1..n PROVE There(a, e, i + 1) <=> There(a, e, 2)
    BY <1>1, <1>2, <1>5 DEF There
  <2>2. Own(a, e, Head(jobs)) => (There(a, e, 2) <=> Head(jobs) = SaveJob(a, e))
    BY <1>1, <1>2 DEF There
  <2>3. ~Own(a, e, Head(jobs)) => ~Later(a, e, 0) /\ (There(a, e, 2) <=> There(a, e, 1))
    BY <1>1, <1>2, <1>5 DEF There, Later
  <2>4. ~Later(a, e, 1)
    BY <1>1, <1>5 DEF Later
  <2>5. AtEnd(a, e) <=> There(a, e, 2)
    BY <1>1, <2>1 DEF AtEnd
  <2> QED BY <2>1, <2>2, <2>3, <2>4, <2>5
<1> QED BY <1>3, <1>4, <1>5

\* What is there when the worker is done with an own job, or with another one.
LEMMA WorkThere ==
    ASSUME RegistryInv, UNCHANGED jobs, hand' = NoJob, NEW a \in Aliases, NEW e \in Endpoints
    PROVE  /\ Own(a, e, hand) /\ (blobs'[e] = a <=> hand = SaveJob(a, e)) =>
                \A i \in 1..Len(jobs)+1 : There(a, e, i)' <=> There(a, e, i)
           /\ ~Own(a, e, hand) /\ (blobs'[e] = a <=> blobs[e] = a) =>
                \A i \in 1..Len(jobs)+1 : There(a, e, i)' <=> There(a, e, i)
           /\ ~Own(a, e, hand) /\ blobs'[e] # a =>
                /\ \A i \in 1..Len(jobs)+1 : There(a, e, i)' => There(a, e, i)
                /\ Later(a, e, 0) => (AtEnd(a, e)' <=> AtEnd(a, e))
           /\ \A i \in 1..Len(jobs) : Later(a, e, i)' <=> Later(a, e, i)
<1>1. /\ JobPlaces' = JobPlaces /\ At(0)' = NoJob /\ Len(jobs) \in Nat /\ JobPlaces = 0..Len(jobs)
      /\ \A i \in JobPlaces \ {0} : At(i)' = At(i)
  BY WorkPlaces, PlaceFacts DEF JobPlaces
<1>2. /\ At(0) = hand /\ ~Own(a, e, NoJob) /\ NoJob # SaveJob(a, e)
      /\ \A j : j = SaveJob(a, e) => Own(a, e, j)
  BY DEF At, Own, NoJob, SaveJob, DeleteJob, WipeJob, GeneralJob
<1>3. ASSUME Own(a, e, hand), blobs'[e] = a <=> hand = SaveJob(a, e), NEW i \in 1..Len(jobs)+1
      PROVE  There(a, e, i)' <=> There(a, e, i)
  BY <1>1, <1>2, <1>3 DEF There
<1>4. ASSUME ~Own(a, e, hand), blobs'[e] = a <=> blobs[e] = a, NEW i \in 1..Len(jobs)+1
      PROVE  There(a, e, i)' <=> There(a, e, i)
  BY <1>1, <1>2, <1>4 DEF There
<1>5. ASSUME ~Own(a, e, hand), blobs'[e] # a
      PROVE  /\ \A i \in 1..Len(jobs)+1 : There(a, e, i)' => There(a, e, i)
             /\ Later(a, e, 0) => (AtEnd(a, e)' <=> AtEnd(a, e))
  <2>1. ASSUME NEW i \in 1..Len(jobs)+1 PROVE There(a, e, i)' => There(a, e, i)
    BY <1>1, <1>2, <1>5 DEF There
  <2>2. Later(a, e, 0) => (AtEnd(a, e)' <=> AtEnd(a, e))
    BY <1>1, <1>2, <1>5 DEF There, Later, AtEnd
  <2> QED BY <2>1, <2>2
<1>6. \A i \in 1..Len(jobs) : Later(a, e, i)' <=> Later(a, e, i)
  BY <1>1 DEF Later
<1> QED BY <1>3, <1>4, <1>5, <1>6

-----------------------------------------------------------------------------
(* There is one load *)

\* The load stays the only one when a job is put at the end,
LEMMA AppendOnce ==
    ASSUME RegistryInv, OnceInv, NEW j,
           j # LoadJob \/ \E c \in ToolTasks : spare[c] = j /\ spare'[c] # LoadJob,
           jobs' = Append(jobs, j), hand' = hand,
           \A c \in ToolTasks : spare'[c] = LoadJob => spare[c] = LoadJob
    PROVE  OnceInv'
<1>0. PICK n : n = Len(jobs) + 1
  OBVIOUS
<1> DEFINE p(i) == At(i)'
<1>1. /\ JobPlaces = 0..n-1 /\ JobPlaces' = 0..n /\ n \in Nat
      /\ \A i \in 0..n-1 : p(i) = At(i)
      /\ p(n) = j
  BY <1>0, AppendPlaces
<1>2. OnceInv' <=>
        /\ \A i, k \in 0..n : p(i) = LoadJob /\ p(k) = LoadJob => i = k
        /\ \A i \in 0..n, c \in ToolTasks : p(i) = LoadJob => spare'[c] # LoadJob
        /\ \A c, d \in ToolTasks : spare'[c] = LoadJob /\ spare'[d] = LoadJob => c = d
  BY <1>1 DEF OnceInv, LoadJob, GeneralJob
<1> HIDE DEF p
<1> QED BY <1>1, <1>2 DEF OnceInv

\* when the first job is taken out, by the worker or by a call,
LEMMA TakeOnce ==
    ASSUME RegistryInv, OnceInv, jobs # <<>>, jobs' = Tail(jobs),
           \/ hand' = Head(jobs) /\ hand = NoJob /\ UNCHANGED spare
           \/ /\ hand' = hand
              /\ \E c \in ToolTasks, j \in Jobs :
                    spare' = [spare EXCEPT ![c] = j] /\ (j = LoadJob => j = Head(jobs))
    PROVE  OnceInv'
<1> DEFINE n == Len(jobs)
           p(i) == At(i)'
<1>1. CASE hand' = Head(jobs) /\ UNCHANGED spare
  <2>1. /\ JobPlaces = 0..n /\ JobPlaces' = 0..n-1 /\ n \in Nat
        /\ \A i \in 0..n-1 : p(i) = At(i + 1)
    BY <1>1, ReceivePlaces
  <2>2. OnceInv' <=>
          /\ \A i, k \in 0..n-1 : p(i) = LoadJob /\ p(k) = LoadJob => i = k
          /\ \A i \in 0..n-1, c \in ToolTasks : p(i) = LoadJob => spare'[c] # LoadJob
          /\ \A c, d \in ToolTasks : spare'[c] = LoadJob /\ spare'[d] = LoadJob => c = d
    BY <2>1 DEF OnceInv, LoadJob, GeneralJob
  <2> HIDE DEF p, n
  <2>3. \A i, k \in 0..n-1 : p(i) = LoadJob /\ p(k) = LoadJob => i = k
    <3>1. SUFFICES ASSUME NEW i \in 0..n-1, NEW k \in 0..n-1, p(i) = LoadJob, p(k) = LoadJob
                   PROVE  i = k
      OBVIOUS
    <3>2. i + 1 \in 0..n /\ k + 1 \in 0..n /\ At(i + 1) = LoadJob /\ At(k + 1) = LoadJob
      BY <2>1, <3>1
    <3>3. i + 1 = k + 1
      BY <2>1, <3>2 DEF OnceInv
    <3> QED BY <2>1, <3>3
  <2>4. ASSUME NEW i \in 0..n-1, NEW c \in ToolTasks, p(i) = LoadJob PROVE spare'[c] # LoadJob
    <3>1. i + 1 \in 0..n /\ At(i + 1) = LoadJob
      BY <2>1, <2>4
    <3> QED BY <1>1, <2>1, <3>1 DEF OnceInv
  <2> QED BY <1>1, <2>2, <2>3, <2>4 DEF OnceInv
<1>2. ASSUME hand' = hand, NEW c \in ToolTasks, NEW j \in Jobs,
             spare' = [spare EXCEPT ![c] = j], j = LoadJob => j = Head(jobs)
      PROVE  OnceInv'
  <2>1. /\ JobPlaces = 0..n /\ JobPlaces' = 0..n-1 /\ n \in Nat \ {0} /\ At(1) = Head(jobs)
        /\ p(0) = At(0)
        /\ \A i \in 1..n-1 : p(i) = At(i + 1)
    BY <1>2, TailPlaces
  <2>2. OnceInv' <=>
          /\ \A i, k \in 0..n-1 : p(i) = LoadJob /\ p(k) = LoadJob => i = k
          /\ \A i \in 0..n-1, d \in ToolTasks : p(i) = LoadJob => spare'[d] # LoadJob
          /\ \A d, f \in ToolTasks : spare'[d] = LoadJob /\ spare'[f] = LoadJob => d = f
    BY <2>1 DEF OnceInv, LoadJob, GeneralJob
  <2>3. spare'[c] = j /\ \A d \in ToolTasks \ {c} : spare'[d] = spare[d]
    BY <1>2 DEF RegistryInv, CallTypes
  <2> HIDE DEF p, n
  <2>4. ASSUME NEW i \in 0..n-1, p(i) = LoadJob
        PROVE  \E k \in 0..n : At(k) = LoadJob /\ k # 1 /\ (i = 0 => k = 0) /\ (i # 0 => k = i + 1)
    <3>1. CASE i = 0 BY <2>1, <2>4, <3>1
    <3>2. CASE i # 0
      <4>1. i + 1 \in 0..n /\ At(i + 1) = LoadJob /\ i + 1 # 1
        BY <2>1, <2>4, <3>2
      <4> QED BY <3>2, <4>1
    <3> QED BY <3>1, <3>2
  <2>5. \A i, k \in 0..n-1 : p(i) = LoadJob /\ p(k) = LoadJob => i = k
    <3>1. SUFFICES ASSUME NEW i \in 0..n-1, NEW k \in 0..n-1, p(i) = LoadJob, p(k) = LoadJob
                   PROVE  i = k
      OBVIOUS
    <3>2. PICK x \in 0..n : At(x) = LoadJob /\ (i = 0 => x = 0) /\ (i # 0 => x = i + 1)
      BY <2>4, <3>1
    <3>3. PICK y \in 0..n : At(y) = LoadJob /\ (k = 0 => y = 0) /\ (k # 0 => y = k + 1)
      BY <2>4, <3>1
    <3>4. x = y
      BY <2>1, <3>2, <3>3 DEF OnceInv
    <3> QED BY <2>1, <3>2, <3>3, <3>4
  <2>6. ASSUME NEW i \in 0..n-1, NEW d \in ToolTasks, p(i) = LoadJob PROVE spare'[d] # LoadJob
    <3>1. PICK x \in 0..n : At(x) = LoadJob /\ x # 1
      BY <2>4, <2>6
    <3>2. spare[d] # LoadJob
      BY <2>1, <3>1 DEF OnceInv
    <3>3. j # LoadJob
      BY <1>2, <2>1, <3>1 DEF OnceInv
    <3> QED BY <2>3, <3>2, <3>3
  <2>7. ASSUME NEW d \in ToolTasks, NEW f \in ToolTasks, spare'[d] = LoadJob, spare'[f] = LoadJob
        PROVE  d = f
    <3>1. j = LoadJob => \A g \in ToolTasks : spare[g] # LoadJob
      BY <1>2, <2>1 DEF OnceInv
    <3> QED BY <2>3, <2>7, <3>1 DEF OnceInv
  <2> QED BY <2>2, <2>5, <2>6, <2>7
<1> QED BY <1>1, <1>2

\* when the worker is done with a job, and then it was the last one,
LEMMA WorkOnce == ASSUME RegistryInv, OnceInv, Work PROVE OnceInv' /\ (hand = LoadJob => ~LoadIsPending')
<1>1. /\ JobPlaces' = JobPlaces /\ At(0)' = NoJob /\ UNCHANGED spare /\ 0 \in JobPlaces /\ At(0) = hand
      /\ \A i \in JobPlaces \ {0} : At(i)' = At(i)
  BY WorkPlaces, PlaceFacts DEF Work, callVars, At
<1>2. NoJob # LoadJob
  BY DEF NoJob, LoadJob, GeneralJob
<1>3. OnceInv'
  BY <1>1, <1>2 DEF OnceInv, LoadJob, GeneralJob
<1>4. ASSUME hand = LoadJob PROVE ~LoadIsPending'
  <2>1. hand' = NoJob /\ UNCHANGED jobs
    BY DEF Work
  <2>2. \A i \in 1..Len(jobs) : jobs[i] # LoadJob
    <3>1. ASSUME NEW i \in 1..Len(jobs), jobs[i] = LoadJob PROVE FALSE
      <4>1. i \in JobPlaces /\ i # 0 /\ At(i) = LoadJob
        BY <3>1, PlaceFacts DEF At, JobPlaces
      <4> QED BY <1>1, <1>4, <4>1 DEF OnceInv
    <3> QED BY <3>1
  <2>3. \A c \in ToolTasks : spare[c] # LoadJob
    BY <1>1, <1>4 DEF OnceInv
  <2> QED BY <1>1, <1>2, <2>1, <2>2, <2>3 DEF LoadIsPending, Queued, LoadJob
<1> QED BY <1>3, <1>4

\* and when the queue is left alone.
LEMMA SameQueueOnce ==
    ASSUME RegistryInv, OnceInv, UNCHANGED <<jobs, hand>>,
           \A c \in ToolTasks : spare'[c] = LoadJob => spare[c] = LoadJob
    PROVE  OnceInv'
<1>1. JobPlaces' = JobPlaces /\ \A i \in JobPlaces : At(i)' = At(i)
  BY DEF JobPlaces, At
<1> QED BY <1>1 DEF OnceInv, LoadJob, GeneralJob

\* Every step of a call leaves the hands in order,
LEMMA CallKeepsHands ==
    ASSUME RegistryInv, HandsInv, NEW c \in ToolTasks, CallStep(c)
    PROVE  HandsInv'
<1>1. CASE \/ \E a \in Aliases, e \in Endpoints : RegisterDevice(c, a, e)
           \/ \E a \in Aliases : RemoveDevice(c, a)
           \/ EraseAll(c)
  <2>1. PICK job \in Jobs, names \in SUBSET Aliases : job.op # "load" /\ Begin(c, job, names)
    <3>1. ASSUME NEW a \in Aliases, NEW e \in Endpoints, RegisterDevice(c, a, e)
          PROVE  \E job \in Jobs, names \in SUBSET Aliases : job.op # "load" /\ Begin(c, job, names)
      BY <3>1, JobKinds, NamesAreAliases DEF RegisterDevice, SaveJob
    <3>2. ASSUME NEW a \in Aliases, RemoveDevice(c, a)
          PROVE  \E job \in Jobs, names \in SUBSET Aliases : job.op # "load" /\ Begin(c, job, names)
      <4>1. table[a] \in Endpoints
        BY <3>2 DEF RemoveDevice, RegistryInv, DataTypes
      <4>2. DeleteJob(a, table[a]) \in Jobs /\ DeleteJob(a, table[a]).op # "load"
        BY <4>1, JobKinds DEF DeleteJob
      <4>3. {x \in {a} : LoadIsPending} \union Sharing(a) \in SUBSET Aliases
        BY DEF Sharing
      <4> QED BY <3>2, <4>2, <4>3 DEF RemoveDevice
    <3>3. ASSUME EraseAll(c)
          PROVE  \E job \in Jobs, names \in SUBSET Aliases : job.op # "load" /\ Begin(c, job, names)
      <4>1. GeneralJob("wipe") \in Jobs /\ GeneralJob("wipe").op # "load" /\ {} \in SUBSET Aliases
        BY JobKinds DEF GeneralJob
      <4> QED BY <3>3, <4>1 DEF EraseAll
    <3> QED BY <1>1, <3>1, <3>2, <3>3
  <2>2. OnceInv'
    BY <2>1, SameQueueOnce DEF Begin, HandsInv, workerVars
  <2> QED BY <2>1, <2>2, BeginHands DEF HandsInv
<1>2. CASE EmptyTable(c)
  BY <1>2, EmptyTableHands, SameQueueOnce DEF EmptyTable, HandsInv, workerVars
<1>3. CASE PostJob(c)
  <2>1. item[c] # LoadJob
    BY DEF HandsInv, FitInv, LoadJob, GeneralJob
  <2>2. OnceInv'
    BY <1>3, <2>1, AppendOnce, SameQueueOnce, Zenon DEF PostJob, HandsInv, workerVars
  <2> QED BY <1>3, <2>2, PostJobHands DEF HandsInv
<1>4. CASE TakeTurn(c)
  <2>1. item[c] # LoadJob /\ item[c] \in Jobs /\ Head(jobs) \in Jobs
    BY <1>4, TailQueue DEF TakeTurn, HandsInv, FitInv, LoadJob, GeneralJob, RegistryInv,
      HandsFull
  <2>2. OnceInv'
    BY <1>4, <2>1, TakeOnce, Zenon DEF TakeTurn, HandsInv, workerVars
  <2> QED BY <1>4, <2>2, TakeTurnHands DEF HandsInv
<1>5. CASE PutBack(c) \/ Replace(c)
  <2>1. /\ hand' = hand /\ spare'[c] = NoJob /\ \A d \in ToolTasks \ {c} : spare'[d] = spare[d]
        /\ jobs' = Append(jobs, spare[c]) \/ UNCHANGED jobs
    BY <1>5, Zenon DEF PutBack, Replace, workerVars, RegistryInv, CallTypes
  <2>2. NoJob # LoadJob
    BY DEF NoJob, LoadJob, GeneralJob
  <2>3. \A d \in ToolTasks : spare'[d] = LoadJob => spare[d] = LoadJob
    BY <2>1, <2>2
  <2>4. OnceInv'
    BY <2>1, <2>2, <2>3, AppendOnce, SameQueueOnce DEF HandsInv
  <2> QED BY <1>5, <2>4, PutBackHands DEF HandsInv
<1>6. CASE Reject(c) \/ Ensure(c)
  <2>1. UNCHANGED <<jobs, hand>> /\ spare' = [spare EXCEPT ![c] = NoJob]
    BY <1>6 DEF Reject, Ensure, GoesOn, workerVars
  <2>2. NoJob # LoadJob
    BY DEF NoJob, LoadJob, GeneralJob
  <2>3. \A d \in ToolTasks : spare'[d] = LoadJob => spare[d] = LoadJob
    BY <2>1, <2>2 DEF RegistryInv, CallTypes
  <2> QED BY <1>6, <2>1, <2>3, SameQueueOnce, GoesOnFits DEF HandsInv
<1> QED BY <1>1, <1>2, <1>3, <1>4, <1>5, <1>6 DEF CallStep

\* and every step of the worker.
LEMMA WorkerKeepsHands ==
    ASSUME RegistryInv, HandsInv, WorkerStep \/ UNCHANGED registryVars
    PROVE  HandsInv'
<1>1. UNCHANGED <<stage, item, spare>> /\ mixed \subseteq mixed'
  BY DEF WorkerStep, Receive, IdleTimeout, Leave, Work, callVars, registryVars
<1>2. FitInv' /\ ApartInv'
  BY <1>1 DEF HandsInv, FitInv, ApartInv, HasSpare
<1>3. CASE Receive
  BY <1>1, <1>2, <1>3, TakeOnce DEF HandsInv, Receive, RegistryInv, OneWorker
<1>4. CASE Work
  BY <1>2, <1>4, WorkOnce DEF HandsInv
<1>5. CASE IdleTimeout \/ Leave \/ UNCHANGED registryVars
  BY <1>1, <1>2, <1>5, SameQueueOnce DEF HandsInv, IdleTimeout, Leave, registryVars,
    workerVars
<1> QED BY <1>3, <1>4, <1>5 DEF WorkerStep

-----------------------------------------------------------------------------
(* The order of an alias's jobs *)

\* Two jobs that clash are not both left alone.
LEMMA OwnAlone ==
    ASSUME RegistryInv, NEW a \in Aliases \ mixed', NEW e \in Endpoints, mixed' \subseteq Aliases,
           NEW j \in Jobs, NEW S, S \subseteq Jobs \union {NoJob}, ClashNames(j, S) \subseteq mixed'
    PROVE  /\ Own(a, e, j) => \A k \in S : ~Own(a, e, k) /\ ~Foreign(a, e, k)
           /\ Foreign(a, e, j) => \A k \in S : ~Own(a, e, k)
<1>1. ASSUME NEW k \in S, Clash(j, k), Own(a, e, j) \/ Own(a, e, k) PROVE FALSE
  <2>1. NamesOf(j) \union NamesOf(k) \subseteq mixed'
    BY <1>1, ClashNamed
  <2>2. a \in NamesOf(j) \union NamesOf(k)
    BY <1>1, OwnFacts
  <2> QED BY <2>1, <2>2
<1>2. Own(a, e, j) => \A k \in S : ~Own(a, e, k) /\ ~Foreign(a, e, k)
  BY <1>1, OwnClashes
<1>3. Foreign(a, e, j) => \A k \in S : ~Own(a, e, k)
  BY <1>1, OwnClashes
<1> QED BY <1>2, <1>3

\* A call that begins.
LEMMA BeginOrder ==
    ASSUME RegistryInv, HandsInv, NEW c \in ToolTasks, NEW job \in Jobs, NEW names,
           Begin(c, job, names), NEW a \in Aliases \ mixed', NEW e \in Endpoints,
           mixed' \subseteq Aliases, Settled(a, e), Unharmed(a, e),
           Own(a, e, job) => (Recorded(a, e)' <=> job = SaveJob(a, e)),
           ~Own(a, e, job) => (Recorded(a, e)' <=> Recorded(a, e)),
           Foreign(a, e, job) => ~Recorded(a, e)
    PROVE  Settled(a, e)' /\ Unharmed(a, e)'
<1>1. /\ UNCHANGED <<blobs, jobs, hand, spare>> /\ stage[c] = "away"
      /\ stage' = [stage EXCEPT ![c] = "send"] /\ item' = [item EXCEPT ![c] = job]
      /\ ClashNames(job, InCalls(c)) \subseteq mixed'
  BY DEF Begin, workerVars
<1>2. /\ HasItem(c)' /\ ~HasSpare(c)' /\ ~HasItem(c) /\ ~HasSpare(c) /\ item'[c] = job
      /\ \A d \in ToolTasks \ {c} : /\ HasItem(d)' <=> HasItem(d)
                                    /\ HasSpare(d)' <=> HasSpare(d)
                                    /\ item'[d] = item[d]
  BY <1>1 DEF RegistryInv, CallTypes, HasItem, HasSpare
<1>3. /\ Own(a, e, job) => \A k \in InCalls(c) : ~Own(a, e, k) /\ ~Foreign(a, e, k)
      /\ Foreign(a, e, job) => \A k \in InCalls(c) : ~Own(a, e, k)
  <2>1. InCalls(c) \subseteq Jobs \union {NoJob}
    BY DEF InCalls, RegistryInv, CallTypes
  <2> QED BY <1>1, <2>1, OwnAlone
<1>4. /\ \A d \in ToolTasks \ {c} : item[d] \in InCalls(c) /\ spare[d] \in InCalls(c)
      /\ ~(Own(a, e, job) /\ Foreign(a, e, job))
  BY OwnFacts DEF InCalls
<1>5. /\ \A d \in ToolTasks \ {c} : /\ OwnItem(a, e, d)' <=> OwnItem(a, e, d)
                                    /\ OwnSpare(a, e, d)' <=> OwnSpare(a, e, d)
      /\ OwnItem(a, e, c)' <=> Own(a, e, job)
      /\ ~OwnSpare(a, e, c)' /\ ~OwnSpare(a, e, c) /\ ~OwnItem(a, e, c)
  BY <1>1, <1>2 DEF OwnItem, OwnSpare, Own, SaveJob, DeleteJob, WipeJob, GeneralJob
<1>6. /\ Own(a, e, job) \/ Foreign(a, e, job) => ~InHands(a, e)
      /\ InHands(a, e)' <=> InHands(a, e) \/ Own(a, e, job)
  BY <1>3, <1>4, <1>5 DEF InHands, OwnItem, OwnSpare
<1>7. /\ JobPlaces' = JobPlaces /\ \A i \in JobPlaces : At(i)' = At(i)
      /\ \A i : There(a, e, i)' <=> There(a, e, i)
      /\ \A i : Later(a, e, i)' <=> Later(a, e, i)
      /\ AtEnd(a, e)' <=> AtEnd(a, e)
  BY <1>1 DEF There, AtEnd, Later, JobPlaces, At, Own, SaveJob, DeleteJob, WipeJob,
    GeneralJob
<1>8. Settled(a, e)'
  BY <1>1, <1>2, <1>3, <1>4, <1>5, <1>6, <1>7 DEF Settled, OwnItem, OwnSpare, SaveJob
<1>9. Unharmed(a, e)'
  BY <1>1, <1>2, <1>3, <1>4, <1>5, <1>6, <1>7 DEF Settled, Unharmed, OwnItem, OwnSpare,
    SaveJob, Foreign
<1> QED BY <1>8, <1>9

\* The load of the boot waits as long as queue and hands hold it.
LEMMA SameLoad ==
    ASSUME UNCHANGED <<jobs, hand>>,
           \A c \in ToolTasks : spare'[c] = LoadJob <=> spare[c] = LoadJob
    PROVE  LoadIsPending' <=> LoadIsPending
  BY DEF LoadIsPending, Queued, LoadJob, GeneralJob

\* set_device_endpoint, set_ir_device, set_ble_device_alias
LEMMA RegisterOrder ==
    ASSUME RegistryInv, HandsInv, JobOrder, NEW c \in ToolTasks, NEW b \in Aliases, NEW f \in Endpoints,
           RegisterDevice(c, b, f), mixed' \subseteq Aliases
    PROVE  JobOrder'
<1>1. /\ table' = [table EXCEPT ![b] = f] /\ Begin(c, SaveJob(b, f), Moved(b, f))
      /\ UNCHANGED <<blobs, jobs, hand, spare>> /\ SaveJob(b, f) \in Jobs
      /\ stage[c] = "away"
      /\ stage' = [stage EXCEPT ![c] = "send"] /\ item' = [item EXCEPT ![c] = SaveJob(b, f)]
      /\ mixed \union Moved(b, f) \subseteq mixed'
      /\ ClashNames(SaveJob(b, f), InCalls(c)) \subseteq mixed'
  BY JobKinds DEF RegisterDevice, Begin, workerVars
<1>2. SUFFICES ASSUME NEW a \in Aliases \ mixed', NEW e \in Endpoints
               PROVE  Settled(a, e)' /\ Unharmed(a, e)' /\ Loading(a, e)'
  BY DEF JobOrder
<1>3. Settled(a, e) /\ Unharmed(a, e) /\ Loading(a, e)
  BY <1>1 DEF JobOrder
<1>4. LoadIsPending' <=> LoadIsPending
  BY <1>1, SameLoad
<1>5. /\ SaveJob(b, f).op = "save" /\ SaveJob(b, f).name = b /\ SaveJob(b, f).end = f
      /\ NoJob.op = "none"
  BY DEF SaveJob, NoJob, GeneralJob
<1>6. Erasing' <=> Erasing
  BY <1>1, <1>5 DEF Erasing, HandsInv, FitInv, RegistryInv, CallTypes
<1>7. a = b => /\ ~Erasing /\ table[b] \in {Absent, f} /\ \A g \in Endpoints : blobs[g] = b => g = f
               /\ \A x \in Aliases \ {b} : table[x] # f /\ blobs[f] # x
  <2>1. ASSUME a = b, Erasing PROVE FALSE
    <3>1. PICK d \in ToolTasks : stage[d] # "away" /\ item[d].op = "wipe"
      BY <2>1 DEF Erasing
    <3>2. item[d] \in InCalls(c)
      BY <1>1, <3>1 DEF InCalls
    <3>3. Clash(SaveJob(b, f), item[d])
      BY <1>5, <3>1 DEF Clash
    <3>4. b \in NamesOf(SaveJob(b, f))
      BY <1>5 DEF NamesOf
    <3> QED BY <1>1, <2>1, <3>2, <3>3, <3>4, ClashNamed
  <2>2. a = b => b \notin Moved(b, f)
    BY <1>1
  <2> QED BY <2>1, <2>2 DEF Moved, BlobsOf
<1>8. a # b => (table[a] = f \/ blobs[f] = a => FALSE)
  BY <1>1 DEF Moved
<1>9. /\ table'[b] = f /\ \A x \in Aliases \ {b} : table'[x] = table[x]
  BY <1>1 DEF RegistryInv, DataTypes
<1>10. Absent \notin Endpoints /\ Absent \notin Aliases
  BY RegistryAssumption
<1>11. Settled(a, e)' /\ Unharmed(a, e)'
  <2>1. Own(a, e, SaveJob(b, f)) <=> (a = b /\ e = f)
    BY <1>1, <1>5, OwnFacts
  <2>2. SaveJob(b, f) = SaveJob(a, e) <=> (a = b /\ e = f)
    BY <1>1, <1>5, OwnFacts
  <2>3. Foreign(a, e, SaveJob(b, f)) <=> (a # b /\ e = f)
    BY <1>5 DEF Foreign
  <2>4. CASE a = b /\ e = f
    <3>1. Recorded(a, e)'
      BY <1>6, <1>7, <1>9, <2>4 DEF Recorded
    <3> QED BY <1>1, <1>3, <2>1, <2>2, <2>3, <2>4, <3>1, BeginOrder
  <2>5. CASE ~(a = b /\ e = f)
    <3>1. Recorded(a, e)' <=> Recorded(a, e)
      <4>1. CASE a = b
        BY <1>1, <1>4, <1>6, <1>7, <1>9, <1>10, <2>5, <4>1 DEF Recorded
      <4>2. CASE a # b
        BY <1>1, <1>4, <1>6, <1>9, <4>2 DEF Recorded
      <4> QED BY <4>1, <4>2
    <3>2. Foreign(a, e, SaveJob(b, f)) => ~Recorded(a, e)
      BY <1>8, <2>3 DEF Recorded
    <3> QED BY <1>1, <1>3, <2>1, <2>2, <2>3, <2>5, <3>1, <3>2, BeginOrder
  <2> QED BY <2>4, <2>5
<1>12. Loading(a, e)'
  <2>1. SUFFICES ASSUME LoadIsPending PROVE Loading(a, e)'
    BY <1>4 DEF Loading
  <2>2. /\ blobs[e] = a => table'[a] \in {Absent, e} /\ \A g \in Endpoints : blobs[g] = a => g = e
        /\ blobs[e] = a \/ table'[a] = e => \A x \in Aliases \ {a} : table'[x] # e
    BY <1>3, <1>7, <1>8, <1>9, <1>10, <2>1 DEF Loading
  <2>3. /\ JobPlaces' = JobPlaces /\ \A i \in JobPlaces : At(i)' = At(i)
    BY <1>1 DEF JobPlaces, At
  <2>4. table[a] = e => table'[a] = e
    BY <1>7, <1>9, <1>10
  <2>5. \A i \in JobPlaces : /\ At(i) = SaveJob(a, e) => table'[a] = e
                             /\ At(i) # DeleteJob(a, e)
                             /\ At(i) = WipeJob => Erasing
    BY <1>3, <2>1, <2>4 DEF Loading
  <2>6. ASSUME NEW d \in ToolTasks, NEW j \in {item'[d], spare'[d]}
        PROVE  /\ j = SaveJob(a, e) => table'[a] = e
               /\ j # DeleteJob(a, e)
               /\ j = WipeJob => Erasing
    <3>1. CASE j \in {item[d], spare[d]}
      BY <1>3, <2>1, <2>4, <3>1 DEF Loading
    <3>2. CASE j = SaveJob(b, f)
      BY <1>1, <1>5, <1>9, <3>2, OwnFacts, JobShapes
    <3> QED BY <1>1, <2>6, <3>1, <3>2 DEF RegistryInv, CallTypes
  <2> QED BY <1>1, <1>6, <2>2, <2>3, <2>5, <2>6 DEF Loading, SaveJob, DeleteJob,
      WipeJob, GeneralJob
<1> QED BY <1>11, <1>12

\* remove_device
LEMMA RemoveOrder ==
    ASSUME RegistryInv, HandsInv, JobOrder, NEW c \in ToolTasks, NEW b \in Aliases,
           RemoveDevice(c, b), mixed' \subseteq Aliases
    PROVE  JobOrder'
<1>1. PICK f \in Endpoints : table[b] = f
  BY DEF RemoveDevice, RegistryInv, DataTypes
<1>2. /\ table' = [table EXCEPT ![b] = Absent]
      /\ Begin(c, DeleteJob(b, f), {x \in {b} : LoadIsPending} \union Sharing(b))
      /\ UNCHANGED <<blobs, jobs, hand, spare>> /\ DeleteJob(b, f) \in Jobs
      /\ stage[c] = "away"
      /\ stage' = [stage EXCEPT ![c] = "send"] /\ item' = [item EXCEPT ![c] = DeleteJob(b, f)]
      /\ mixed \union {x \in {b} : LoadIsPending} \union Sharing(b) \subseteq mixed'
      /\ ClashNames(DeleteJob(b, f), InCalls(c)) \subseteq mixed'
  BY <1>1, JobKinds DEF RemoveDevice, Begin, workerVars
<1>3. SUFFICES ASSUME NEW a \in Aliases \ mixed', NEW e \in Endpoints
               PROVE  Settled(a, e)' /\ Unharmed(a, e)' /\ Loading(a, e)'
  BY DEF JobOrder
<1>4. \A g \in Endpoints : Settled(a, g) /\ Unharmed(a, g) /\ Loading(a, g)
  BY <1>2 DEF JobOrder
<1>5. LoadIsPending' <=> LoadIsPending
  BY <1>2, SameLoad
<1>6. /\ DeleteJob(b, f).op = "delete" /\ DeleteJob(b, f).name = b /\ DeleteJob(b, f).end = f
      /\ NoJob.op = "none"
  BY DEF DeleteJob, NoJob, GeneralJob
<1>7. Erasing' <=> Erasing
  BY <1>2, <1>6 DEF Erasing, HandsInv, FitInv, RegistryInv, CallTypes
<1>8. a = b => ~Erasing /\ ~LoadIsPending
  <2>1. ASSUME a = b, Erasing PROVE FALSE
    <3>1. PICK d \in ToolTasks : stage[d] # "away" /\ item[d].op = "wipe"
      BY <2>1 DEF Erasing
    <3>2. item[d] \in InCalls(c)
      BY <1>2, <3>1 DEF InCalls
    <3>3. Clash(DeleteJob(b, f), item[d])
      BY <1>6, <3>1 DEF Clash
    <3>4. b \in NamesOf(DeleteJob(b, f))
      BY <1>6 DEF NamesOf
    <3> QED BY <1>2, <2>1, <3>2, <3>3, <3>4, ClashNamed
  <2> QED BY <1>2, <2>1
<1>9. a # b => table[a] # f /\ ~(LoadIsPending /\ blobs[f] = a)
  BY <1>1, <1>2, <1>4 DEF Sharing, Loading
<1>10. /\ table'[b] = Absent /\ \A x \in Aliases \ {b} : table'[x] = table[x]
  BY <1>2 DEF RegistryInv, DataTypes
<1>11. Absent \notin Endpoints /\ Absent \notin Aliases
  BY RegistryAssumption
<1>12. Settled(a, e)' /\ Unharmed(a, e)'
  <2>1. /\ Own(a, e, DeleteJob(b, f)) <=> (a = b /\ e = f)
        /\ DeleteJob(b, f) # SaveJob(a, e)
    BY <1>2, <1>6, OwnFacts
  <2>2. Foreign(a, e, DeleteJob(b, f)) <=> (a # b /\ e = f)
    BY <1>6 DEF Foreign
  <2>3. a = b => ~Recorded(a, e)' /\ (e # f => ~Recorded(a, e))
    BY <1>1, <1>5, <1>8, <1>10, <1>11 DEF Recorded
  <2>4. a # b => (Recorded(a, e)' <=> Recorded(a, e)) /\ ~Recorded(a, f)
    BY <1>2, <1>5, <1>7, <1>9, <1>10 DEF Recorded
  <2> QED BY <1>2, <1>4, <2>1, <2>2, <2>3, <2>4, BeginOrder
<1>13. Loading(a, e)'
  <2>1. SUFFICES ASSUME LoadIsPending, a # b PROVE Loading(a, e)'
    BY <1>5, <1>8 DEF Loading
  <2>2. /\ blobs[e] = a => table'[a] \in {Absent, e} /\ \A g \in Endpoints : blobs[g] = a => g = e
        /\ blobs[e] = a \/ table'[a] = e => \A x \in Aliases \ {a} : table'[x] # e
    BY <1>4, <1>10, <1>11, <2>1 DEF Loading
  <2>3. JobPlaces' = JobPlaces /\ \A i \in JobPlaces : At(i)' = At(i)
    BY <1>2 DEF JobPlaces, At
  <2>4. ASSUME NEW d \in ToolTasks, NEW j \in {item'[d], spare'[d]}
        PROVE  /\ j = SaveJob(a, e) => table'[a] = e
               /\ j # DeleteJob(a, e)
               /\ j = WipeJob => Erasing
    <3>1. CASE j \in {item[d], spare[d]}
      BY <1>4, <1>10, <2>1, <3>1 DEF Loading
    <3>2. CASE j = DeleteJob(b, f)
      BY <1>2, <1>6, <2>1, <3>2, OwnFacts, JobShapes
    <3> QED BY <1>2, <2>4, <3>1, <3>2 DEF RegistryInv, CallTypes
  <2> QED
    BY <1>2, <1>4, <1>7, <1>10, <2>1, <2>2, <2>3, <2>4
    DEF Loading, SaveJob, DeleteJob, WipeJob, GeneralJob
<1> QED BY <1>12, <1>13

\* erase_all_data
LEMMA EraseOrder ==
    ASSUME RegistryInv, HandsInv, JobOrder, NEW c \in ToolTasks, EraseAll(c), mixed' \subseteq Aliases
    PROVE  JobOrder'
<1>1. /\ UNCHANGED <<table, blobs, jobs, hand, spare>> /\ WipeJob \in Jobs
      /\ Begin(c, WipeJob, {}) /\ stage[c] = "away"
      /\ stage' = [stage EXCEPT ![c] = "send"] /\ item' = [item EXCEPT ![c] = WipeJob]
      /\ mixed \subseteq mixed'
  BY JobKinds DEF EraseAll, Begin, workerVars, WipeJob
<1>2. SUFFICES ASSUME NEW a \in Aliases \ mixed', NEW e \in Endpoints
               PROVE  Settled(a, e)' /\ Unharmed(a, e)' /\ Loading(a, e)'
  BY DEF JobOrder
<1>3. Settled(a, e) /\ Unharmed(a, e) /\ Loading(a, e)
  BY <1>1 DEF JobOrder
<1>4. LoadIsPending' <=> LoadIsPending
  BY <1>1, SameLoad
<1>5. WipeJob.op = "wipe"
  BY DEF WipeJob, GeneralJob
<1>6. Erasing'
  BY <1>1, <1>5 DEF Erasing, RegistryInv, CallTypes
<1>7. Settled(a, e)' /\ Unharmed(a, e)'
  <2>1. Own(a, e, WipeJob) /\ WipeJob # SaveJob(a, e) /\ ~Foreign(a, e, WipeJob)
    BY <1>1, <1>5, OwnFacts
  <2>2. ~Recorded(a, e)'
    BY <1>6 DEF Recorded
  <2> QED BY <1>1, <1>3, <2>1, <2>2, BeginOrder
<1>8. Loading(a, e)'
  <2>1. SUFFICES ASSUME LoadIsPending PROVE Loading(a, e)'
    BY <1>4 DEF Loading
  <2>2. JobPlaces' = JobPlaces /\ \A i \in JobPlaces : At(i)' = At(i)
    BY <1>1 DEF JobPlaces, At
  <2>3. ASSUME NEW d \in ToolTasks, NEW j \in {item'[d], spare'[d]}
        PROVE  /\ j = SaveJob(a, e) => table[a] = e
               /\ j # DeleteJob(a, e)
    <3>1. CASE j \in {item[d], spare[d]}
      BY <1>3, <2>1, <3>1 DEF Loading
    <3>2. CASE j = WipeJob
      BY <1>1, <1>5, <3>2, OwnFacts
    <3> QED BY <1>1, <2>3, <3>1, <3>2 DEF RegistryInv, CallTypes
  <2> QED BY <1>1, <1>3, <1>6, <2>1, <2>2, <2>3 DEF Loading, SaveJob, DeleteJob,
      WipeJob, GeneralJob
<1> QED BY <1>7, <1>8

\* The table is emptied: what is registered is what was left after the erasure.
LEMMA EmptyTableOrder ==
    ASSUME RegistryInv, HandsInv, JobOrder, NEW c \in ToolTasks, EmptyTable(c), mixed' \subseteq Aliases
    PROVE  JobOrder'
<1>1. /\ UNCHANGED <<blobs, jobs, hand, spare>> /\ stage[c] = "clear" /\ table' = NoTable
      /\ stage' = [stage EXCEPT ![c] = "away"] /\ item' = [item EXCEPT ![c] = NoJob]
      /\ mixed \subseteq mixed' /\ (LoadIsPending => mixed' = Aliases)
  BY DEF EmptyTable, workerVars, RegistryInv, DataTypes
<1>2. SUFFICES ASSUME NEW a \in Aliases \ mixed', NEW e \in Endpoints
               PROVE  Settled(a, e)' /\ Unharmed(a, e)' /\ Loading(a, e)'
  BY DEF JobOrder
<1>3. Settled(a, e) /\ Unharmed(a, e) /\ ~LoadIsPending
  BY <1>1 DEF JobOrder
<1>4. ~LoadIsPending'
  BY <1>1, <1>3, SameLoad
<1>5. ~Recorded(a, e) /\ ~Recorded(a, e)'
  <2>1. Erasing
    BY <1>1 DEF Erasing, HandsInv, FitInv
  <2>2. table'[a] # e
    BY <1>1, RegistryAssumption DEF NoTable
  <2> QED BY <1>4, <2>1, <2>2 DEF Recorded
<1>6. \A d \in ToolTasks : /\ HasItem(d)' <=> HasItem(d)
                           /\ HasSpare(d)' <=> HasSpare(d)
                           /\ HasItem(d) => item'[d] = item[d]
  BY <1>1 DEF RegistryInv, CallTypes, HasItem, HasSpare
<1>7. /\ \A d \in ToolTasks : /\ OwnItem(a, e, d)' <=> OwnItem(a, e, d)
                              /\ OwnSpare(a, e, d)' <=> OwnSpare(a, e, d)
      /\ InHands(a, e)' <=> InHands(a, e)
  BY <1>1, <1>6 DEF InHands, OwnItem, OwnSpare, Own, SaveJob, DeleteJob, WipeJob, GeneralJob
<1>8. /\ JobPlaces' = JobPlaces /\ \A i \in JobPlaces : At(i)' = At(i)
      /\ \A i : There(a, e, i)' <=> There(a, e, i)
      /\ \A i : Later(a, e, i)' <=> Later(a, e, i)
      /\ AtEnd(a, e)' <=> AtEnd(a, e)
  BY <1>1 DEF There, AtEnd, Later, JobPlaces, At, Own, SaveJob, DeleteJob, WipeJob,
    GeneralJob
<1>9. Settled(a, e)'
  BY <1>1, <1>3, <1>5, <1>6, <1>7, <1>8 DEF Settled, OwnItem, SaveJob
<1>10. Unharmed(a, e)'
  BY <1>1, <1>3, <1>6, <1>7, <1>8 DEF Unharmed, SaveJob, Foreign
<1> QED BY <1>4, <1>9, <1>10 DEF Loading

-----------------------------------------------------------------------------
(* Jobs put into the queue and taken out of it *)

\* What is registered depends on four things only.
LEMMA SameRegistered ==
    ASSUME UNCHANGED <<table, blobs>>, Erasing' <=> Erasing, LoadIsPending' <=> LoadIsPending,
           NEW a, NEW e
    PROVE  Recorded(a, e)' <=> Recorded(a, e)
  BY DEF Recorded

\* Jobs that the step finds, or that say nothing of the table.
Known == {At(i) : i \in JobPlaces} \union {item[d] : d \in ToolTasks} \union {spare[d] : d \in ToolTasks}
         \union {NoJob} \union {ProfileJob(e) : e \in Endpoints}

\* Before the load the jobs go on to agree with the table when no new one comes.
LEMMA LoadingKept ==
    ASSUME NEW a \in Aliases, NEW e \in Endpoints, Loading(a, e), UNCHANGED <<table, blobs>>,
           Erasing' <=> Erasing, LoadIsPending' <=> LoadIsPending,
           \A i \in JobPlaces' : At(i)' \in Known,
           \A d \in ToolTasks : item'[d] \in Known /\ spare'[d] \in Known
    PROVE  Loading(a, e)'
<1>1. SUFFICES ASSUME LoadIsPending PROVE Loading(a, e)'
  BY DEF Loading
<1>2. ASSUME NEW j \in Known
      PROVE  /\ j = SaveJob(a, e) => table[a] = e
             /\ j # DeleteJob(a, e)
             /\ j = WipeJob => Erasing
  <2>1. CASE j \in {At(i) : i \in JobPlaces}
    BY <1>1, <2>1 DEF Loading
  <2>2. CASE j \in {item[d] : d \in ToolTasks} \union {spare[d] : d \in ToolTasks}
    BY <1>1, <2>2 DEF Loading
  <2>3. CASE j = NoJob \/ j \in {ProfileJob(g) : g \in Endpoints}
    BY <2>3 DEF NoJob, ProfileJob, GeneralJob, SaveJob, DeleteJob, WipeJob
  <2> QED BY <1>2, <2>1, <2>2, <2>3 DEF Known
<1>3. \A i \in JobPlaces' : /\ At(i)' = SaveJob(a, e) => table[a] = e
                            /\ At(i)' # DeleteJob(a, e)
                            /\ At(i)' = WipeJob => Erasing
  BY <1>2
<1>4. \A d \in ToolTasks : \A j \in {item'[d], spare'[d]} :
          /\ j = SaveJob(a, e) => table[a] = e
          /\ j # DeleteJob(a, e)
          /\ j = WipeJob => Erasing
  BY <1>2
<1> QED BY <1>1, <1>3, <1>4 DEF Loading, SaveJob, DeleteJob, WipeJob, GeneralJob

\* A job from the hands of call c is put at the end.
LEMMA AppendOrder ==
    ASSUME RegistryInv, HandsInv, NEW a \in Aliases \ mixed, NEW e \in Endpoints,
           Settled(a, e), Unharmed(a, e), Recorded(a, e)' <=> Recorded(a, e),
           NEW j \in Jobs, jobs' = Append(jobs, j), UNCHANGED <<blobs, hand>>,
           NEW c \in ToolTasks,
           \A d \in ToolTasks \ {c} : /\ stage'[d] = stage[d] /\ item'[d] = item[d]
                                      /\ spare'[d] = spare[d],
           IF HasSpare(c) THEN j = spare[c] ELSE HasItem(c) /\ j = item[c],
           ~HasSpare(c)', HasItem(c)' <=> HasItem(c) /\ HasSpare(c),
           HasItem(c)' => item'[c] = item[c]
    PROVE  Settled(a, e)' /\ Unharmed(a, e)'
<1>1. PICK n : n = Len(jobs) + 1
  OBVIOUS
<1>2. /\ n \in Nat /\ Len(jobs') = n /\ JobPlaces = 0..n-1 /\ JobPlaces' = 0..n
      /\ \A i \in 0..n-1 : At(i)' = At(i)
      /\ At(n)' = j
  BY <1>1, AppendPlaces
<1>3. /\ \A i \in 0..n : There(a, e, i)' <=> There(a, e, i)
      /\ \A i \in 0..n-1 : Later(a, e, i)' <=> Later(a, e, i) \/ Own(a, e, j)
      /\ Own(a, e, j) => (AtEnd(a, e)' <=> j = SaveJob(a, e))
      /\ ~Own(a, e, j) => (AtEnd(a, e)' <=> AtEnd(a, e))
      /\ AtEnd(a, e) <=> There(a, e, n)
  BY <1>1, <1>2, AppendThere DEF AtEnd
<1>4. Own(a, e, j) => \A d \in ToolTasks \ {c} :
          /\ ~Own(a, e, item[d]) /\ ~Own(a, e, spare[d])
          /\ ~Foreign(a, e, item[d]) /\ ~Foreign(a, e, spare[d])
  BY HandsApart DEF HandsInv, RegistryInv
<1>5. Own(a, e, j) => ~Foreign(a, e, j)
  BY OwnFacts
<1>6. /\ \A d \in ToolTasks \ {c} : /\ OwnItem(a, e, d)' <=> OwnItem(a, e, d)
                                    /\ OwnSpare(a, e, d)' <=> OwnSpare(a, e, d)
                                    /\ HasItem(d)' <=> HasItem(d)
                                    /\ HasSpare(d)' <=> HasSpare(d)
      /\ OwnItem(a, e, c)' <=> OwnItem(a, e, c) /\ HasSpare(c)
      /\ ~OwnSpare(a, e, c)'
  BY DEF OwnItem, OwnSpare, HasItem, HasSpare, Own, SaveJob, DeleteJob, WipeJob, GeneralJob
<1>7. /\ ~Own(a, e, j) => (InHands(a, e)' <=> InHands(a, e))
      /\ Own(a, e, j) => (InHands(a, e)' <=> OwnItem(a, e, c) /\ HasSpare(c))
  BY <1>4, <1>6 DEF InHands, OwnItem, OwnSpare
<1>8. Settled(a, e)'
  <2>1. ~InHands(a, e)' => (AtEnd(a, e)' <=> Recorded(a, e)')
    BY <1>3, <1>6, <1>7 DEF Settled, OwnItem, OwnSpare
  <2>2. ASSUME NEW d \in ToolTasks
        PROVE  /\ OwnItem(a, e, d)' => (item'[d] = SaveJob(a, e) <=> Recorded(a, e)')
               /\ OwnSpare(a, e, d)' /\ ~OwnItem(a, e, d)'
                      => (spare'[d] = SaveJob(a, e) <=> Recorded(a, e)')
    BY <1>6, <2>2 DEF Settled, OwnItem
  <2> QED BY <2>1, <2>2 DEF Settled, SaveJob
<1>9. Unharmed(a, e)'
  <2>1. ASSUME NEW i \in 0..n, Foreign(a, e, At(i)')
        PROVE  ~There(a, e, i)' \/ Later(a, e, i)' \/ InHands(a, e)'
    <3>1. CASE i # n
      BY <1>2, <1>3, <1>7, <2>1, <3>1 DEF Unharmed
    <3>2. CASE i = n
      <4>1. Foreign(a, e, j) /\ ~Own(a, e, j)
        BY <1>2, <1>5, <2>1, <3>2
      <4>2. ~AtEnd(a, e) \/ OwnItem(a, e, c)
        BY <4>1 DEF Unharmed, OwnSpare
      <4> QED BY <1>2, <1>3, <1>7, <3>2, <4>1, <4>2 DEF InHands
    <3> QED BY <3>1, <3>2
  <2>2. ASSUME NEW d \in ToolTasks \ {c}
        PROVE  /\ HasSpare(d)' /\ Foreign(a, e, spare'[d]) => ~AtEnd(a, e)' \/ OwnItem(a, e, d)'
               /\ HasItem(d)' /\ Foreign(a, e, item'[d]) =>
                     IF OwnSpare(a, e, d)' THEN spare'[d] # SaveJob(a, e) ELSE ~AtEnd(a, e)'
    BY <1>3, <1>4, <1>6, <2>2 DEF Unharmed
  <2>3. HasItem(c)' /\ Foreign(a, e, item'[c]) => ~AtEnd(a, e)'
    BY <1>3 DEF Unharmed, OwnSpare
  <2> QED BY <1>2, <1>6, <2>1, <2>2, <2>3 DEF Unharmed, Foreign, SaveJob
<1> QED BY <1>8, <1>9

\* The load of the boot waits as it did, whoever holds it.
LEMMA AppendLoad ==
    ASSUME RegistryInv, NEW j, jobs' = Append(jobs, j), UNCHANGED hand, NEW c \in ToolTasks,
           \A d \in ToolTasks \ {c} : spare'[d] = spare[d],
           spare'[c] # LoadJob, j = LoadJob <=> spare[c] = LoadJob
    PROVE  LoadIsPending' <=> LoadIsPending
<1>1. PICK n : n = Len(jobs) + 1
  OBVIOUS
<1> DEFINE p(i) == At(i)'
<1>2. /\ n \in Nat /\ JobPlaces = 0..n-1 /\ JobPlaces' = 0..n
      /\ \A i \in 0..n-1 : p(i) = At(i)
      /\ p(n) = j
  BY <1>1, AppendPlaces
<1>3. LoadIsPending <=> \/ \E i \in 0..n-1 : At(i) = LoadJob
                        \/ \E d \in ToolTasks : spare[d] = LoadJob
  BY <1>2, PlaceFacts
<1>4. Queued(jobs') = Queued(jobs) \union {j}
  BY DEF Queued, RegistryInv, QueueTypes
<1>5. LoadIsPending' <=> \/ LoadJob \in Queued(jobs) \union {hand} \union {j}
                         \/ \E d \in ToolTasks : spare'[d] = LoadJob
  BY <1>4 DEF LoadIsPending, LoadJob, GeneralJob, Queued
<1> QED BY <1>5 DEF LoadIsPending, LoadJob, GeneralJob

\* The same when the first job goes from the queue into a call's hand.
LEMMA TailLoad ==
    ASSUME RegistryInv, jobs # <<>>, jobs' = Tail(jobs), UNCHANGED hand, NEW c \in ToolTasks,
           \A d \in ToolTasks \ {c} : spare'[d] = spare[d],
           spare[c] # LoadJob, Head(jobs) = LoadJob <=> spare'[c] = LoadJob
    PROVE  LoadIsPending' <=> LoadIsPending
<1>1. Queued(jobs) = {Head(jobs)} \union Queued(jobs')
  <2>1. jobs \in Seq(Jobs) /\ Len(jobs) \in Nat \ {0} /\ Len(jobs') = Len(jobs) - 1
    BY DEF RegistryInv, QueueTypes
  <2>2. Head(jobs) = jobs[1] /\ \A i \in 1..Len(jobs) - 1 : jobs'[i] = jobs[i + 1]
    BY <2>1
  <2>3. \A i \in 2..Len(jobs) : i - 1 \in 1..Len(jobs') /\ jobs'[i - 1] = jobs[i]
    BY <2>1, <2>2
  <2>4. ASSUME NEW j PROVE j \in Queued(jobs) <=> j = Head(jobs) \/ j \in Queued(jobs')
    <3>1. ASSUME j \in Queued(jobs) PROVE j = Head(jobs) \/ j \in Queued(jobs')
      <4>1. PICK i \in 1..Len(jobs) : j = jobs[i]
        BY <3>1 DEF Queued
      <4>2. CASE i = 1
        BY <2>2, <4>1, <4>2
      <4>3. CASE i # 1
        <5>1. i \in 2..Len(jobs)
          BY <2>1, <4>1, <4>3
        <5> QED BY <2>3, <4>1, <5>1 DEF Queued
      <4> QED BY <4>2, <4>3
    <3>2. ASSUME j = Head(jobs) \/ j \in Queued(jobs') PROVE j \in Queued(jobs)
      <4>1. \A i \in 1..Len(jobs') : i + 1 \in 1..Len(jobs) /\ jobs'[i] = jobs[i + 1]
        BY <2>1, <2>2
      <4>2. 1 \in 1..Len(jobs)
        BY <2>1
      <4> QED BY <2>2, <3>2, <4>1, <4>2 DEF Queued
    <3> QED BY <3>1, <3>2
  <2> QED BY <2>4
<1>2. LoadIsPending' <=> \/ LoadJob \in Queued(jobs') \union {hand}
                         \/ \E d \in ToolTasks : spare'[d] = LoadJob
  BY DEF LoadIsPending, LoadJob, GeneralJob, Queued
<1> QED BY <1>1, <1>2 DEF LoadIsPending, LoadJob, GeneralJob

\* Calls that give up nothing of the alias's own, the queue as it was.
LEMMA DropOrder ==
    ASSUME UNCHANGED <<blobs, jobs, hand>>, NEW a \in Aliases, NEW e \in Endpoints,
           Recorded(a, e)' <=> Recorded(a, e), Settled(a, e), Unharmed(a, e),
           \A d \in ToolTasks :
               /\ OwnItem(a, e, d)' <=> OwnItem(a, e, d)
               /\ OwnSpare(a, e, d)' <=> OwnSpare(a, e, d)
               /\ HasItem(d)' /\ (Own(a, e, item'[d]) \/ Foreign(a, e, item'[d]))
                      => HasItem(d) /\ item'[d] = item[d]
               /\ HasSpare(d)' /\ (Own(a, e, spare'[d]) \/ Foreign(a, e, spare'[d]))
                      => HasSpare(d) /\ spare'[d] = spare[d]
    PROVE  Settled(a, e)' /\ Unharmed(a, e)'
<1>1. /\ JobPlaces' = JobPlaces /\ \A i \in JobPlaces : At(i)' = At(i)
      /\ \A i : There(a, e, i)' <=> There(a, e, i)
      /\ \A i : Later(a, e, i)' <=> Later(a, e, i)
      /\ AtEnd(a, e)' <=> AtEnd(a, e)
      /\ InHands(a, e)' <=> InHands(a, e)
  BY DEF There, AtEnd, Later, JobPlaces, At, InHands, Own, SaveJob, DeleteJob, WipeJob,
    GeneralJob
<1>2. \A d \in ToolTasks :
          /\ OwnItem(a, e, d)' => item'[d] = item[d]
          /\ OwnSpare(a, e, d)' => spare'[d] = spare[d]
  BY DEF OwnItem, OwnSpare, Own, SaveJob, DeleteJob, WipeJob, GeneralJob
<1>3. Settled(a, e)'
  BY <1>1, <1>2 DEF Settled, SaveJob
<1>4. Unharmed(a, e)'
  BY <1>1, <1>2 DEF Unharmed, SaveJob, Foreign
<1> QED BY <1>3, <1>4

\* The aliases that are left out stay aliases.
LEMMA MixedTypes == ASSUME RegistryInv, UNCHANGED mixed PROVE mixed' \subseteq Aliases
  BY DEF RegistryInv, DataTypes

\* What call c posts or puts back goes to the end of the queue.
LEMMA PostedOrder ==
    ASSUME RegistryInv, HandsInv, JobOrder, NEW c \in ToolTasks, stage[c] # "away",
           UNCHANGED <<table, blobs, mixed, hand, item>>, NEW j \in Jobs, jobs' = Append(jobs, j),
           NEW s \in {"ensure", "turn"}, stage' = [stage EXCEPT ![c] = s],
           spare' = [spare EXCEPT ![c] = NoJob],
           \/ stage[c] = "send" /\ s = "ensure" /\ j = item[c]
           \/ stage[c] = "put_back" /\ s = "turn" /\ j = spare[c]
           \/ stage[c] = "replace" /\ s = "ensure" /\ j = spare[c]
    PROVE  JobOrder'
<1>1. SUFFICES ASSUME NEW a \in Aliases \ mixed, NEW e \in Endpoints
               PROVE  Settled(a, e)' /\ Unharmed(a, e)' /\ Loading(a, e)'
  BY DEF JobOrder
<1>2. Settled(a, e) /\ Unharmed(a, e) /\ Loading(a, e)
  BY DEF JobOrder
<1>3. /\ stage'[c] = s /\ spare'[c] = NoJob
      /\ \A d \in ToolTasks \ {c} : stage'[d] = stage[d] /\ spare'[d] = spare[d]
  BY DEF RegistryInv, CallTypes
<1>4. Erasing' <=> Erasing
  BY <1>3 DEF Erasing
<1>5. NoJob # LoadJob /\ item[c] # LoadJob /\ (stage[c] = "send" => spare[c] = NoJob)
  BY DEF HandsInv, FitInv, HasSpare, NoJob, LoadJob, GeneralJob
<1>6. LoadIsPending' <=> LoadIsPending
  BY <1>3, <1>5, AppendLoad DEF HandsInv, FitInv
<1>7. Recorded(a, e)' <=> Recorded(a, e)
  BY <1>4, <1>6, SameRegistered
<1>8. Settled(a, e)' /\ Unharmed(a, e)'
  BY <1>2, <1>3, <1>7, AppendOrder DEF HasItem, HasSpare
<1>9. Loading(a, e)'
  <2>1. PICK n : n = Len(jobs) + 1
    OBVIOUS
  <2> DEFINE p(i) == At(i)'
  <2>2. /\ n \in Nat /\ JobPlaces = 0..n-1 /\ JobPlaces' = 0..n
        /\ \A i \in 0..n-1 : p(i) = At(i)
        /\ p(n) = j
    BY <2>1, AppendPlaces
  <2>3. j \in Known /\ NoJob \in Known
    BY DEF Known
  <2>4. \A i \in JobPlaces' : p(i) \in Known
    BY <2>2, <2>3 DEF Known
  <2>5. \A d \in ToolTasks : item'[d] \in Known /\ spare'[d] \in Known
    BY <1>3, <2>3 DEF Known
  <2> QED BY <1>2, <1>4, <1>6, <2>4, <2>5, LoadingKept
<1> QED BY <1>8, <1>9

\* What call c gives up, the queue as it was, is not the alias's own.
LEMMA HandsOrder ==
    ASSUME RegistryInv, HandsInv, JobOrder, NEW c \in ToolTasks, stage[c] # "away",
           UNCHANGED <<table, blobs, jobs, hand>>, mixed \subseteq mixed', mixed' \subseteq Aliases,
           NEW s \in Stages, stage' = [stage EXCEPT ![c] = s],
           NEW x \in {item[c], NoJob, ProfileJob(item[c].end)}, item' = [item EXCEPT ![c] = x],
           spare' = [spare EXCEPT ![c] = NoJob], s \notin {"put_back", "replace"},
           item[c].op = "wipe" <=> x.op = "wipe" /\ s # "away",
           s \in {"send", "turn"} => x = ProfileJob(item[c].end) \/ (HasItem(c) /\ x = item[c]),
           \A a \in Aliases \ mixed', e \in Endpoints :
               /\ ~OwnSpare(a, e, c)
               /\ OwnItem(a, e, c) => s \in {"send", "turn"} /\ x = item[c],
           spare[c] = LoadJob => mixed' = Aliases,
           item[c].op # "none"
    PROVE  JobOrder'
<1>1. SUFFICES ASSUME NEW a \in Aliases \ mixed', NEW e \in Endpoints
               PROVE  Settled(a, e)' /\ Unharmed(a, e)' /\ Loading(a, e)'
  BY DEF JobOrder
<1>2. Settled(a, e) /\ Unharmed(a, e) /\ Loading(a, e) /\ spare[c] # LoadJob
  BY DEF JobOrder
<1>3. /\ stage'[c] = s /\ item'[c] = x /\ spare'[c] = NoJob
      /\ \A d \in ToolTasks \ {c} : /\ stage'[d] = stage[d] /\ item'[d] = item[d]
                                    /\ spare'[d] = spare[d]
  BY DEF RegistryInv, CallTypes
<1>4. Erasing' <=> Erasing
  BY <1>3 DEF Erasing
<1>5. LoadIsPending' <=> LoadIsPending
  <2>1. NoJob # LoadJob
    BY DEF NoJob, LoadJob, GeneralJob
  <2> QED BY <1>2, <1>3, <2>1, SameLoad
<1>6. Recorded(a, e)' <=> Recorded(a, e)
  BY <1>4, <1>5, SameRegistered
<1>7. Settled(a, e)' /\ Unharmed(a, e)'
  <2>1. ~Own(a, e, ProfileJob(item[c].end)) /\ ~Foreign(a, e, ProfileJob(item[c].end))
    BY DEF Own, Foreign, ProfileJob, SaveJob, DeleteJob, WipeJob, GeneralJob
  <2>2. \A d \in ToolTasks \ {c} : /\ HasItem(d)' <=> HasItem(d)
                                   /\ HasSpare(d)' <=> HasSpare(d)
                                   /\ OwnItem(a, e, d)' <=> OwnItem(a, e, d)
                                   /\ OwnSpare(a, e, d)' <=> OwnSpare(a, e, d)
    BY <1>3 DEF HasItem, HasSpare, OwnItem, OwnSpare, Own, SaveJob, DeleteJob, WipeJob,
      GeneralJob
  <2>3. /\ ~HasSpare(c)' /\ ~OwnSpare(a, e, c)' /\ ~OwnSpare(a, e, c)
        /\ HasItem(c)' <=> s \in {"send", "turn"}
    BY <1>3 DEF HasSpare, HasItem, OwnSpare
  <2>4. OwnItem(a, e, c)' <=> HasItem(c)' /\ Own(a, e, x)
    BY <1>3 DEF OwnItem, Own, SaveJob, DeleteJob, WipeJob, GeneralJob
  <2>5. OwnItem(a, e, c)' <=> OwnItem(a, e, c)
    BY <2>1, <2>3, <2>4 DEF OwnItem
  <2>6. HasItem(c)' /\ (Own(a, e, x) \/ Foreign(a, e, x)) => HasItem(c) /\ x = item[c]
    BY <2>1, <2>3
  <2> QED BY <1>2, <1>3, <1>6, <2>2, <2>3, <2>5, <2>6, DropOrder
<1>8. Loading(a, e)'
  <2>1. /\ JobPlaces' = JobPlaces /\ \A i \in JobPlaces : At(i)' = At(i)
    BY DEF JobPlaces, At
  <2>2. x \in Known /\ NoJob \in Known
    <3>1. CASE item[c].op \in {"save", "delete", "profile"}
      <4>1. item[c].end \in Endpoints
        BY <3>1, JobShapes DEF RegistryInv, CallTypes
      <4> QED BY <4>1 DEF Known
    <3>2. CASE item[c].op = "wipe"
      <4>1. x = item[c] \/ x = NoJob
        BY <3>2 DEF ProfileJob
      <4> QED BY <4>1 DEF Known
    <3> QED BY <3>1, <3>2, JobShapes DEF RegistryInv, CallTypes, HandsInv, FitInv
  <2>3. \A i \in JobPlaces' : At(i)' \in Known
    BY <2>1 DEF Known
  <2>4. \A d \in ToolTasks : item'[d] \in Known /\ spare'[d] \in Known
    BY <1>3, <2>2 DEF Known
  <2> QED BY <1>2, <1>4, <1>5, <2>3, <2>4, LoadingKept
<1> QED BY <1>7, <1>8

\* A call posts its job, or finds the queue full.
LEMMA PostJobOrder ==
    ASSUME RegistryInv, HandsInv, JobOrder, NEW c \in ToolTasks, PostJob(c)
    PROVE  JobOrder'
<1>1. /\ stage[c] = "send" /\ item[c] \in Jobs /\ spare[c] = NoJob
      /\ spare' = [spare EXCEPT ![c] = NoJob]
      /\ UNCHANGED <<table, blobs, mixed, hand, item>>
  BY DEF PostJob, workerVars, RegistryInv, CallTypes, HandsFull, HandsInv, FitInv, HasSpare
<1>2. CASE HasRoom
  BY <1>1, <1>2, PostedOrder DEF PostJob
<1>3. CASE ~HasRoom
  <2>1. stage' = [stage EXCEPT ![c] = "turn"] /\ UNCHANGED jobs
    BY <1>3 DEF PostJob
  <2>2. item' = [item EXCEPT ![c] = item[c]] /\ item[c].op # "none"
    BY <1>1, JobKinds, JobShapes DEF RegistryInv, CallTypes
  <2>3. "turn" \in Stages /\ HasItem(c) /\ ~HasSpare(c) /\ NoJob # LoadJob
    BY <1>1 DEF Stages, HasItem, HasSpare, NoJob, LoadJob, GeneralJob
  <2>4. mixed' \subseteq Aliases
    BY <1>1, MixedTypes
  <2> QED BY <1>1, <2>1, <2>2, <2>3, <2>4, HandsOrder DEF OwnSpare
<1> QED BY <1>2, <1>3

\* A job taken out is put back or posted, or lost to another call's job.
LEMMA PutBackOrder ==
    ASSUME RegistryInv, HandsInv, JobOrder, NEW c \in ToolTasks, PutBack(c) \/ Replace(c),
           mixed' \subseteq Aliases
    PROVE  JobOrder'
<1>1. /\ stage[c] \in {"put_back", "replace"} /\ item[c] \in Jobs /\ spare[c] \in Jobs
      /\ spare' = [spare EXCEPT ![c] = NoJob]
      /\ UNCHANGED <<table, blobs, hand, item>>
  BY DEF PutBack, Replace, workerVars, RegistryInv, HandsFull
<1>2. CASE HasRoom
  <2>1. /\ jobs' = Append(jobs, spare[c]) /\ UNCHANGED mixed
        /\ \/ stage[c] = "put_back" /\ stage' = [stage EXCEPT ![c] = "turn"]
           \/ stage[c] = "replace" /\ stage' = [stage EXCEPT ![c] = "ensure"]
    BY <1>2 DEF PutBack, Replace
  <2> QED BY <1>1, <2>1, PostedOrder
<1>3. CASE ~HasRoom
  <2>1. /\ stage[c] = "put_back" /\ stage' = [stage EXCEPT ![c] = "turn"]
        /\ mixed' = mixed \union NamesOf(spare[c]) /\ UNCHANGED jobs
    BY <1>3 DEF PutBack, Replace
  <2>2. item' = [item EXCEPT ![c] = item[c]] /\ item[c].op # "none"
    BY <1>1, JobKinds, JobShapes DEF RegistryInv, CallTypes
  <2>3. "turn" \in Stages /\ HasItem(c)
    BY <2>1 DEF Stages, HasItem
  <2>4. \A a \in Aliases \ mixed', e \in Endpoints : ~OwnSpare(a, e, c)
    BY <1>1, <2>1, OwnFacts DEF OwnSpare
  <2>5. spare[c] = LoadJob => mixed' = Aliases
    BY <2>1 DEF NamesOf, LoadJob, GeneralJob, RegistryInv, DataTypes
  <2> QED BY <1>1, <2>1, <2>2, <2>3, <2>4, <2>5, HandsOrder
<1> QED BY <1>2, <1>3

\* A job that is rejected is the alias's own no longer; one that is posted was
\* put into the queue before.
LEMMA GoesOnOrder ==
    ASSUME RegistryInv, HandsInv, JobOrder, NEW c \in ToolTasks, Reject(c) \/ Ensure(c),
           mixed' \subseteq Aliases
    PROVE  JobOrder'
<1>1. /\ stage[c] \in {"turn", "replace", "ensure"} /\ item[c] \in Jobs /\ GoesOn(c)
      /\ UNCHANGED <<table, blobs, jobs, hand>> /\ mixed \subseteq mixed'
  BY DEF Reject, Ensure, workerVars, RegistryInv, HandsFull
<1>2. item[c].op # "none"
  BY <1>1, JobKinds, JobShapes
<1>3. PICK s \in {"send", "clear", "away"}, x \in Jobs \union {NoJob} :
        /\ stage' = [stage EXCEPT ![c] = s] /\ item' = [item EXCEPT ![c] = x]
        /\ spare' = [spare EXCEPT ![c] = NoJob]
        /\ s = "clear" <=> item[c].op = "wipe"
        /\ s = "clear" => x = item[c]
        /\ s = "send" => x = ProfileJob(item[c].end)
        /\ s = "away" => x = NoJob
  BY <1>1, GoesOnHands, Zenon DEF RegistryInv, HandsInv
<1>4. /\ ProfileJob(item[c].end).op # "wipe" /\ NoJob.op # "wipe"
      /\ s \in Stages
  BY DEF ProfileJob, NoJob, GeneralJob, Stages
<1>5. /\ x \in {item[c], NoJob, ProfileJob(item[c].end)}
      /\ item[c].op = "wipe" <=> x.op = "wipe" /\ s # "away"
  BY <1>3, <1>4
<1>6. /\ stage[c] = "replace" => spare[c] = item[c]
      /\ stage[c] # "replace" => spare[c] = NoJob
      /\ item[c] # LoadJob /\ NoJob # LoadJob
  BY <1>1 DEF HandsInv, FitInv, HasSpare, NoJob, LoadJob, GeneralJob
<1>7. \A a \in Aliases \ mixed', e \in Endpoints : ~OwnSpare(a, e, c) /\ ~OwnItem(a, e, c)
  <2>1. CASE Ensure(c)
    BY <2>1 DEF Ensure, OwnSpare, OwnItem, HasItem, HasSpare
  <2>2. CASE Reject(c)
    <3>1. NamesOf(item[c]) \subseteq mixed'
      BY <2>2 DEF Reject
    <3>2. \A a \in Aliases \ mixed', e \in Endpoints : ~Own(a, e, item[c])
      BY <1>1, <3>1, OwnFacts
    <3> QED BY <1>1, <1>6, <3>2 DEF OwnSpare, OwnItem, HasSpare
  <2> QED BY <2>1, <2>2
<1>8. s \in {"send", "turn"} => x = ProfileJob(item[c].end)
  BY <1>3
<1> QED BY <1>1, <1>2, <1>3, <1>4, <1>5, <1>6, <1>7, <1>8, HandsOrder

\* The place of the first job is given up; a job of the same kind and device is
\* in the call's hand.
LEMMA CollapseOrder ==
    ASSUME RegistryInv, HandsInv, JobOrder, NEW c \in ToolTasks, TakeTurn(c),
           Collapsible(Head(jobs), item[c]), mixed' \subseteq Aliases
    PROVE  JobOrder'
<1>1. /\ stage[c] = "turn" /\ jobs # <<>> /\ jobs' = Tail(jobs)
      /\ spare' = [spare EXCEPT ![c] = item[c]] /\ stage' = [stage EXCEPT ![c] = "replace"]
      /\ mixed' = mixed \union Replaced(Head(jobs), item[c])
      /\ UNCHANGED <<table, blobs, hand, item>>
  BY DEF TakeTurn, workerVars
<1>2. /\ item[c] \in Jobs /\ Head(jobs) \in Jobs /\ spare[c] = NoJob
      /\ NoJob # LoadJob /\ item[c].op # "load"
  BY <1>1, TailQueue DEF RegistryInv, HandsFull, HandsInv, FitInv, HasSpare, NoJob,
    LoadJob, GeneralJob
<1>3. SUFFICES ASSUME NEW a \in Aliases \ mixed', NEW e \in Endpoints
               PROVE  Settled(a, e)' /\ Unharmed(a, e)' /\ Loading(a, e)'
  BY DEF JobOrder
<1>4. Settled(a, e) /\ Unharmed(a, e) /\ Loading(a, e)
  BY <1>1 DEF JobOrder
<1>5. /\ stage'[c] = "replace" /\ spare'[c] = item[c]
      /\ \A d \in ToolTasks \ {c} : stage'[d] = stage[d] /\ spare'[d] = spare[d]
  BY <1>1 DEF RegistryInv, CallTypes
<1>6. Erasing' <=> Erasing
  BY <1>1, <1>5 DEF Erasing
<1>7. Head(jobs).op = item[c].op /\ (Head(jobs) = LoadJob <=> spare'[c] = LoadJob)
  BY <1>2, <1>5, JobShapes DEF Collapsible
<1>8. LoadIsPending' <=> LoadIsPending
  BY <1>1, <1>2, <1>5, <1>7, TailLoad
<1>9. Recorded(a, e)' <=> Recorded(a, e)
  BY <1>1, <1>6, <1>8, SameRegistered
<1>10. PICK n : n = Len(jobs)
  OBVIOUS
<1> DEFINE p(i) == At(i)'
<1>11. /\ n \in Nat \ {0} /\ Len(jobs') = n - 1 /\ JobPlaces = 0..n /\ JobPlaces' = 0..n-1
       /\ At(1) = Head(jobs) /\ p(0) = At(0)
       /\ \A i \in 1..n-1 : p(i) = At(i + 1)
  BY <1>1, <1>10, TailPlaces
<1>12. Loading(a, e)'
  <2>1. \A i \in JobPlaces' : p(i) \in Known
    BY <1>11 DEF Known
  <2>2. \A d \in ToolTasks : item'[d] \in Known /\ spare'[d] \in Known
    BY <1>1, <1>5 DEF Known
  <2> QED BY <1>1, <1>4, <1>6, <1>8, <2>1, <2>2, LoadingKept
<1>13. /\ Own(a, e, Head(jobs)) \/ Own(a, e, item[c]) => Head(jobs) = item[c]
       /\ Foreign(a, e, Head(jobs)) <=> Foreign(a, e, item[c])
  <2>0. Head(jobs).end = item[c].end
    BY <1>2, <1>7, JobShapes DEF Collapsible
  <2>1. Head(jobs).name = item[c].name \/ a \notin NamesOf(Head(jobs)) \union NamesOf(item[c])
    BY <1>1, <2>0 DEF Replaced
  <2>2. Own(a, e, Head(jobs)) \/ Own(a, e, item[c]) => Head(jobs).name = item[c].name
    BY <1>2, <2>1, OwnFacts
  <2>3. Own(a, e, Head(jobs)) \/ Own(a, e, item[c]) => Head(jobs) = item[c]
    BY <1>2, <1>7, <2>2, OwnFacts, JobShapes DEF Collapsible
  <2>4. Head(jobs).op \in {"save", "delete"} => Head(jobs).end = item[c].end
    BY <1>7 DEF Collapsible
  <2>5. Head(jobs).op \in {"save", "delete"} => (Head(jobs).name = a <=> item[c].name = a)
    BY <1>7, <2>1 DEF NamesOf
  <2> QED BY <1>7, <2>3, <2>4, <2>5 DEF Foreign
<1>14. /\ HasItem(c) /\ ~HasSpare(c) /\ ~HasItem(c)' /\ HasSpare(c)'
       /\ \A d \in ToolTasks \ {c} : /\ HasItem(d)' <=> HasItem(d)
                                     /\ HasSpare(d)' <=> HasSpare(d)
                                     /\ OwnItem(a, e, d)' <=> OwnItem(a, e, d)
                                     /\ OwnSpare(a, e, d)' <=> OwnSpare(a, e, d)
       /\ ~OwnItem(a, e, c)' /\ ~OwnSpare(a, e, c)
       /\ OwnSpare(a, e, c)' <=> Own(a, e, item[c])
       /\ OwnItem(a, e, c) <=> Own(a, e, item[c])
  BY <1>1, <1>5 DEF HasItem, HasSpare, OwnItem, OwnSpare, Own, SaveJob, DeleteJob,
    WipeJob, GeneralJob
<1>15. InHands(a, e)' <=> InHands(a, e)
  BY <1>14 DEF InHands
<1>16. CASE Own(a, e, item[c])
  <2>1. \A d \in ToolTasks \ {c} :
            /\ ~Own(a, e, item[d]) /\ ~Own(a, e, spare[d])
            /\ ~Foreign(a, e, item[d]) /\ ~Foreign(a, e, spare[d])
    BY <1>1, <1>16, HandsApart DEF HandsInv, RegistryInv
  <2>2. InHands(a, e)'
    BY <1>14, <1>15, <1>16 DEF InHands
  <2>3. ~Foreign(a, e, item[c])
    BY <1>2, <1>16, OwnFacts
  <2>4. item[c] = SaveJob(a, e) <=> Recorded(a, e)
    BY <1>4, <1>14, <1>16 DEF Settled
  <2>5. Settled(a, e)'
    BY <1>1, <1>5, <1>9, <1>14, <2>1, <2>2, <2>4 DEF Settled, OwnItem, OwnSpare, SaveJob
  <2>6. Unharmed(a, e)'
    BY <1>1, <1>5, <1>14, <2>1, <2>2, <2>3 DEF Unharmed, SaveJob, Foreign
  <2> QED BY <1>12, <2>5, <2>6
<1>17. CASE ~Own(a, e, item[c])
  <2>1. ~Own(a, e, Head(jobs))
    BY <1>13, <1>17
  <2>2. /\ There(a, e, 0)' <=> There(a, e, 0)
        /\ \A i \in 1..n : There(a, e, i)' <=> There(a, e, i + 1)
        /\ \A i \in 1..n-1 : Later(a, e, i)' <=> Later(a, e, i + 1)
        /\ Later(a, e, 0)' <=> Later(a, e, 0)
    BY <1>1, <1>10, <2>1, TakeThere
  <2>3. AtEnd(a, e)' <=> AtEnd(a, e)
    BY <1>10, <1>11, <2>2 DEF AtEnd
  <2>4. Settled(a, e)'
    BY <1>1, <1>4, <1>5, <1>9, <1>14, <1>15, <1>17, <2>3 DEF Settled, OwnItem, OwnSpare,
      SaveJob
  <2>5. \A i \in JobPlaces' : Foreign(a, e, p(i)) =>
            ~There(a, e, i)' \/ Later(a, e, i)' \/ InHands(a, e)'
    BY <1>4, <1>11, <1>15, <2>2 DEF Unharmed
  <2>6. \A d \in ToolTasks :
            /\ HasSpare(d)' /\ Foreign(a, e, spare'[d]) => ~AtEnd(a, e)' \/ OwnItem(a, e, d)'
            /\ HasItem(d)' /\ Foreign(a, e, item'[d]) =>
                 IF OwnSpare(a, e, d)' THEN spare'[d] # SaveJob(a, e) ELSE ~AtEnd(a, e)'
    BY <1>1, <1>4, <1>5, <1>14, <2>3 DEF Unharmed
  <2> QED BY <1>12, <2>4, <2>5, <2>6 DEF Unharmed, SaveJob, Foreign
<1> QED BY <1>16, <1>17

\* The first job is taken into the call's hand.
LEMMA TurnOrder ==
    ASSUME RegistryInv, HandsInv, JobOrder, NEW c \in ToolTasks, TakeTurn(c),
           ~Collapsible(Head(jobs), item[c]), mixed' \subseteq Aliases
    PROVE  JobOrder'
<1>1. /\ stage[c] = "turn" /\ jobs # <<>> /\ jobs' = Tail(jobs)
      /\ spare' = [spare EXCEPT ![c] = Head(jobs)] /\ stage' = [stage EXCEPT ![c] = "put_back"]
      /\ mixed \subseteq mixed'
      /\ ClashNames(Head(jobs), Queued(Tail(jobs)) \union InCalls(c)) \subseteq mixed'
      /\ UNCHANGED <<table, blobs, hand, item>>
  BY DEF TakeTurn, workerVars
<1>2. /\ item[c] \in Jobs /\ Head(jobs) \in Jobs /\ spare[c] = NoJob
      /\ NoJob # LoadJob
  BY <1>1, TailQueue DEF RegistryInv, HandsFull, HandsInv, FitInv, HasSpare, NoJob,
    LoadJob, GeneralJob
<1>3. SUFFICES ASSUME NEW a \in Aliases \ mixed', NEW e \in Endpoints
               PROVE  Settled(a, e)' /\ Unharmed(a, e)' /\ Loading(a, e)'
  BY DEF JobOrder
<1>4. Settled(a, e) /\ Unharmed(a, e) /\ Loading(a, e)
  BY <1>1 DEF JobOrder
<1>5. /\ stage'[c] = "put_back" /\ spare'[c] = Head(jobs)
      /\ \A d \in ToolTasks \ {c} : stage'[d] = stage[d] /\ spare'[d] = spare[d]
  BY <1>1 DEF RegistryInv, CallTypes
<1>6. Erasing' <=> Erasing
  BY <1>1, <1>5 DEF Erasing
<1>7. LoadIsPending' <=> LoadIsPending
  BY <1>1, <1>2, <1>5, TailLoad
<1>8. Recorded(a, e)' <=> Recorded(a, e)
  BY <1>1, <1>6, <1>7, SameRegistered
<1>9. PICK n : n = Len(jobs)
  OBVIOUS
<1> DEFINE p(i) == At(i)'
<1>10. /\ n \in Nat \ {0} /\ Len(jobs') = n - 1 /\ JobPlaces = 0..n /\ JobPlaces' = 0..n-1
       /\ At(1) = Head(jobs) /\ p(0) = At(0)
       /\ \A i \in 1..n-1 : p(i) = At(i + 1)
  BY <1>1, <1>9, TailPlaces
<1>11. Loading(a, e)'
  <2>1. \A i \in JobPlaces' : p(i) \in Known
    BY <1>10 DEF Known
  <2>2. 1 \in JobPlaces
    BY <1>10
  <2>3. \A d \in ToolTasks : item'[d] \in Known /\ spare'[d] \in Known
    BY <1>1, <1>5, <1>10, <2>2 DEF Known
  <2> QED BY <1>1, <1>4, <1>6, <1>7, <2>1, <2>3, LoadingKept
<1>12. /\ HasItem(c) /\ ~HasSpare(c) /\ HasItem(c)' /\ HasSpare(c)'
       /\ \A d \in ToolTasks \ {c} : /\ HasItem(d)' <=> HasItem(d)
                                     /\ HasSpare(d)' <=> HasSpare(d)
                                     /\ OwnSpare(a, e, d)' <=> OwnSpare(a, e, d)
       /\ \A d \in ToolTasks : OwnItem(a, e, d)' <=> OwnItem(a, e, d)
       /\ ~OwnSpare(a, e, c)
       /\ OwnSpare(a, e, c)' <=> Own(a, e, Head(jobs))
  BY <1>1, <1>5 DEF HasItem, HasSpare, OwnItem, OwnSpare, Own, SaveJob, DeleteJob,
    WipeJob, GeneralJob
<1>13. /\ Own(a, e, Head(jobs)) =>
             \A k \in Queued(Tail(jobs)) \union InCalls(c) : ~Own(a, e, k) /\ ~Foreign(a, e, k)
       /\ Foreign(a, e, Head(jobs)) =>
             \A k \in Queued(Tail(jobs)) \union InCalls(c) : ~Own(a, e, k)
  <2>1. Queued(Tail(jobs)) \union InCalls(c) \subseteq Jobs \union {NoJob}
    BY <1>1, TailQueue DEF Queued, InCalls, RegistryInv, CallTypes
  <2> QED BY <1>1, <1>2, <2>1, OwnAlone
<1>14. \A i \in 2..n : At(i) \in Queued(Tail(jobs))
  <2>1. \A i \in 2..n : /\ i - 1 \in 1..Len(Tail(jobs)) /\ At(i) = p(i - 1)
                        /\ p(i - 1) = Tail(jobs)[i - 1]
    BY <1>1, <1>10 DEF At
  <2> QED BY <2>1 DEF Queued
<1>15. /\ \A d \in ToolTasks \ {c} : item[d] \in InCalls(c) /\ spare[d] \in InCalls(c)
       /\ Own(a, e, Head(jobs)) => ~Foreign(a, e, Head(jobs))
  BY <1>2, OwnFacts DEF InCalls
<1>16. Own(a, e, Head(jobs)) \/ Foreign(a, e, Head(jobs)) =>
           /\ \A k \in 2..n : ~Own(a, e, At(k))
           /\ \A d \in ToolTasks \ {c} : ~OwnItem(a, e, d) /\ ~OwnSpare(a, e, d)
  <2>1. SUFFICES ASSUME \A k \in Queued(Tail(jobs)) \union InCalls(c) : ~Own(a, e, k)
                 PROVE  /\ \A k \in 2..n : ~Own(a, e, At(k))
                        /\ \A d \in ToolTasks \ {c} : ~OwnItem(a, e, d) /\ ~OwnSpare(a, e, d)
    BY <1>13
  <2>2. \A k \in 2..n : ~Own(a, e, At(k))
    BY <1>14, <2>1
  <2>3. \A d \in ToolTasks \ {c} : ~OwnItem(a, e, d) /\ ~OwnSpare(a, e, d)
    BY <1>15, <2>1 DEF OwnItem, OwnSpare
  <2> QED BY <2>2, <2>3
<1>17. CASE Own(a, e, Head(jobs))
  <2>1. InHands(a, e)' /\ (~OwnItem(a, e, c) => ~InHands(a, e))
    BY <1>12, <1>16, <1>17 DEF InHands
  <2>2. AtEnd(a, e) <=> Head(jobs) = SaveJob(a, e)
    BY <1>1, <1>9, <1>16, <1>17, TakeThere
  <2>3. \A d \in ToolTasks \ {c} :
            /\ ~Own(a, e, item[d]) /\ ~Own(a, e, spare[d])
            /\ ~Foreign(a, e, item[d]) /\ ~Foreign(a, e, spare[d])
    BY <1>13, <1>15, <1>17
  <2>4. Settled(a, e)'
    BY <1>1, <1>4, <1>5, <1>8, <1>12, <2>1, <2>2, <2>3 DEF Settled, OwnItem, OwnSpare,
      SaveJob
  <2>5. HasItem(c) /\ Foreign(a, e, item[c]) => Head(jobs) # SaveJob(a, e)
    BY <1>4, <1>12, <2>2 DEF Unharmed
  <2>6. Unharmed(a, e)'
    BY <1>1, <1>5, <1>12, <1>15, <1>17, <2>1, <2>3, <2>5 DEF Unharmed, SaveJob, Foreign
  <2> QED BY <1>11, <2>4, <2>6
<1>18. CASE ~Own(a, e, Head(jobs))
  <2>1. /\ There(a, e, 0)' <=> There(a, e, 0)
        /\ \A i \in 1..n : There(a, e, i)' <=> There(a, e, i + 1)
        /\ \A i \in 1..n-1 : Later(a, e, i)' <=> Later(a, e, i + 1)
        /\ Later(a, e, 0)' <=> Later(a, e, 0)
    BY <1>1, <1>9, <1>18, TakeThere
  <2>2. /\ AtEnd(a, e)' <=> AtEnd(a, e)
        /\ AtEnd(a, e) <=> There(a, e, n + 1)
    BY <1>9, <1>10, <2>1 DEF AtEnd
  <2>3. /\ \A d \in ToolTasks : OwnSpare(a, e, d)' <=> OwnSpare(a, e, d)
        /\ InHands(a, e)' <=> InHands(a, e)
        /\ ~OwnSpare(a, e, c)'
    BY <1>12, <1>18 DEF InHands
  <2>4. Settled(a, e)'
    BY <1>1, <1>4, <1>5, <1>8, <1>12, <2>2, <2>3 DEF Settled, OwnItem, OwnSpare, SaveJob
  <2>5. \A i \in JobPlaces' : Foreign(a, e, p(i)) =>
            ~There(a, e, i)' \/ Later(a, e, i)' \/ InHands(a, e)'
    BY <1>4, <1>10, <2>1, <2>3 DEF Unharmed
  <2>6. Foreign(a, e, Head(jobs)) => ~AtEnd(a, e) \/ OwnItem(a, e, c)
    <3>1. ASSUME Foreign(a, e, Head(jobs)), ~OwnItem(a, e, c) PROVE ~AtEnd(a, e)
      <4>1. ~InHands(a, e)
        BY <1>12, <1>16, <3>1 DEF InHands
      <4>2. \A k \in 2..n : ~Own(a, e, At(k))
        BY <1>16, <3>1
      <4>3. /\ \A i \in 1..n : There(a, e, i + 1) <=> There(a, e, 2)
            /\ There(a, e, 2) <=> There(a, e, 1)
            /\ ~Later(a, e, 1)
        BY <1>1, <1>9, <1>18, <4>2, TakeThere
      <4>4. ~There(a, e, 1)
        BY <1>4, <1>10, <3>1, <4>1, <4>3 DEF Unharmed
      <4> QED BY <1>10, <2>2, <4>3, <4>4
    <3> QED BY <3>1
  <2>7. \A d \in ToolTasks :
            /\ HasSpare(d)' /\ Foreign(a, e, spare'[d]) => ~AtEnd(a, e)' \/ OwnItem(a, e, d)'
            /\ HasItem(d)' /\ Foreign(a, e, item'[d]) =>
                 IF OwnSpare(a, e, d)' THEN spare'[d] # SaveJob(a, e) ELSE ~AtEnd(a, e)'
    BY <1>1, <1>4, <1>5, <1>12, <2>2, <2>3, <2>6 DEF Unharmed
  <2> QED BY <1>11, <2>4, <2>5, <2>7 DEF Unharmed, SaveJob, Foreign
<1> QED BY <1>17, <1>18

\* The worker takes the first job.
LEMMA ReceiveOrder ==
    ASSUME RegistryInv, HandsInv, JobOrder, Receive
    PROVE  JobOrder'
<1>1. /\ jobs # <<>> /\ jobs' = Tail(jobs) /\ hand' = Head(jobs) /\ hand = NoJob
      /\ UNCHANGED <<table, blobs, mixed, stage, item, spare>>
  BY DEF Receive, callVars, RegistryInv, OneWorker
<1>2. SUFFICES ASSUME NEW a \in Aliases \ mixed, NEW e \in Endpoints
               PROVE  Settled(a, e)' /\ Unharmed(a, e)' /\ Loading(a, e)'
  BY <1>1 DEF JobOrder
<1>3. Settled(a, e) /\ Unharmed(a, e) /\ Loading(a, e)
  BY DEF JobOrder
<1>4. PICK n : n = Len(jobs)
  OBVIOUS
<1> DEFINE p(i) == At(i)'
<1>5. /\ n \in Nat \ {0} /\ Len(jobs') = n - 1 /\ JobPlaces = 0..n /\ JobPlaces' = 0..n-1
      /\ \A i \in 0..n-1 : p(i) = At(i + 1)
  BY <1>1, <1>4, ReceivePlaces
<1>6. LoadIsPending' <=> LoadIsPending
  <2>1. NoJob # LoadJob
    BY DEF NoJob, LoadJob, GeneralJob
  <2>2. Queued(jobs') \union {hand'} = Queued(jobs)
    <3>1. \A i \in 1..n : i - 1 \in 0..n-1 /\ p(i - 1) = At(i)
      BY <1>5
    <3>2. Queued(jobs) = {At(i) : i \in 1..n}
      BY <1>4, <1>5 DEF Queued, At
    <3>3. Queued(jobs') \union {hand'} = {p(i) : i \in 0..n-1}
      <4>1. p(0) = hand' /\ \A i \in 1..n-1 : p(i) = jobs'[i]
        BY <1>5 DEF At
      <4> QED BY <1>5, <4>1 DEF Queued
    <3>4. \A i \in 0..n-1 : i + 1 \in 1..n
      BY <1>5
    <3> QED BY <1>5, <3>1, <3>2, <3>3, <3>4
  <2>3. LoadIsPending' <=> LoadJob \in Queued(jobs') \union {hand'} \union {spare[c] : c \in ToolTasks}
    BY <1>1 DEF LoadIsPending, LoadJob, GeneralJob, Queued
  <2> QED BY <1>1, <2>1, <2>2, <2>3 DEF LoadIsPending, LoadJob, GeneralJob
<1>7. Erasing' <=> Erasing
  BY <1>1 DEF Erasing
<1>8. Recorded(a, e)' <=> Recorded(a, e)
  BY <1>1, <1>6, <1>7, SameRegistered
<1>9. /\ \A i \in 0..n : There(a, e, i)' <=> There(a, e, i + 1)
      /\ \A i \in 0..n-1 : Later(a, e, i)' <=> Later(a, e, i + 1)
  BY <1>1, <1>4, ReceiveThere
<1>10. AtEnd(a, e)' <=> AtEnd(a, e)
  BY <1>4, <1>5, <1>9 DEF AtEnd
<1>11. /\ \A d \in ToolTasks : /\ HasItem(d)' <=> HasItem(d)
                               /\ HasSpare(d)' <=> HasSpare(d)
                               /\ OwnItem(a, e, d)' <=> OwnItem(a, e, d)
                               /\ OwnSpare(a, e, d)' <=> OwnSpare(a, e, d)
       /\ InHands(a, e)' <=> InHands(a, e)
  BY <1>1 DEF InHands, HasItem, HasSpare, OwnItem, OwnSpare, Own, SaveJob, DeleteJob,
    WipeJob, GeneralJob
<1>12. Settled(a, e)'
  BY <1>1, <1>3, <1>8, <1>10, <1>11 DEF Settled, SaveJob
<1>13. Unharmed(a, e)'
  <2>1. \A i \in JobPlaces' : Foreign(a, e, p(i)) =>
            ~There(a, e, i)' \/ Later(a, e, i)' \/ InHands(a, e)'
    <3>1. \A i \in 0..n-1 : i + 1 \in JobPlaces /\ p(i) = At(i + 1)
      BY <1>5
    <3> QED BY <1>3, <1>5, <1>9, <1>11, <3>1 DEF Unharmed
  <2> QED BY <1>1, <1>3, <1>10, <1>11, <2>1 DEF Unharmed, SaveJob, Foreign
<1>14. Loading(a, e)'
  <2>1. \A i \in JobPlaces' : p(i) \in Known
    BY <1>5 DEF Known
  <2>2. \A d \in ToolTasks : item'[d] \in Known /\ spare'[d] \in Known
    BY <1>1 DEF Known
  <2> QED BY <1>1, <1>3, <1>6, <1>7, <2>1, <2>2, LoadingKept
<1> QED BY <1>12, <1>13, <1>14

\* What a job that is done, or has failed, leaves of the blob of endpoint e: one
\* that is not the alias's own writes the key only if it is another alias's.
LEMMA WorkBlobs ==
    ASSUME RegistryInv, Work, NEW a \in Aliases \ mixed', NEW e \in Endpoints
    PROVE  /\ hand \in Jobs /\ hand' = NoJob
           /\ Own(a, e, hand) => (blobs'[e] = a <=> hand = SaveJob(a, e))
           /\ ~Own(a, e, hand) /\ ~Foreign(a, e, hand) => (blobs'[e] = a <=> blobs[e] = a)
           /\ Foreign(a, e, hand) => (blobs'[e] = a => blobs[e] = a)
<1>1. /\ hand \in Jobs /\ hand' = NoJob /\ worker = "working"
      /\ \/ blobs' = BlobsAfter(hand)
         \/ mixed' = mixed \union NamesOf(hand) /\ blobs' \in BlobsAfterFailure(hand)
  BY DEF Work, RegistryInv, OneWorker, WorkerTypes
<1>2. a # Absent /\ blobs \in [Endpoints -> Aliases \union {Absent}]
  BY RegistryAssumption DEF RegistryInv, DataTypes
<1>3. hand.op \in {"save", "delete", "profile", "wipe", "load"}
  BY <1>1, JobShapes, JobKinds
<1>4. CASE blobs' = BlobsAfter(hand)
  <2>1. CASE hand.op = "save"
    <3>1. /\ hand.name \in Aliases /\ hand.end \in Endpoints
          /\ blobs' = [blobs EXCEPT ![hand.end] = hand.name]
      BY <1>1, <1>4, <2>1, JobShapes DEF BlobsAfter
    <3>2. blobs'[e] = IF hand.end = e THEN hand.name ELSE blobs[e]
      BY <1>2, <3>1
    <3> QED BY <1>1, <2>1, <3>2, OwnFacts DEF Foreign
  <2>2. CASE hand.op = "delete"
    <3>1. /\ hand.name \in Aliases /\ hand.end \in Endpoints
          /\ blobs' = [blobs EXCEPT ![hand.end] = Absent]
      BY <1>1, <1>4, <2>2, JobShapes DEF BlobsAfter
    <3>2. blobs'[e] = IF hand.end = e THEN Absent ELSE blobs[e]
      BY <1>2, <3>1
    <3> QED BY <1>1, <1>2, <2>2, <3>2, OwnFacts DEF Foreign
  <2>3. CASE hand.op = "wipe"
    <3>1. blobs'[e] = Absent
      BY <1>4, <2>3 DEF BlobsAfter
    <3> QED BY <1>1, <1>2, <2>3, <3>1, OwnFacts DEF Foreign
  <2>4. CASE hand.op \in {"profile", "load"}
    <3>1. blobs' = blobs
      BY <1>4, <2>4 DEF BlobsAfter
    <3> QED BY <1>1, <2>4, <3>1, OwnFacts DEF Foreign
  <2> QED BY <1>3, <2>1, <2>2, <2>3, <2>4
<1>5. CASE mixed' = mixed \union NamesOf(hand) /\ blobs' \in BlobsAfterFailure(hand)
  <2>1. a \notin NamesOf(hand)
    BY <1>5
  <2>2. ~Own(a, e, hand)
    BY <1>1, <2>1, OwnFacts
  <2>3. hand.op \notin {"wipe", "load"}
    BY <2>1 DEF NamesOf
  <2>4. blobs' = blobs \/ blobs' = BlobsAfter(hand)
    BY <1>5, <2>3 DEF BlobsAfterFailure
  <2> QED BY <1>1, <1>4, <2>2, <2>4
<1> QED BY <1>1, <1>4, <1>5

\* While the load of the boot is pending, what is registered is not lost: own jobs
\* say what the table says, and others' do not run into its blob.
LEMMA WorkBeforeLoad ==
    ASSUME RegistryInv, HandsInv, JobOrder, Work, hand # LoadJob, LoadIsPending,
           NEW a \in Aliases \ mixed', NEW e \in Endpoints
    PROVE  /\ blobs'[e] = a => blobs[e] = a \/ table[a] = e
           /\ ~Erasing /\ blobs[e] = a => blobs'[e] = a \/ table[a] = e
<1>1. mixed \subseteq mixed'
  BY DEF Work
<1>2. Unharmed(a, e) /\ Loading(a, e)
  BY <1>1 DEF JobOrder
<1>3. 0 \in JobPlaces /\ At(0) = hand
  BY PlaceFacts DEF At
<1>4. /\ hand \in Jobs
      /\ Own(a, e, hand) => (blobs'[e] = a <=> hand = SaveJob(a, e))
      /\ ~Own(a, e, hand) /\ ~Foreign(a, e, hand) => (blobs'[e] = a <=> blobs[e] = a)
      /\ Foreign(a, e, hand) => (blobs'[e] = a => blobs[e] = a)
  BY WorkBlobs
<1>5. blobs'[e] = a => blobs[e] = a \/ table[a] = e
  BY <1>2, <1>3, <1>4 DEF Loading
<1>6. ASSUME ~Erasing, blobs[e] = a, blobs'[e] # a PROVE table[a] = e
  <2>1. CASE Own(a, e, hand)
    BY <1>2, <1>3, <1>6, <2>1 DEF Loading, Own
  <2>2. CASE Foreign(a, e, hand)
    <3>1. There(a, e, 0)
      BY <1>6, PlaceFacts DEF There, JobPlaces
    <3>2. Later(a, e, 0) \/ InHands(a, e)
      BY <1>2, <1>3, <2>2, <3>1 DEF Unharmed
    <3>3. CASE Later(a, e, 0)
      BY <1>2, <1>6, <3>3 DEF Later, Loading, Own
    <3>4. CASE InHands(a, e)
      BY <1>2, <1>6, <3>4 DEF InHands, OwnItem, OwnSpare, Loading, Own
    <3> QED BY <3>2, <3>3, <3>4
  <2> QED BY <1>4, <1>6, <2>1, <2>2
<1> QED BY <1>5, <1>6

\* What is registered is the same after a job is done; the load makes the table say
\* what the blobs said before.
LEMMA WorkRegistered ==
    ASSUME RegistryInv, HandsInv, JobOrder, Work, NEW a \in Aliases \ mixed', NEW e \in Endpoints
    PROVE  /\ Recorded(a, e)' <=> Recorded(a, e)
           /\ hand # LoadJob => (LoadIsPending' <=> LoadIsPending) /\ UNCHANGED table
           /\ hand = LoadJob => ~LoadIsPending'
<1>1. /\ UNCHANGED <<jobs, stage, item, spare>> /\ hand' = NoJob /\ mixed \subseteq mixed'
      /\ 0 \in JobPlaces /\ At(0) = hand
  BY PlaceFacts DEF Work, callVars, At
<1>2. /\ Erasing' <=> Erasing
      /\ NoJob # LoadJob
  BY <1>1 DEF Erasing, NoJob, LoadJob, GeneralJob
<1>3. ASSUME hand # LoadJob PROVE (LoadIsPending' <=> LoadIsPending) /\ UNCHANGED table
  <2>1. hand.op # "load"
    BY <1>3, JobShapes DEF RegistryInv, WorkerTypes
  <2>2. UNCHANGED table
    BY <2>1 DEF Work
  <2>3. LoadIsPending' <=> LoadJob \in Queued(jobs) \union {NoJob} \union {spare[c] : c \in ToolTasks}
    BY <1>1 DEF LoadIsPending, LoadJob, GeneralJob, Queued
  <2> QED BY <1>2, <1>3, <2>2, <2>3 DEF LoadIsPending, LoadJob, GeneralJob
<1>4. CASE hand # LoadJob
  <2>1. CASE LoadIsPending
    BY <1>2, <1>3, <1>4, <2>1, WorkBeforeLoad DEF Recorded
  <2>2. CASE ~LoadIsPending
    BY <1>2, <1>3, <1>4, <2>2 DEF Recorded
  <2> QED BY <1>3, <1>4, <2>1, <2>2
<1>5. CASE hand = LoadJob
  <2>1. ~LoadIsPending' /\ LoadIsPending
    BY <1>5, WorkOnce DEF HandsInv, LoadIsPending, LoadJob
  <2>2. \A f \in Endpoints : Loading(a, f)
    BY <1>1 DEF JobOrder
  <2>3. table' \in TablesAfterLoad /\ UNCHANGED blobs
    <3>1. hand.op = "load" /\ NamesOf(hand) = Aliases
      BY <1>5 DEF LoadJob, GeneralJob, NamesOf
    <3>2. ~(mixed' = mixed \union NamesOf(hand))
      BY <3>1
    <3> QED BY <3>1, <3>2 DEF Work, BlobsAfter
  <2>4. IF BlobsOf(a) = {} THEN table'[a] = table[a] ELSE table'[a] \in BlobsOf(a)
    BY <2>3 DEF TablesAfterLoad
  <2>5. \A f \in Endpoints : blobs[f] = a =>
            table[a] \in {Absent, f} /\ \A g \in Endpoints : blobs[g] = a => g = f
    BY <2>1, <2>2 DEF Loading
  <2>6. table'[a] = e <=> table[a] = e \/ blobs[e] = a
    BY <2>4, <2>5, RegistryAssumption DEF BlobsOf
  <2> QED BY <1>2, <1>5, <2>1, <2>6 DEF Recorded
<1> QED BY <1>4, <1>5

\* The worker does a job, or fails.
LEMMA WorkOrder ==
    ASSUME RegistryInv, HandsInv, JobOrder, Work
    PROVE  JobOrder'
<1>1. SUFFICES ASSUME NEW a \in Aliases \ mixed', NEW e \in Endpoints
               PROVE  Settled(a, e)' /\ Unharmed(a, e)' /\ Loading(a, e)'
  BY DEF JobOrder
<1>2. /\ UNCHANGED <<jobs, stage, item, spare>> /\ hand' = NoJob /\ mixed \subseteq mixed'
      /\ 0 \in JobPlaces /\ At(0) = hand /\ Len(jobs) \in Nat
  BY PlaceFacts DEF Work, callVars, At
<1>3. /\ Settled(a, e) /\ Unharmed(a, e)
      /\ \A f \in Endpoints : Loading(a, f)
  BY <1>2 DEF JobOrder
<1>4. /\ Recorded(a, e)' <=> Recorded(a, e)
      /\ hand # LoadJob => (LoadIsPending' <=> LoadIsPending) /\ UNCHANGED table
      /\ hand = LoadJob => ~LoadIsPending'
  BY WorkRegistered
<1>5. /\ hand \in Jobs
      /\ Own(a, e, hand) => (blobs'[e] = a <=> hand = SaveJob(a, e))
      /\ ~Own(a, e, hand) /\ ~Foreign(a, e, hand) => (blobs'[e] = a <=> blobs[e] = a)
      /\ Foreign(a, e, hand) => (blobs'[e] = a => blobs[e] = a)
  BY WorkBlobs
<1> DEFINE p(i) == At(i)'
<1>6. /\ JobPlaces' = JobPlaces /\ p(0) = NoJob /\ ~Foreign(a, e, NoJob)
      /\ \A i \in JobPlaces \ {0} : p(i) = At(i)
  BY <1>2, WorkPlaces DEF Foreign, NoJob, GeneralJob
<1>7. /\ Own(a, e, hand) /\ (blobs'[e] = a <=> hand = SaveJob(a, e)) =>
             \A i \in 1..Len(jobs)+1 : There(a, e, i)' <=> There(a, e, i)
      /\ ~Own(a, e, hand) /\ (blobs'[e] = a <=> blobs[e] = a) =>
             \A i \in 1..Len(jobs)+1 : There(a, e, i)' <=> There(a, e, i)
      /\ ~Own(a, e, hand) /\ blobs'[e] # a =>
             /\ \A i \in 1..Len(jobs)+1 : There(a, e, i)' => There(a, e, i)
             /\ Later(a, e, 0) => (AtEnd(a, e)' <=> AtEnd(a, e))
      /\ \A i \in 1..Len(jobs) : Later(a, e, i)' <=> Later(a, e, i)
  BY <1>2, WorkThere
<1>8. /\ \A i \in 1..Len(jobs)+1 : There(a, e, i)' => There(a, e, i)
      /\ AtEnd(a, e)' => AtEnd(a, e)
      /\ ~InHands(a, e) => (AtEnd(a, e)' <=> AtEnd(a, e))
  <2>1. Len(jobs) + 1 \in 1..Len(jobs)+1 /\ Len(jobs') = Len(jobs)
    BY <1>2
  <2>2. CASE \A i \in 1..Len(jobs)+1 : There(a, e, i)' <=> There(a, e, i)
    BY <2>1, <2>2 DEF AtEnd
  <2>3. CASE ~Own(a, e, hand) /\ blobs'[e] # a /\ blobs[e] = a
    <3>1. Foreign(a, e, hand)
      BY <1>5, <2>3
    <3>2. There(a, e, 0)
      BY <1>2, <2>3 DEF There, JobPlaces
    <3>3. Later(a, e, 0) \/ InHands(a, e)
      BY <1>2, <1>3, <3>1, <3>2 DEF Unharmed
    <3> QED BY <1>7, <2>1, <2>3, <3>3 DEF AtEnd
  <2> QED BY <1>5, <1>7, <2>2, <2>3
<1>9. /\ \A d \in ToolTasks : /\ HasItem(d)' <=> HasItem(d)
                              /\ HasSpare(d)' <=> HasSpare(d)
                              /\ OwnItem(a, e, d)' <=> OwnItem(a, e, d)
                              /\ OwnSpare(a, e, d)' <=> OwnSpare(a, e, d)
      /\ InHands(a, e)' <=> InHands(a, e)
      /\ Erasing' <=> Erasing
  BY <1>2 DEF InHands, HasItem, HasSpare, OwnItem, OwnSpare, Own, SaveJob, DeleteJob,
    WipeJob, GeneralJob, Erasing
<1>10. Settled(a, e)'
  BY <1>2, <1>3, <1>4, <1>8, <1>9 DEF Settled, SaveJob
<1>11. Unharmed(a, e)'
  <2>1. \A i \in JobPlaces' : Foreign(a, e, p(i)) =>
            ~There(a, e, i)' \/ Later(a, e, i)' \/ InHands(a, e)'
    <3>1. \A i \in JobPlaces \ {0} : i \in 1..Len(jobs) /\ i \in 1..Len(jobs)+1
      BY <1>2 DEF JobPlaces
    <3> QED BY <1>3, <1>6, <1>7, <1>8, <1>9, <3>1 DEF Unharmed
  <2> QED BY <1>2, <1>3, <1>8, <1>9, <2>1 DEF Unharmed, SaveJob, Foreign
<1>12. Loading(a, e)'
  <2>1. SUFFICES ASSUME LoadIsPending, hand # LoadJob PROVE Loading(a, e)'
    BY <1>4 DEF Loading
  <2>2. \A f \in Endpoints : blobs'[f] = a => blobs[f] = a \/ table[a] = f
    BY <2>1, WorkBeforeLoad
  <2>3. \A f \in Endpoints : blobs[f] = a =>
            table[a] \in {Absent, f} /\ \A g \in Endpoints : blobs[g] = a => g = f
    BY <1>3, <2>1 DEF Loading
  <2>4. /\ blobs'[e] = a => /\ table[a] \in {Absent, e}
                            /\ \A f \in Endpoints : blobs'[f] = a => f = e
    BY <2>2, <2>3, RegistryAssumption
  <2>5. blobs'[e] = a \/ table[a] = e => \A b \in Aliases \ {a} : table[b] # e
    BY <1>3, <2>1, <2>2 DEF Loading
  <2>6. \A i \in JobPlaces' : /\ p(i) = SaveJob(a, e) => table[a] = e
                              /\ p(i) # DeleteJob(a, e)
                              /\ p(i) = WipeJob => Erasing
    <3>1. NoJob # SaveJob(a, e) /\ NoJob # DeleteJob(a, e) /\ NoJob # WipeJob
      BY DEF NoJob, SaveJob, DeleteJob, WipeJob, GeneralJob
    <3> QED BY <1>3, <1>6, <2>1, <3>1 DEF Loading
  <2>7. \A c \in ToolTasks : \A j \in {item[c], spare[c]} :
            /\ j = SaveJob(a, e) => table[a] = e
            /\ j # DeleteJob(a, e)
            /\ j = WipeJob => Erasing
    BY <1>3, <2>1 DEF Loading
  <2> QED BY <1>2, <1>4, <1>9, <2>1, <2>4, <2>5, <2>6, <2>7
          DEF Loading, SaveJob, DeleteJob, WipeJob, GeneralJob
<1> QED BY <1>10, <1>11, <1>12

\* What a boot finds: blobs, and the load to come.
Booted ==
    /\ table = NoTable /\ mixed = Shadowed /\ jobs = <<LoadJob>> /\ hand = NoJob
    /\ stage = Nowhere /\ item = NoJobs /\ spare = NoJobs

\* The order holds at the boot.
LEMMA BootedOrder == Booted => HandsInv /\ JobOrder
<1> SUFFICES ASSUME Booted PROVE HandsInv /\ JobOrder
  OBVIOUS
<1>1. /\ \A c \in ToolTasks : stage[c] = "away" /\ item[c] = NoJob /\ spare[c] = NoJob
      /\ JobPlaces = {0, 1} /\ At(0) = NoJob /\ At(1) = LoadJob
      /\ \A e \in Endpoints : \A a \in Aliases : table[a] = Absent /\ Absent # e
  BY RegistryAssumption DEF Booted, Nowhere, NoJobs, NoTable, JobPlaces, At
<1>2. /\ NoJob # LoadJob /\ NoJob.op = "none" /\ LoadJob.op = "load"
      /\ LoadIsPending
  BY <1>1 DEF Booted, LoadIsPending, Queued, NoJob, LoadJob, GeneralJob
<1>3. /\ ~Erasing
      /\ \A c \in ToolTasks : ~HasItem(c) /\ ~HasSpare(c)
  BY <1>1 DEF Erasing, HasItem, HasSpare
<1>4. HandsInv
  BY <1>1, <1>2, <1>3 DEF HandsInv, FitInv, ApartInv, OnceInv, Clash, LoadJob, GeneralJob
<1>5. ASSUME NEW a \in Aliases \ mixed, NEW e \in Endpoints
      PROVE  Settled(a, e) /\ Unharmed(a, e) /\ Loading(a, e)
  <2>1. \A i \in JobPlaces : ~Own(a, e, At(i)) /\ ~Foreign(a, e, At(i)) /\ At(i) # SaveJob(a, e)
    BY <1>1, <1>2 DEF Own, Foreign, SaveJob, DeleteJob, WipeJob, GeneralJob
  <2>2. Recorded(a, e) <=> blobs[e] = a
    BY <1>1, <1>2, <1>3 DEF Recorded
  <2>3. AtEnd(a, e) <=> blobs[e] = a
    BY <2>1 DEF AtEnd, There
  <2>4. Settled(a, e) /\ Unharmed(a, e)
    BY <1>3, <2>1, <2>2, <2>3 DEF Settled, Unharmed, OwnItem, OwnSpare
  <2>5. \A f \in Endpoints : blobs[e] = a /\ blobs[f] = a => f = e
    BY DEF Booted, Shadowed, BlobsOf
  <2>6. /\ NoJob # SaveJob(a, e) /\ NoJob # DeleteJob(a, e) /\ NoJob # WipeJob
        /\ LoadJob # DeleteJob(a, e) /\ LoadJob # WipeJob
    BY DEF NoJob, LoadJob, SaveJob, DeleteJob, WipeJob, GeneralJob
  <2>7. Loading(a, e)
    BY <1>1, <2>1, <2>5, <2>6 DEF Loading
  <2> QED BY <2>4, <2>7
<1> QED BY <1>4, <1>5 DEF JobOrder

\* Steps that leave the queue, the hands, the table and the blobs alone.
LEMMA SameOrder ==
    ASSUME JobOrder, UNCHANGED <<table, blobs, mixed, jobs, hand, stage, item, spare>>
    PROVE  JobOrder'
<1>1. SUFFICES ASSUME NEW a \in Aliases \ mixed, NEW e \in Endpoints
               PROVE  Settled(a, e)' /\ Unharmed(a, e)' /\ Loading(a, e)'
  BY DEF JobOrder
<1>2. Settled(a, e) /\ Unharmed(a, e) /\ Loading(a, e)
  BY DEF JobOrder
<1>3. /\ LoadIsPending' <=> LoadIsPending
      /\ Erasing' <=> Erasing
      /\ JobPlaces' = JobPlaces /\ \A i \in JobPlaces : At(i)' = At(i)
  BY SameLoad DEF Erasing, JobPlaces, At
<1>4. Recorded(a, e)' <=> Recorded(a, e)
  BY <1>3, SameRegistered
<1>5. \A d \in ToolTasks : /\ HasItem(d)' <=> HasItem(d)
                           /\ HasSpare(d)' <=> HasSpare(d)
                           /\ OwnItem(a, e, d)' <=> OwnItem(a, e, d)
                           /\ OwnSpare(a, e, d)' <=> OwnSpare(a, e, d)
  BY DEF HasItem, HasSpare, OwnItem, OwnSpare, Own, SaveJob, DeleteJob, WipeJob, GeneralJob
<1>6. Settled(a, e)' /\ Unharmed(a, e)'
  BY <1>2, <1>4, <1>5, DropOrder
<1>7. Loading(a, e)'
  <2>1. /\ \A i \in JobPlaces' : At(i)' \in Known
        /\ \A d \in ToolTasks : item'[d] \in Known /\ spare'[d] \in Known
    BY <1>3 DEF Known
  <2> QED BY <1>2, <1>3, <2>1, LoadingKept
<1> QED BY <1>6, <1>7

\* Every step leaves the hands and the order as they should be.
LEMMA OrderStep ==
    RegistryInv /\ HandsInv /\ JobOrder /\ [RegistryNext]_registryVars /\ RegistryInv' => HandsInv' /\ JobOrder'
<1> SUFFICES ASSUME RegistryInv, HandsInv, JobOrder, [RegistryNext]_registryVars, RegistryInv'
             PROVE  HandsInv' /\ JobOrder'
  OBVIOUS
<1>1. mixed' \subseteq Aliases
  BY DEF RegistryInv, DataTypes
<1>2. CASE \E c \in ToolTasks : CallStep(c)
  <2>1. PICK c \in ToolTasks : CallStep(c)
    BY <1>2
  <2>2. HandsInv'
    BY <2>1, CallKeepsHands
  <2>3. CASE \E a \in Aliases, e \in Endpoints : RegisterDevice(c, a, e)
    BY <1>1, <2>2, <2>3, RegisterOrder
  <2>4. CASE \E a \in Aliases : RemoveDevice(c, a)
    BY <1>1, <2>2, <2>4, RemoveOrder
  <2>5. CASE EraseAll(c) \/ EmptyTable(c)
    BY <1>1, <2>2, <2>5, EraseOrder, EmptyTableOrder
  <2>6. CASE PostJob(c) \/ TakeTurn(c)
    BY <1>1, <2>2, <2>6, PostJobOrder, TurnOrder, CollapseOrder
  <2>7. CASE PutBack(c) \/ Replace(c)
    BY <1>1, <2>2, <2>7, PutBackOrder
  <2>8. CASE Reject(c) \/ Ensure(c)
    BY <1>1, <2>2, <2>8, GoesOnOrder
  <2> QED BY <2>1, <2>2, <2>3, <2>4, <2>5, <2>6, <2>7, <2>8 DEF CallStep
<1>3. CASE WorkerStep
  <2>1. HandsInv'
    BY <1>3, WorkerKeepsHands
  <2>2. CASE IdleTimeout \/ Leave
    BY <2>1, <2>2, SameOrder DEF IdleTimeout, Leave, callVars
  <2> QED BY <1>3, <2>1, <2>2, ReceiveOrder, WorkOrder DEF WorkerStep
<1>4. CASE PowerCycle
  <2>1. Booted'
    BY <1>4 DEF PowerCycle, Booted, Shadowed, BlobsOf, NoTable, Nowhere, NoJobs, NoJob,
      LoadJob, GeneralJob
  <2> QED BY <2>1, BootedOrder, PTL
<1>5. CASE UNCHANGED registryVars
  BY <1>5, WorkerKeepsHands, SameOrder DEF registryVars, workerVars, callVars
<1> QED BY <1>2, <1>3, <1>4, <1>5 DEF RegistryNext

\* Once nothing waits, the blobs say what the table says.
LEMMA RestedOrder == RegistryInv /\ HandsInv /\ JobOrder => RebootRestores
<1> SUFFICES ASSUME RegistryInv, HandsInv, JobOrder, AtRest, NEW a \in Aliases \ mixed
             PROVE  BlobsOf(a) = IF table[a] = Absent THEN {} ELSE {table[a]}
  BY DEF RebootRestores
<1>1. /\ \A c \in ToolTasks : stage[c] = "away"
      /\ jobs = <<>> /\ hand = NoJob
  BY DEF AtRest, AskedNow
<1>2. ~Erasing /\ \A e \in Endpoints : ~InHands(a, e)
  BY <1>1 DEF Erasing, InHands, OwnItem, OwnSpare, HasItem, HasSpare
<1>3. JobPlaces = {0} /\ At(0) = NoJob /\ \A e \in Endpoints : ~Own(a, e, NoJob)
  BY <1>1 DEF JobPlaces, At, Own, NoJob, SaveJob, DeleteJob, WipeJob, GeneralJob
<1>4. \A e \in Endpoints : AtEnd(a, e) <=> blobs[e] = a
  BY <1>1, <1>3 DEF AtEnd, There, Own
<1>5. ASSUME LoadIsPending PROVE FALSE
  <2>1. PICK c \in ToolTasks : spare[c] = LoadJob
    BY <1>3, <1>5, PlaceFacts DEF NoJob, LoadJob, GeneralJob
  <2> QED BY <1>1, <2>1 DEF FitInv, HandsInv, HasSpare, NoJob, LoadJob, GeneralJob
<1>6. \A e \in Endpoints : blobs[e] = a <=> table[a] = e
  BY <1>2, <1>4, <1>5 DEF JobOrder, Settled, Recorded
<1>7. table[a] \in Endpoints \union {Absent} /\ Absent \notin Endpoints
  BY RegistryAssumption DEF RegistryInv, DataTypes
<1> QED BY <1>6, <1>7 DEF BlobsOf

\* RebootRestores (registry_persist.c): when every call and job is done, the blobs in
\* NVS are the devices of the table, so that the load of the next boot brings back
\* exactly these, for every alias whose order the code keeps.
THEOREM RebootRestoresTable == RegistrySpec => []RebootRestores
<1>1. RegistryInit => Booted
  BY RegistryAssumption DEF RegistryInit, Booted, Shadowed, BlobsOf, LoadJob
<1>2. RegistryInit => HandsInv /\ JobOrder
  BY <1>1, BootedOrder
<1> QED BY <1>2, OrderStep, RestedOrder, RegistryInvariant, PTL DEF RegistrySpec
=============================================================================
