----------------------------- MODULE SaveWorker -----------------------------
(***************************************************************************)
(* The asynchronous saving of BLE profiles: nvs_save_discovered_device_    *)
(* async and nvs_save_worker_task of nvs_setup.c.                          *)
(*                                                                         *)
(* It looks like the registry's worker (RobotRegistry), but has no lock:   *)
(* the worker clears the handle when it has found the queue empty, and an  *)
(* enqueuer tests the handle, makes a worker and sets the handle in three  *)
(* steps.  So there may be two workers, and a profile may stay queued with *)
(* none until the next one is queued.  What a profile holds does not       *)
(* matter here.  The enqueuers are the NimBLE host task and the tools.     *)
(***************************************************************************)
EXTENDS Integers

CONSTANTS Savers,        \* tasks that enqueue a profile
          SaveWorkers,   \* names for the workers alive at the same time
          SavesLen       \* NVS_SAVE_QUEUE_LEN

NoWorker == "NULL"
ASSUME SaveWorkerAssumption ==
    /\ SavesLen \in Nat \ {0} /\ NoWorker \notin SaveWorkers

VARIABLES
    saves,       \* how many profiles are in s_nvs_save_queue
    saveHandle,  \* s_nvs_save_worker
    saver,       \* where each enqueuer is
    made,        \* the worker an enqueuer has made
    saveTask     \* what each worker does

saveVars == <<saves, saveHandle, saver, made, saveTask>>

SaverPlaces == {"away", "look", "create", "assign"}

SaveWorkerInit ==
    /\ saves = 0 /\ saveHandle = NoWorker
    /\ saver = [c \in Savers |-> "away"] /\ made = [c \in Savers |-> NoWorker]
    /\ saveTask = [w \in SaveWorkers |-> "none"]

SaverAt(c, p) == saver' = [saver EXCEPT ![c] = p]
WorkerDoes(w, s) == saveTask' = [saveTask EXCEPT ![w] = s]

\* With the queue full for 100 ms the profile is refused and nothing changes.
QueueProfile(c) ==
    /\ saver[c] = "away" /\ saves < SavesLen
    /\ saves' = saves + 1
    /\ SaverAt(c, "look")
    /\ UNCHANGED <<saveHandle, made, saveTask>>

LookAtHandle(c) ==
    /\ saver[c] = "look"
    /\ SaverAt(c, IF saveHandle = NoWorker THEN "create" ELSE "away")
    /\ UNCHANGED <<saves, saveHandle, made, saveTask>>

\* Without memory the profile stays in the queue.
CreateWorker(c) ==
    /\ saver[c] = "create"
    /\ \/ \E w \in SaveWorkers :
            /\ saveTask[w] = "none"
            /\ WorkerDoes(w, "waiting")
            /\ made' = [made EXCEPT ![c] = w]
            /\ SaverAt(c, "assign")
       \/ SaverAt(c, "away") /\ UNCHANGED <<made, saveTask>>
    /\ UNCHANGED <<saves, saveHandle>>

AssignHandle(c) ==
    /\ saver[c] = "assign"
    /\ saveHandle' = made[c]
    /\ made' = [made EXCEPT ![c] = NoWorker]
    /\ SaverAt(c, "away")
    /\ UNCHANGED <<saves, saveTask>>

TakeProfile(w) ==
    /\ saveTask[w] = "waiting" /\ saves > 0
    /\ saves' = saves - 1
    /\ WorkerDoes(w, "saving")
    /\ UNCHANGED <<saveHandle, saver, made>>

\* save_device_profile; its failure is only logged.
ProfileSaved(w) ==
    /\ saveTask[w] = "saving"
    /\ WorkerDoes(w, "waiting")
    /\ UNCHANGED <<saves, saveHandle, saver, made>>

\* 500 ms without a profile; its maker has set the handle long before.
WorkerTimesOut(w) ==
    /\ saveTask[w] = "waiting" /\ saves = 0
    /\ \A c \in Savers : made[c] # w
    /\ WorkerDoes(w, "leaving")
    /\ UNCHANGED <<saves, saveHandle, saver, made>>

\* Mutant: the handle is left as it is.
WorkerLeavesHandle(w) ==
    /\ saveTask[w] = "leaving"
    /\ WorkerDoes(w, "none")
    /\ UNCHANGED <<saves, saveHandle, saver, made>>

\* The handle is cleared whatever has been queued in between.
WorkerLeaves(w) ==
    /\ saveTask[w] = "leaving"
    /\ saveHandle' = NoWorker
    /\ WorkerDoes(w, "none")
    /\ UNCHANGED <<saves, saver, made>>

SaveWorkerNext ==
    \/ \E c \in Savers : QueueProfile(c) \/ LookAtHandle(c) \/ CreateWorker(c) \/ AssignHandle(c)
    \/ \E w \in SaveWorkers : TakeProfile(w) \/ ProfileSaved(w) \/ WorkerTimesOut(w) \/ WorkerLeaves(w)

SaveWorkerSpec == SaveWorkerInit /\ [][SaveWorkerNext]_saveVars

-----------------------------------------------------------------------------
\* Every variable has its type.
SaveWorkerTypeOK ==
    /\ saves \in 0..SavesLen /\ saveHandle \in SaveWorkers \union {NoWorker}
    /\ saver \in [Savers -> SaverPlaces]
    /\ made \in [Savers -> SaveWorkers \union {NoWorker}]
    /\ saveTask \in [SaveWorkers -> {"none", "waiting", "saving", "leaving"}]

\* The handle never names a worker that is gone, however two enqueuers and two
\* workers interleave: otherwise no worker would be made ever again, and what
\* is queued would stay there until the next boot.
HandleIsLive == saveHandle # NoWorker => saveTask[saveHandle] # "none"
=============================================================================
