---------------------------- MODULE RobotRegistry ----------------------------
(***************************************************************************)
(* The registry of robot devices: the table in RAM that the tools change   *)
(* (robot_hal.c), and its copy in NVS that a worker made on demand writes  *)
(* (registry_persist.c).                                                   *)
(*                                                                         *)
(* The table finds a device by its alias, NVS by the hash of its endpoint. *)
(* Every tool call runs in a task of its own: it changes the table, posts  *)
(* a job and makes sure that there is a worker.  When the queue is full    *)
(* the call takes the jobs out one by one, puts them back behind, and      *)
(* replaces the first one that its own job supersedes.  A worker that has  *)
(* nothing to do for 3 s deletes itself.  A step is what a task does       *)
(* between two operations on the queue or the spawn lock.                  *)
(*                                                                         *)
(* The 25 entries of the table and the heap are never exhausted here; only *)
(* the memory for the worker's stack is, as the code expects.              *)
(***************************************************************************)
EXTENDS Integers, Sequences

CONSTANTS Aliases, Endpoints,
          BleEndpoints,  \* those with a profile of the earlier format besides
          JobsLen,       \* REGISTRY_SAVE_QUEUE_LEN
          ToolTasks,     \* robot_tool tasks
          MaxCalls       \* bound: tool calls from one boot to the next

Absent == "absent"
ASSUME RegistryAssumption ==
    /\ BleEndpoints \subseteq Endpoints /\ Absent \notin Aliases \union Endpoints
    /\ JobsLen \in Nat \ {0} /\ MaxCalls \in Nat

VARIABLES
    table,    \* s_devices: the endpoint of every alias
    blobs,    \* keys dev_<id> of NVS: the alias of every endpoint
    mixed,    \* aliases for which the code keeps no order (see Clash, Moved, Sharing, Replaced)
    jobs,     \* s_registry_queue
    hand,     \* the job the worker is at
    worker,   \* the worker task
    handle,   \* {"set"} when s_registry_worker is not NULL
    refused,  \* {"no_memory"} when there was no memory for the last worker wanted
    stage,    \* where every tool call is
    item,     \* the job it posts
    spare,    \* the job it has taken out of the queue
    turns,    \* how many it has taken out
    calls     \* tool calls since the boot

workerVars == <<hand, worker, handle, refused>>
callVars == <<stage, item, spare, turns>>
registryVars == <<table, blobs, mixed, jobs, workerVars, callVars, calls>>

SaveJob(a, e)   == [op |-> "save", name |-> a, end |-> e]
DeleteJob(a, e) == [op |-> "delete", name |-> a, end |-> e]
ProfileJob(e)   == [op |-> "profile", name |-> Absent, end |-> e]
GeneralJob(op)  == [op |-> op, name |-> Absent, end |-> Absent]
NoJob == GeneralJob("none")
Jobs == {SaveJob(a, e) : a \in Aliases, e \in Endpoints}
        \union {DeleteJob(a, e) : a \in Aliases, e \in Endpoints}
        \union {ProfileJob(e) : e \in Endpoints}
        \union {GeneralJob("wipe"), GeneralJob("load")}

Stages == {"away", "send", "turn", "put_back", "replace", "ensure", "clear"}

BlobsOf(a) == {e \in Endpoints : blobs[e] = a}
AskedNow == {c \in ToolTasks : stage[c] # "away"}
Queued(q) == {q[i] : i \in 1..Len(q)}

-----------------------------------------------------------------------------
(* Aliases that are left out of RebootRestores, because the code promises  *)
(* no order for what happened to them.                                     *)

NamesOf(job) == IF job.op \in {"wipe", "load"} THEN Aliases ELSE {job.name} \intersect Aliases

\* Two jobs whose order decides what stays in NVS.
Clash(j, k) ==
    /\ {j.op, k.op} \subseteq {"save", "delete", "wipe"}
    /\ "wipe" \in {j.op, k.op} \/ j.end = k.end \/ j.name = k.name

ClashNames(job, others) ==
    UNION {NamesOf(job) \union NamesOf(k) : k \in {o \in others : Clash(job, o)}}

\* An alias that changes its endpoint leaves its old blob behind; one that takes
\* an endpoint over takes its blob, and either's removal then removes both.
Moved(a, e) ==
    LET others == {b \in Aliases \ {a} : table[b] = e \/ blobs[e] = b}
    IN  IF others = {} /\ table[a] \in {Absent, e} /\ BlobsOf(a) \subseteq {e}
        THEN {} ELSE others \union {a}

\* The removal of one of several aliases of an endpoint removes their common blob.
Sharing(a) == LET b == {x \in Aliases : table[x] = table[a]} IN IF b = {a} THEN {} ELSE b

\* Jobs that other calls have in their hands.
InCalls(c) == {item[d] : d \in ToolTasks \ {c}} \union {spare[d] : d \in ToolTasks \ {c}}

\* The load of the boot undoes what was done before it.
LoadIsPending == GeneralJob("load") \in Queued(jobs) \union {hand} \union {spare[c] : c \in ToolTasks}

-----------------------------------------------------------------------------
(* registry_persist_init, at boot: the worker first, then the load job.    *)

NoTable == [a \in Aliases |-> Absent]
Nowhere == [c \in ToolTasks |-> "away"]
NoJobs == [c \in ToolTasks |-> NoJob]
NoTurns == [c \in ToolTasks |-> 0]

RegistryInit ==
    /\ table = NoTable /\ blobs = [e \in Endpoints |-> Absent] /\ mixed = {}
    /\ jobs = <<GeneralJob("load")>> /\ hand = NoJob
    /\ \/ worker = "waiting" /\ handle = {"set"} /\ refused = {}
       \/ worker = "none" /\ handle = {} /\ refused = {"no_memory"}
    /\ stage = Nowhere /\ item = NoJobs /\ spare = NoJobs /\ turns = NoTurns
    /\ calls = 0

Shadowed == {a \in Aliases : \E e, f \in BlobsOf(a) : e # f}

\* Power loss, or esp_restart: only the blobs are left.
PowerCycle ==
    /\ table' = NoTable /\ mixed' = Shadowed
    /\ jobs' = <<GeneralJob("load")>> /\ hand' = NoJob
    /\ \/ worker' = "waiting" /\ handle' = {"set"} /\ refused' = {}
       \/ worker' = "none" /\ handle' = {} /\ refused' = {"no_memory"}
    /\ stage' = Nowhere /\ item' = NoJobs /\ spare' = NoJobs /\ turns' = NoTurns
    /\ calls' = 0
    /\ UNCHANGED blobs

-----------------------------------------------------------------------------
(* The tools *)

Begin(c, job, names) ==
    /\ stage[c] = "away" /\ calls < MaxCalls
    /\ calls' = calls + 1
    /\ stage' = [stage EXCEPT ![c] = "send"] /\ item' = [item EXCEPT ![c] = job]
    /\ mixed' = mixed \union names \union ClashNames(job, InCalls(c))
    /\ UNCHANGED <<blobs, jobs, workerVars, spare, turns>>

\* set_device_endpoint, set_ir_device, set_ble_device_alias
RegisterDevice(c, a, e) ==
    /\ table' = [table EXCEPT ![a] = e]
    /\ Begin(c, SaveJob(a, e), Moved(a, e))

\* remove_device
RemoveDevice(c, a) ==
    /\ table[a] # Absent
    /\ table' = [table EXCEPT ![a] = Absent]
    /\ Begin(c, DeleteJob(a, table[a]), {x \in {a} : LoadIsPending} \union Sharing(a))

\* erase_all_data posts its job first and empties the table last.
EraseAll(c) ==
    /\ Begin(c, GeneralJob("wipe"), {})
    /\ UNCHANGED table

EmptyTable(c) ==
    /\ stage[c] = "clear"
    /\ table' = NoTable
    /\ mixed' = IF LoadIsPending THEN Aliases ELSE mixed
    /\ stage' = [stage EXCEPT ![c] = "away"] /\ item' = [item EXCEPT ![c] = NoJob]
    /\ UNCHANGED <<blobs, jobs, workerVars, spare, turns, calls>>

-----------------------------------------------------------------------------
(* registry_persist_enqueue *)

\* Mutant: one job too many.
HasRoomForOneMore == Len(jobs) <= JobsLen

HasRoom == Len(jobs) < JobsLen

\* Calls that found the queue full and have not come to the end of it.
Turning == {c \in ToolTasks : stage[c] \in {"turn", "put_back", "replace"}}

\* What the tool does after the job is posted or rejected.
GoesOn(c) ==
    /\ LET more == item[c].op = "delete" /\ item[c].end \in BleEndpoints
           next == IF more THEN "send" ELSE IF item[c].op = "wipe" THEN "clear" ELSE "away"
       IN  /\ stage' = [stage EXCEPT ![c] = next]
           /\ item' = [item EXCEPT ![c] = IF more THEN ProfileJob(item[c].end)
                                          ELSE IF next = "clear" THEN item[c] ELSE NoJob]
    /\ turns' = [turns EXCEPT ![c] = 0]
    /\ spare' = [spare EXCEPT ![c] = NoJob]

PostJob(c) ==
    /\ stage[c] = "send"
    /\ IF HasRoom THEN jobs' = Append(jobs, item[c]) /\ stage' = [stage EXCEPT ![c] = "ensure"]
                  ELSE stage' = [stage EXCEPT ![c] = "turn"] /\ UNCHANGED jobs
    /\ UNCHANGED <<table, blobs, mixed, workerVars, item, spare, turns, calls>>

\* Mutant: any two saves are taken for the same.
CollapsibleByKind(queued, new) == queued.op = new.op

Collapsible(queued, new) ==
    queued.op = new.op /\ (new.op \in {"save", "delete", "profile"} => queued.end = new.end)

\* The new job is posted behind the rest of the queue, and that of another alias
\* with this endpoint is gone.
Replaced(queued, new) ==
    IF queued.end = new.end /\ queued.name # new.name
    THEN NamesOf(queued) \union NamesOf(new) ELSE {}

TakeTurn(c) ==
    /\ stage[c] = "turn" /\ turns[c] < JobsLen /\ jobs # <<>>
    /\ jobs' = Tail(jobs)
    /\ turns' = [turns EXCEPT ![c] = @ + 1]
    /\ IF Collapsible(Head(jobs), item[c])
       THEN /\ spare' = [spare EXCEPT ![c] = item[c]] /\ stage' = [stage EXCEPT ![c] = "replace"]
            /\ mixed' = mixed \union Replaced(Head(jobs), item[c])
       ELSE /\ spare' = [spare EXCEPT ![c] = Head(jobs)] /\ stage' = [stage EXCEPT ![c] = "put_back"]
            /\ mixed' = mixed \union ClashNames(Head(jobs), Queued(Tail(jobs)) \union InCalls(c))
    /\ UNCHANGED <<table, blobs, workerVars, item, calls>>

\* The place just made may have been taken by another call: the job is lost.
PutBack(c) ==
    /\ stage[c] = "put_back"
    /\ IF HasRoom
       THEN jobs' = Append(jobs, spare[c]) /\ UNCHANGED mixed
       ELSE mixed' = mixed \union NamesOf(spare[c]) /\ UNCHANGED jobs
    /\ spare' = [spare EXCEPT ![c] = NoJob]
    /\ stage' = [stage EXCEPT ![c] = "turn"]
    /\ UNCHANGED <<table, blobs, workerVars, item, turns, calls>>

Replace(c) ==
    /\ stage[c] = "replace" /\ HasRoom
    /\ jobs' = Append(jobs, spare[c])
    /\ spare' = [spare EXCEPT ![c] = NoJob]
    /\ stage' = [stage EXCEPT ![c] = "ensure"]
    /\ UNCHANGED <<table, blobs, mixed, workerVars, item, turns, calls>>

\* ESP_ERR_TIMEOUT: the tool goes on without a worker being ensured.
Reject(c) ==
    /\ \/ stage[c] = "turn" /\ (turns[c] = JobsLen \/ jobs = <<>>)
       \/ stage[c] = "replace" /\ ~HasRoom
    /\ mixed' = mixed \union NamesOf(item[c])
    /\ GoesOn(c)
    /\ UNCHANGED <<table, blobs, jobs, workerVars, calls>>

\* registry_persist_ensure_worker, under the spawn lock.  Without memory for a
\* worker the job stays in the queue.
Ensure(c) ==
    /\ stage[c] = "ensure"
    /\ \/ handle # {} /\ UNCHANGED <<worker, handle, refused>>
       \/ handle = {} /\ worker' = "waiting" /\ handle' = {"set"} /\ refused' = {}
       \/ handle = {} /\ refused' = {"no_memory"} /\ UNCHANGED <<worker, handle>>
    /\ GoesOn(c)
    /\ UNCHANGED <<table, blobs, mixed, jobs, hand, calls>>

-----------------------------------------------------------------------------
(* registry_worker_task *)

Receive ==
    /\ worker = "waiting" /\ jobs # <<>>
    /\ hand' = Head(jobs) /\ jobs' = Tail(jobs)
    /\ worker' = "working"
    /\ UNCHANGED <<table, blobs, mixed, handle, refused, callVars, calls>>

\* 3 s without a job; a call turns the queue over in far less.
IdleTimeout ==
    /\ worker = "waiting" /\ jobs = <<>> /\ Turning = {}
    /\ worker' = "leaving"
    /\ UNCHANGED <<table, blobs, mixed, jobs, hand, handle, refused, callVars, calls>>

\* Mutant: it does not look again.
LeaveAtOnce ==
    /\ worker = "leaving" /\ Turning = {}
    /\ worker' = "none" /\ handle' = {}
    /\ UNCHANGED <<table, blobs, mixed, jobs, hand, refused, callVars, calls>>

\* Under the spawn lock it looks again.  That calls hold all the jobs of a full
\* queue in their hands just then is left out, as for IdleTimeout.
Leave ==
    /\ worker = "leaving" /\ Turning = {}
    /\ IF jobs = <<>> THEN worker' = "none" /\ handle' = {}
                      ELSE worker' = "waiting" /\ UNCHANGED handle
    /\ UNCHANGED <<table, blobs, mixed, jobs, hand, refused, callVars, calls>>

BlobsAfter(job) ==
    CASE job.op = "save" -> [blobs EXCEPT ![job.end] = job.name]
      [] job.op = "delete" -> [blobs EXCEPT ![job.end] = Absent]
      [] job.op = "wipe" -> [e \in Endpoints |-> Absent]
      [] OTHER -> blobs

\* A job that fails may have done its work or a part of it before.
BlobsAfterFailure(job) ==
    IF job.op = "wipe" THEN {b \in [Endpoints -> Aliases \union {Absent}] :
                                \A e \in Endpoints : b[e] \in {blobs[e], Absent}}
                       ELSE {blobs, BlobsAfter(job)}

\* Of two blobs with one alias the later one counts; the order is NVS's own.
TablesAfterLoad ==
    {t \in [Aliases -> Endpoints \union {Absent}] :
        \A a \in Aliases : IF BlobsOf(a) = {} THEN t[a] = table[a] ELSE t[a] \in BlobsOf(a)}

Work ==
    /\ worker = "working"
    /\ worker' = "waiting" /\ hand' = NoJob
    /\ \/ /\ blobs' = BlobsAfter(hand)
          /\ IF hand.op = "load" THEN table' \in TablesAfterLoad ELSE UNCHANGED table
          /\ UNCHANGED mixed
       \/ /\ mixed' = mixed \union NamesOf(hand)
          /\ blobs' \in BlobsAfterFailure(hand)
          /\ UNCHANGED table
    /\ UNCHANGED <<jobs, handle, refused, callVars, calls>>

-----------------------------------------------------------------------------
CallStep(c) ==
    \/ \E a \in Aliases, e \in Endpoints : RegisterDevice(c, a, e)
    \/ \E a \in Aliases : RemoveDevice(c, a)
    \/ EraseAll(c) \/ EmptyTable(c)
    \/ PostJob(c) \/ TakeTurn(c) \/ PutBack(c) \/ Replace(c) \/ Reject(c) \/ Ensure(c)

WorkerStep == Receive \/ IdleTimeout \/ Leave \/ Work

RegistryNext == (\E c \in ToolTasks : CallStep(c)) \/ WorkerStep \/ PowerCycle

RegistrySpec == RegistryInit /\ [][RegistryNext]_registryVars

-----------------------------------------------------------------------------
\* Every variable has its type.
RegistryTypeOK ==
    /\ table \in [Aliases -> Endpoints \union {Absent}]
    /\ blobs \in [Endpoints -> Aliases \union {Absent}]
    /\ mixed \subseteq Aliases
    /\ jobs \in Seq(Jobs) /\ Len(jobs) <= JobsLen
    /\ hand \in Jobs \union {NoJob}
    /\ worker \in {"none", "waiting", "working", "leaving"}
    /\ handle \subseteq {"set"} /\ refused \subseteq {"no_memory"}
    /\ stage \in [ToolTasks -> Stages]
    /\ item \in [ToolTasks -> Jobs \union {NoJob}] /\ spare \in [ToolTasks -> Jobs \union {NoJob}]
    /\ turns \in [ToolTasks -> 0..JobsLen] /\ calls \in 0..MaxCalls

AtRest == AskedNow = {} /\ jobs = <<>> /\ hand = NoJob

\* Once every call and job is done, a restart brings back exactly the devices
\* that are in the table: nothing registered is forgotten, nothing removed
\* comes back, but for the aliases in "mixed".
RebootRestores ==
    AtRest => \A a \in Aliases \ mixed :
                  BlobsOf(a) = IF table[a] = Absent THEN {} ELSE {table[a]}

\* No job waits for a worker that has gone: it is there, or a call has still to
\* ensure it, or there was no memory for it.
WorkIsWatched ==
    (jobs # <<>> /\ refused = {}) =>
        handle # {} \/ \E c \in ToolTasks : stage[c] = "ensure"

\* The handle tells whether there is a worker, and a worker has a job in hand
\* just while it works on it: two workers never write to NVS.
OneWorker ==
    /\ (handle # {}) = (worker # "none")
    /\ (hand # NoJob) = (worker = "working")

\* registry_persist.c:381 says of a worker that has gone: the next enqueue
\* makes it again on demand, nothing is lost.  So there is room for the next
\* job, without which registry_persist_enqueue does not come to its worker.
NextCallRevives == (handle = {} /\ AskedNow = {}) => Len(jobs) < JobsLen
=============================================================================
