--------------------------- MODULE WebrtcSession ---------------------------
(***************************************************************************)
(* The life of the Realtime sessions of the Camila firmware: start_webrtc, *)
(* stop_webrtc and the callbacks of webrtc.c over esp_webrtc.c.            *)
(*                                                                         *)
(* The orchestrator opens sessions with start_webrtc and closes them with  *)
(* stop_webrtc, which its stop task calls too.  Each session has a peer    *)
(* connection with a task of its own (pc_task) that runs the handlers of   *)
(* webrtc.c, and a task that sends session.update.  g_webrtc_mutex         *)
(* protects the handle and the generation, and is held while a message is  *)
(* sent: by these tasks and by the tool tasks, which outlive sessions.     *)
(*                                                                         *)
(* A handle is named by the generation it was opened with, which is also   *)
(* the context of its callbacks.  A handler tests that its generation is   *)
(* current and only then does its work, in a step of its own here.  What   *)
(* is said in a session is module Conversation.                            *)
(***************************************************************************)
EXTENDS Integers

CONSTANTS MaxGeneration,  \* bound: how often the generation is counted up
          SlowSend,       \* whether a send may outlast the others' wait for the mutex
          LateStop        \* whether a session may be started under a running stop task

ASSUME GenerationAssumption == MaxGeneration \in Nat \ {0}
ASSUME SlowAssumption == SlowSend \in BOOLEAN
ASSUME LateAssumption == LateStop \in BOOLEAN

VARIABLES
    webrtc,      \* webrtc: the published handle, or NoHandle
    generation,  \* g_webrtc_generation
    startingBit, \* WEBRTC_STARTING_BIT of app_startup_event_group, as a set
    media,       \* whether the audio runtime is built, as a set
    peer,        \* the state of every handle's peer connection
    channels,    \* handles whose data_channel_open is set
    at,          \* where every task is
    mine,        \* the handle a caller of start or stop has in its hands
    sending,     \* the task that holds the mutex to send, or NoTask
    updTask,     \* g_session_update_task, by the generation it was made for
    updGen,      \* g_session_update_generation
    sched,       \* the generation schedule_session_update has read, until its task is made
    ready,       \* g_realtime_session_ready, as a set
    updates,     \* handles with a session.update the server has not confirmed
    announced,   \* open handles that have posted WEBRTC_CONNECTED
    disturbed    \* open handles that were opened over a session still open

handleVars == <<webrtc, generation, mine, disturbed>>
runtimeVars == <<startingBit, media>>
updateVars == <<updTask, updGen, sched>>
channelVars == <<channels, updates, announced>>
webrtcVars == <<handleVars, runtimeVars, peer, at, sending, updateVars, ready, channelVars>>

Generations == 1..MaxGeneration
NoHandle == 0
Handles == Generations \union {NoHandle}

\* Tasks: the pc_task of handle g is g itself.
Orch == 0
Tool == MaxGeneration + 1
Stopper == MaxGeneration + 2
Updater(g) == MaxGeneration + 2 + g
NoTask == 2 * MaxGeneration + 3
Callers == {Orch, Stopper}
Tasks == 0..(2 * MaxGeneration + 2)

STARTING == "WEBRTC_STARTING_BIT"
BUILT == "audio_runtime"
READY == "ready"

\* What the library and the server tell a peer's handlers.
Events == {"dc_open", "dc_closed", "updated"}

CloseBegins == {"closeOld", "closeNew", "closeStop"}
CloseEnds == {"joinOld", "joinNew", "joinStop"}
Closing == CloseBegins \union CloseEnds
Sends == {"send_update", "send_message"}
Places == Events \union Closing \union Sends \union
          {"idle", "schedule", "create_task", "delay", "finish", "startTake", "open",
           "publish", "starting", "startFailed", "stopTake", "teardown"}

-----------------------------------------------------------------------------
(* Tasks and the mutex. *)

Goes(t, place) == at' = [at EXCEPT ![t] = place]

MutexFree == sending = NoTask

\* The only long section under the mutex is a send; a wait cannot end in a
\* timeout for another reason.
MutexTimesOut == SlowSend /\ sending # NoTask

\* webrtc_generation_is_current
IsCurrent(g) == webrtc # NoHandle /\ g = generation

\* Mutant: the handle taken stays published.
TakeOverKeepsHandle(c) ==
    /\ mine' = [mine EXCEPT ![c] = webrtc]
    /\ generation' = generation + 1
    /\ updTask' = NoHandle /\ updGen' = NoHandle
    /\ ready' = {}
    /\ UNCHANGED webrtc

\* Mutant: the last session's readiness is not forgotten.
TakeOverKeepsReady(c) ==
    /\ mine' = [mine EXCEPT ![c] = webrtc]
    /\ webrtc' = NoHandle
    /\ generation' = generation + 1
    /\ updTask' = NoHandle /\ updGen' = NoHandle
    /\ UNCHANGED ready

\* What start and stop do under the mutex: take the published handle into the
\* caller's hands, count the generation up and forget the session's state.
TakeOver(c) ==
    /\ mine' = [mine EXCEPT ![c] = webrtc]
    /\ webrtc' = NoHandle
    /\ generation' = generation + 1
    /\ updTask' = NoHandle /\ updGen' = NoHandle
    /\ ready' = {}

WebrtcInit ==
    /\ webrtc = NoHandle /\ generation = 0
    /\ mine = [c \in Callers |-> NoHandle] /\ disturbed = {}
    /\ startingBit = {} /\ media = {}
    /\ peer = [g \in Generations |-> "none"]
    /\ at = [t \in Tasks |-> "idle"]
    /\ sending = NoTask
    /\ updTask = NoHandle /\ updGen = NoHandle
    /\ sched = [g \in Generations |-> NoHandle]
    /\ ready = {}
    /\ channels = {} /\ updates = {} /\ announced = {}

-----------------------------------------------------------------------------
(* start_webrtc, called by the orchestrator in STATE_IGNITING once the     *)
(* audio runtime is ready.                                                 *)

CallStart ==
    /\ at[Orch] = "idle"
    /\ LateStop \/ at[Stopper] = "idle"
    /\ media' = {BUILT}
    /\ Goes(Orch, "startTake")
    /\ UNCHANGED <<handleVars, startingBit, peer, sending, updateVars, ready, channelVars>>

StartTake ==
    /\ at[Orch] = "startTake" /\ MutexFree
    /\ generation < MaxGeneration
    /\ TakeOver(Orch)
    /\ disturbed' = IF webrtc # NoHandle THEN disturbed \union {generation + 1} ELSE disturbed
    /\ Goes(Orch, IF webrtc # NoHandle THEN "closeOld" ELSE "open")
    /\ UNCHANGED <<runtimeVars, peer, sending, sched, channelVars>>

StartGivesUp ==
    /\ at[Orch] = "startTake" /\ MutexTimesOut
    /\ Goes(Orch, "idle")
    /\ UNCHANGED <<handleVars, runtimeVars, peer, sending, updateVars, ready, channelVars>>

\* The new handle's context is the generation counted by this start.
Open ==
    /\ at[Orch] = "open"
    /\ \/ /\ peer' = [peer EXCEPT ![generation] = "opened"]
          /\ mine' = [mine EXCEPT ![Orch] = generation]
          /\ startingBit' = {STARTING}
          /\ Goes(Orch, "publish")
       \/ /\ startingBit' = {}
          /\ Goes(Orch, "idle")
          /\ UNCHANGED <<peer, mine>>
    /\ UNCHANGED <<webrtc, generation, disturbed, media, sending, updateVars, ready, channelVars>>

\* Nothing is sent over a handle that is not published, so the mutex is had.
Publish ==
    /\ at[Orch] = "publish" /\ MutexFree
    /\ webrtc' = mine[Orch]
    /\ Goes(Orch, "starting")
    /\ UNCHANGED <<generation, mine, disturbed, runtimeVars, peer, sending, updateVars, ready, channelVars>>

\* openai_signaling_start hands over the ICE servers; pc_start makes the peer
\* connection and its task, and its failure is not reported.
PeerRuns ==
    /\ at[Orch] = "starting" /\ peer[mine[Orch]] = "opened"
    /\ peer' = [peer EXCEPT ![mine[Orch]] = "running"]
    /\ UNCHANGED <<handleVars, runtimeVars, at, sending, updateVars, ready, channelVars>>

\* esp_webrtc_start fails only when there is no memory for the signalling.
StartReturns ==
    /\ at[Orch] = "starting"
    /\ \/ /\ mine' = [mine EXCEPT ![Orch] = NoHandle]
          /\ Goes(Orch, "idle")
          /\ UNCHANGED startingBit
       \/ /\ peer[mine[Orch]] = "opened"
          /\ startingBit' = {}
          /\ Goes(Orch, "startFailed")
          /\ UNCHANGED mine
    /\ UNCHANGED <<webrtc, generation, disturbed, media, peer, sending, updateVars, ready, channelVars>>

\* After the failure: withdraw the handle if it is still this one, close it.
\* Its channel was never open, so no send holds the mutex.
Withdraw ==
    /\ at[Orch] = "startFailed" /\ MutexFree
    /\ IF webrtc = mine[Orch]
       THEN generation < MaxGeneration /\ TakeOver(Orch)
       ELSE UNCHANGED <<webrtc, generation, mine, updTask, updGen, ready>>
    /\ Goes(Orch, "closeNew")
    /\ UNCHANGED <<disturbed, runtimeVars, peer, sending, sched, channelVars>>

-----------------------------------------------------------------------------
(* stop_webrtc, called by the orchestrator itself and by its stop task. *)

\* Mutant: the stop forgets WEBRTC_STARTING_BIT.
CallStopKeepsBit(c) ==
    /\ at[c] = "idle"
    /\ c = Stopper => at[Orch] = "idle"
    /\ Goes(c, "stopTake")
    /\ UNCHANGED <<handleVars, runtimeVars, peer, sending, updateVars, ready, channelVars>>

CallStop(c) ==
    /\ at[c] = "idle"
    /\ c = Stopper => at[Orch] = "idle"
    /\ startingBit' = {}
    /\ Goes(c, "stopTake")
    /\ UNCHANGED <<handleVars, media, peer, sending, updateVars, ready, channelVars>>

StopTake(c) ==
    /\ at[c] = "stopTake" /\ MutexFree
    /\ generation < MaxGeneration
    /\ TakeOver(c)
    /\ Goes(c, IF webrtc # NoHandle THEN "closeStop" ELSE "teardown")
    /\ UNCHANGED <<disturbed, runtimeVars, peer, sending, sched, channelVars>>

\* Mutant: the generation is counted up before the mutex is had.
StopGivesUpCounted(c) ==
    /\ at[c] = "stopTake" /\ MutexTimesOut
    /\ generation < MaxGeneration /\ generation' = generation + 1
    /\ Goes(c, "idle")
    /\ UNCHANGED <<webrtc, mine, disturbed, runtimeVars, peer, sending, updateVars, ready, channelVars>>

\* Mutant: without the mutex the stop goes on to the audio all the same.
StopGoesOn(c) ==
    /\ at[c] = "stopTake" /\ MutexTimesOut
    /\ Goes(c, "teardown")
    /\ UNCHANGED <<handleVars, runtimeVars, peer, sending, updateVars, ready, channelVars>>

\* Without the mutex for 500 ms, stop_webrtc returns -1 and leaves all as it is.
StopGivesUp(c) ==
    /\ at[c] = "stopTake" /\ MutexTimesOut
    /\ Goes(c, "idle")
    /\ UNCHANGED <<handleVars, runtimeVars, peer, sending, updateVars, ready, channelVars>>

\* media_sys_teardown
Teardown(c) ==
    /\ at[c] = "teardown"
    /\ media' = {}
    /\ Goes(c, "idle")
    /\ UNCHANGED <<handleVars, startingBit, peer, sending, updateVars, ready, channelVars>>

-----------------------------------------------------------------------------
(* esp_webrtc_close: no callback starts once closing is set, and the peer  *)
(* task is joined before the connection is freed.                          *)

CloseBegin(c) ==
    /\ at[c] \in CloseBegins
    /\ peer' = [peer EXCEPT ![mine[c]] = "closing"]
    /\ Goes(c, CASE at[c] = "closeOld" -> "joinOld"
                 [] at[c] = "closeNew" -> "joinNew"
                 [] at[c] = "closeStop" -> "joinStop")
    /\ UNCHANGED <<handleVars, runtimeVars, sending, updateVars, ready, channelVars>>

\* esp_peer_disconnect reports an open channel as closed, from the closer's
\* task; the handler tests the generation as ever.
CloseEnd(c) ==
    /\ at[c] \in CloseEnds
    /\ at[mine[c]] = "idle"
    /\ peer' = [peer EXCEPT ![mine[c]] = "closed"]
    /\ channels' = channels \ {mine[c]} /\ updates' = updates \ {mine[c]}
    /\ announced' = announced \ {mine[c]} /\ disturbed' = disturbed \ {mine[c]}
    /\ ready' = IF mine[c] \in channels /\ IsCurrent(mine[c]) THEN {} ELSE ready
    /\ mine' = [mine EXCEPT ![c] = NoHandle]
    /\ Goes(c, CASE at[c] = "joinOld" -> "open"
                 [] at[c] = "joinNew" -> "idle"
                 [] at[c] = "joinStop" -> "teardown")
    /\ UNCHANGED <<webrtc, generation, runtimeVars, sending, updateVars>>

-----------------------------------------------------------------------------
(* webrtc_event_handler and webrtc_data_handler, on the pc_task. *)

Possible(g, e) ==
    CASE e = "dc_open" -> g \notin channels
      [] e = "updated" -> g \in channels \intersect updates
      [] OTHER -> TRUE

\* A callback tests its generation; an old one, or one that cannot have the
\* mutex in 200 ms, is ignored.
Deliver(g, e) ==
    /\ peer[g] = "running" /\ at[g] = "idle" /\ Possible(g, e)
    /\ channels' = CASE e = "dc_open" -> channels \union {g}
                     [] e = "dc_closed" -> channels \ {g}
                     [] OTHER -> channels
    /\ updates' = updates \ {g}
    /\ \/ MutexFree /\ Goes(g, IF IsCurrent(g) THEN e ELSE "idle")
       \/ MutexTimesOut /\ UNCHANGED at
    /\ UNCHANGED <<handleVars, runtimeVars, peer, sending, updateVars, ready, announced>>

OnChannelOpen(g) ==
    /\ at[g] = "dc_open"
    /\ ready' = {}
    /\ startingBit' = {}
    /\ Goes(g, "schedule")
    /\ UNCHANGED <<handleVars, media, peer, sending, updateVars, channelVars>>

\* A closed channel, a lost peer or a failed connection.
OnChannelClosed(g) ==
    /\ at[g] = "dc_closed"
    /\ ready' = {}
    /\ startingBit' = {}
    /\ Goes(g, "idle")
    /\ UNCHANGED <<handleVars, media, peer, sending, updateVars, channelVars>>

\* The first session.updated of a session is announced to the orchestrator.
OnUpdated(g) ==
    /\ at[g] = "updated"
    /\ announced' = IF READY \notin ready THEN announced \union {g} ELSE announced
    /\ ready' = {READY}
    /\ Goes(g, "idle")
    /\ UNCHANGED <<handleVars, runtimeVars, peer, sending, updateVars, channels, updates>>

\* Mutant: the test compares the task with the wrong generation.
RegisteredWrongly == updTask # NoHandle /\ updGen # generation

\* schedule_session_update: one task per generation, registered under the mutex.
Registered == updTask # NoHandle /\ updGen = generation

Schedule(g) ==
    /\ at[g] = "schedule"
    /\ \/ /\ MutexFree /\ ~Registered
          /\ updGen' = generation
          /\ sched' = [sched EXCEPT ![g] = generation]
          /\ Goes(g, "create_task")
       \/ /\ (MutexFree /\ Registered) \/ MutexTimesOut
          /\ Goes(g, "idle")
          /\ UNCHANGED <<updGen, sched>>
    /\ UNCHANGED <<handleVars, runtimeVars, peer, sending, updTask, ready, channelVars>>

CreateTask(g) ==
    /\ at[g] = "create_task"
    /\ \/ /\ updTask' = sched[g]
          /\ at' = [at EXCEPT ![g] = "idle", ![Updater(sched[g])] = "delay"]
          /\ UNCHANGED updGen
       \/ /\ updTask' = NoHandle /\ updGen' = NoHandle
          /\ Goes(g, "idle")
    /\ sched' = [sched EXCEPT ![g] = NoHandle]
    /\ UNCHANGED <<handleVars, runtimeVars, peer, sending, ready, channelVars>>

-----------------------------------------------------------------------------
(* session_update_task, and the messages of tool tasks. *)

UpdateAttempt(g) ==
    /\ at[Updater(g)] = "delay"
    /\ \/ MutexFree /\ Goes(Updater(g), IF IsCurrent(g) THEN "send_update" ELSE "finish")
       \/ MutexTimesOut /\ Goes(Updater(g), "finish")
    /\ UNCHANGED <<handleVars, runtimeVars, peer, sending, updateVars, ready, channelVars>>

UpdateFinish(g) ==
    /\ at[Updater(g)] = "finish"
    /\ \/ /\ MutexFree /\ updGen = g
          /\ updTask' = NoHandle /\ updGen' = NoHandle
       \/ /\ (MutexFree /\ updGen # g) \/ MutexTimesOut
          /\ UNCHANGED <<updTask, updGen>>
    /\ Goes(Updater(g), "idle")
    /\ UNCHANGED <<handleVars, runtimeVars, peer, sending, sched, ready, channelVars>>

ToolSpeaks ==
    /\ at[Tool] = "idle"
    /\ Goes(Tool, "send_message")
    /\ UNCHANGED <<handleVars, runtimeVars, peer, sending, updateVars, ready, channelVars>>

\* webrtc_send_json holds the mutex from the test to the end of the send, so
\* the published handle cannot be taken over under it.
CanSend == webrtc # NoHandle /\ webrtc \in channels

\* Where the task goes on.  A failed session.update is retried or, after the
\* last attempt, given up.
AfterSend(place, ok) ==
    IF place = "send_message" THEN {"idle"}
    ELSE IF ok THEN {"finish"} ELSE {"delay", "finish"}

SendBegin(t) ==
    /\ at[t] \in Sends /\ MutexFree /\ CanSend
    /\ sending' = t
    /\ UNCHANGED <<handleVars, runtimeVars, peer, at, updateVars, ready, channelVars>>

SendEnd(t) ==
    /\ sending = t
    /\ sending' = NoTask
    /\ \E ok \in BOOLEAN :
         /\ \E place \in AfterSend(at[t], ok) : Goes(t, place)
         /\ updates' = IF ok /\ at[t] = "send_update" THEN updates \union {webrtc} ELSE updates
    /\ UNCHANGED <<handleVars, runtimeVars, peer, updateVars, ready, channels, announced>>

SendRefused(t) ==
    /\ at[t] \in Sends /\ sending # t
    /\ (MutexFree /\ ~CanSend) \/ MutexTimesOut
    /\ \E place \in AfterSend(at[t], FALSE) : Goes(t, place)
    /\ UNCHANGED <<handleVars, runtimeVars, peer, sending, updateVars, ready, channelVars>>

-----------------------------------------------------------------------------
StartStep ==
    \/ CallStart \/ StartTake \/ StartGivesUp \/ Open \/ Publish
    \/ PeerRuns \/ StartReturns \/ Withdraw

StopStep(c) ==
    \/ CallStop(c) \/ StopTake(c) \/ StopGivesUp(c) \/ Teardown(c)
    \/ CloseBegin(c) \/ CloseEnd(c)

PeerStep(g) ==
    \/ \E e \in Events : Deliver(g, e)
    \/ OnChannelOpen(g) \/ OnChannelClosed(g) \/ OnUpdated(g) \/ Schedule(g) \/ CreateTask(g)
    \/ UpdateAttempt(g) \/ UpdateFinish(g)

SendStep(t) == SendBegin(t) \/ SendEnd(t) \/ SendRefused(t)

WebrtcNext ==
    \/ StartStep
    \/ \E c \in Callers : StopStep(c)
    \/ \E g \in Generations : PeerStep(g)
    \/ ToolSpeaks
    \/ \E t \in Tasks : SendStep(t)

WebrtcSpec == WebrtcInit /\ [][WebrtcNext]_webrtcVars

-----------------------------------------------------------------------------
\* Every variable has its type.
WebrtcTypeOK ==
    /\ webrtc \in Handles /\ generation \in 0..MaxGeneration
    /\ mine \in [Callers -> Handles] /\ disturbed \subseteq Generations
    /\ startingBit \subseteq {STARTING} /\ media \subseteq {BUILT}
    /\ peer \in [Generations -> {"none", "opened", "running", "closing", "closed"}]
    /\ at \in [Tasks -> Places]
    /\ sending \in Tasks \union {NoTask}
    /\ updTask \in Handles /\ updGen \in Handles /\ sched \in [Generations -> Handles]
    /\ ready \subseteq {READY}
    /\ channels \subseteq Generations /\ updates \subseteq Generations
    /\ announced \subseteq Generations

Alive(g) == peer[g] \in {"opened", "running"}

\* Every open handle is published or in the hands of a caller, the published
\* one is open, and a handle being closed is neither published nor in the hands
\* of another caller.
HandleOwned ==
    /\ webrtc # NoHandle => Alive(webrtc)
    /\ \A g \in Generations : Alive(g) => webrtc = g \/ \E c \in Callers : mine[c] = g
    /\ \A c \in Callers : at[c] \in Closing => /\ mine[c] \in Generations
                                               /\ webrtc # mine[c]
                                               /\ \A d \in Callers \ {c} : mine[d] # mine[c]

\* The callbacks of the published handle are never taken for those of an old one.
SessionIsHeard == webrtc # NoHandle => webrtc = generation

\* BLE holds its scans back for WEBRTC_STARTING_BIT: it is set only while a
\* session is being started or is open.
InStart == at[Orch] \in {"closeOld", "joinOld", "open", "publish", "starting"}
StartingMeansAttempt == startingBit # {} => InStart \/ webrtc # NoHandle

\* No second session.update task is made for a generation that has one.
UpdateOnce ==
    \A g \in Generations : at[g] = "create_task" => at[Updater(sched[g])] = "idle"

\* Audio is not torn down under an open session.
SessionHasMedia == webrtc # NoHandle => media # {}

\* A session that believes itself ready has told the orchestrator, which waits
\* for WEBRTC_CONNECTED in STATE_IGNITING: no flag set by an old session's
\* callback makes a new session take its own session.updated for a repetition.
ReadyAnnounced ==
    (webrtc # NoHandle /\ READY \in ready) => webrtc \in announced \union disturbed
=============================================================================
