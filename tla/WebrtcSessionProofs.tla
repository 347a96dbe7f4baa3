------------------------- MODULE WebrtcSessionProofs -------------------------
(***************************************************************************)
(* Proofs about the Realtime sessions, for any number of generations.      *)
(*                                                                         *)
(* Who owns a handle is known from where the two callers of start_webrtc   *)
(* and stop_webrtc are (Core); the callbacks and the other tasks touch     *)
(* nothing of that, once it is known that they are other tasks (Aux).  As  *)
(* in the runs, no session is started under a running stop task, but for   *)
(* the types, which the last section proves without that.                  *)
(*                                                                         *)
(* What update tasks and readiness do depends on pc_tasks of several       *)
(* generations, so SessionInv says first that at most one handle is not    *)
(* closed to its end and that a pc_task runs handlers only until it is     *)
(* joined; then that the task of the present generation is registered, and *)
(* that readiness is forgotten before a session is opened.                 *)
(***************************************************************************)
EXTENDS WebrtcSession, TLAPS

StartPlaces == {"startTake", "closeOld", "joinOld", "open", "publish", "starting",
                "startFailed", "closeNew", "joinNew"}
StopPlaces == {"stopTake", "closeStop", "joinStop", "teardown"}
HasNew == {"publish", "starting", "startFailed"}

\* A start has the device to itself, and a stop task makes no start.
StartIsAlone ==
    /\ at[Orch] \in {"idle"} \union StartPlaces \union StopPlaces
    /\ at[Stopper] \in {"idle"} \union StopPlaces
    /\ at[Orch] \in StartPlaces => at[Stopper] = "idle" /\ media # {}

\* What callers have in their hands: an old handle that they close, or the new
\* one of a start.
Hands ==
    /\ \A c \in Callers : (mine[c] \in Generations) <=> (at[c] \in Closing \union HasNew)
    /\ \A c \in Callers : at[c] \in Closing => webrtc # mine[c]
    /\ at[Orch] \in Closing /\ at[Stopper] \in Closing => mine[Orch] # mine[Stopper]
    /\ at[Orch] \in HasNew => mine[Orch] = generation /\ Alive(generation)

\* When no handle is published, and when it is the new one.
Published ==
    /\ webrtc # NoHandle => webrtc = generation /\ Alive(webrtc) /\ media # {}
    /\ at[Orch] \in {"closeOld", "joinOld", "open", "publish"} => webrtc = NoHandle
    /\ at[Orch] \in {"starting", "startFailed"} => webrtc = generation
    /\ \A c \in Callers : at[c] \in StopPlaces \ {"stopTake"} => webrtc = NoHandle

\* No handle is left open by mistake.
Owned == \A g \in Generations :
            Alive(g) => webrtc = g \/ \E c \in Callers : mine[c] = g

\* WEBRTC_STARTING_BIT is cleared before a handle is taken away for good.
BitCleared ==
    /\ \A c \in Callers : at[c] \in StopPlaces => startingBit = {}
    /\ at[Orch] \in {"startFailed", "closeNew", "joinNew"} => startingBit = {}
    /\ startingBit # {} => InStart \/ webrtc # NoHandle

Core == StartIsAlone /\ Hands /\ Published /\ Owned /\ BitCleared

\* Handles are opened in order; pc_tasks run the handlers of theirs and make
\* session.update tasks for a generation; the mutex is held to send by other tasks
\* than these and the callers, and over a published handle.
Aux ==
    /\ \A g \in Generations : peer[g] # "none" \/ at[g] # "idle" => g <= generation
    /\ \A c \in Callers : mine[c] \in Generations => mine[c] <= generation
    /\ \A g \in Generations : at[g] \in Events \union {"idle", "schedule", "create_task"}
    /\ \A g \in Generations : at[g] = "create_task" => sched[g] \in Generations
    /\ at[Orch] \in StartPlaces \ {"startTake"} => generation \in Generations
    /\ sending # NoTask => sending \in Tasks \ (Callers \union Generations) /\ webrtc # NoHandle

\* The type invariant in four parts.
HandleTypes ==
    /\ webrtc \in Handles /\ generation \in 0..MaxGeneration
    /\ mine \in [Callers -> Handles] /\ disturbed \subseteq Generations
FlagTypes ==
    /\ startingBit \subseteq {STARTING} /\ media \subseteq {BUILT} /\ ready \subseteq {READY}
    /\ channels \subseteq Generations /\ updates \subseteq Generations
    /\ announced \subseteq Generations
TaskTypes ==
    /\ peer \in [Generations -> {"none", "opened", "running", "closing", "closed"}]
    /\ at \in [Tasks -> Places]
    /\ sending \in Tasks \union {NoTask}
UpdateTypes == updTask \in Handles /\ updGen \in Handles /\ sched \in [Generations -> Handles]
Types == HandleTypes /\ FlagTypes /\ TaskTypes /\ UpdateTypes

IInv == Types /\ Core /\ Aux

-----------------------------------------------------------------------------
(* Tasks and generations *)

\* The orchestrator, the stop task, the pc_tasks and the others are different.
LEMMA TaskFacts ==
    /\ Callers = {Orch, Stopper} /\ Orch # Stopper
    /\ Callers \subseteq Tasks /\ Generations \subseteq Tasks /\ Tool \in Tasks
    /\ \A g \in Generations : g \notin Callers /\ g # NoHandle
    /\ \A g \in Generations : Updater(g) \in Tasks \ (Callers \union Generations)
    /\ Tool \notin Callers \union Generations /\ NoTask \notin Tasks
  BY GenerationAssumption, SMT
  DEF Callers, Orch, Stopper, Tasks, Generations, Tool, Updater, NoHandle, NoTask

\* The next generation is one.
LEMMA GenerationGrows ==
    ASSUME generation \in 0..MaxGeneration, generation < MaxGeneration
    PROVE  /\ generation + 1 \in Generations /\ generation + 1 \in 0..MaxGeneration
           /\ \A g \in Generations : g <= generation => g <= generation + 1
  BY GenerationAssumption, SMT DEF Generations

\* So is the present one when it is not before one.
LEMMA ThisGeneration ==
    ASSUME generation \in 0..MaxGeneration, NEW g \in Generations, g <= generation
    PROVE  generation \in Generations
  BY GenerationAssumption, SMT DEF Generations

\* A generation is a handle, NoHandle is none.
LEMMA HandleFacts == Handles = Generations \union {NoHandle} /\ NoHandle \notin Generations
  BY DEF Handles, Generations, NoHandle

-----------------------------------------------------------------------------
(* Steps of the callers *)

\* A start is called while the stop task is away.
LEMMA CallStartGood == ASSUME IInv, ~LateStop, CallStart PROVE IInv'
<1>1. StartIsAlone'
  BY TaskFacts, SMT DEF IInv, Types, FlagTypes, TaskTypes, Core, StartIsAlone, CallStart,
    Goes, CloseBegins, CloseEnds, Closing, StartPlaces, StopPlaces, HasNew, handleVars
<1>2. Hands'
  BY TaskFacts, HandleFacts, SMT DEF IInv, Types, HandleTypes, TaskTypes, Core,
    StartIsAlone, Hands, Published, Alive, CallStart, Goes, CloseBegins, CloseEnds,
    Closing, StartPlaces, StopPlaces, HasNew, handleVars
<1>3. Published'
  BY TaskFacts, HandleFacts, SMT DEF IInv, Types, HandleTypes, TaskTypes, Core,
    StartIsAlone, Hands, Published, Alive, CallStart, Goes, CloseBegins, CloseEnds,
    Closing, StartPlaces, StopPlaces, HasNew, handleVars
<1>4. Owned'
  BY TaskFacts, SMT DEF IInv, Types, HandleTypes, TaskTypes, Core, StartIsAlone, Hands,
    Published, Owned, Alive, CallStart, Goes, CloseBegins, CloseEnds, Closing, StartPlaces,
    StopPlaces, HasNew, handleVars
<1>5. BitCleared'
  BY TaskFacts, SMT DEF IInv, Types, HandleTypes, TaskTypes, Core, StartIsAlone, Published,
    BitCleared, InStart, CallStart, Goes, CloseBegins, CloseEnds, Closing, StartPlaces,
    StopPlaces, HasNew, handleVars
<1>6. HandleTypes'
  BY SMT DEF IInv, Types, HandleTypes, CallStart, handleVars
<1>7. FlagTypes'
  BY TaskFacts, SMT DEF IInv, Types, FlagTypes, HandleTypes, BUILT, CallStart, Goes,
    handleVars, updateVars, channelVars
<1>8. TaskTypes'
  BY TaskFacts, SMT DEF IInv, Types, TaskTypes, HandleTypes, UpdateTypes, Aux, Places,
    Sends, Events, Core, Hands, HasNew, CloseBegins, CloseEnds, Closing, CallStart, Goes,
    handleVars, updateVars, channelVars
<1>9. UpdateTypes'
  BY SMT DEF IInv, Types, UpdateTypes, CallStart, updateVars
<1>10. Aux'
  BY TaskFacts, HandleFacts, SMT DEF IInv, Types, HandleTypes, TaskTypes, Core,
    StartIsAlone, Hands, Published, Aux, CallStart, Goes, Sends, Events, CloseBegins,
    CloseEnds, Closing, StartPlaces, StopPlaces, HasNew, handleVars, updateVars,
    channelVars
<1> QED BY <1>1, <1>2, <1>3, <1>4, <1>5, <1>6, <1>7, <1>8, <1>9, <1>10 DEF IInv, Types, Core

\* The old handle is taken over.
LEMMA StartTakeGood == ASSUME IInv, StartTake PROVE IInv'
<1>1. StartIsAlone'
  BY TaskFacts, SMT DEF IInv, Types, TaskTypes, Core, StartIsAlone, StartTake, TakeOver,
    Goes, MutexFree, CloseBegins, CloseEnds, Closing, StartPlaces, StopPlaces, HasNew,
    runtimeVars
<1>2. Hands'
  <2>1. CASE webrtc = NoHandle
    BY <2>1, TaskFacts, HandleFacts, GenerationGrows, SMT
      DEF IInv, Types, HandleTypes, TaskTypes, Core, StartIsAlone, Hands, Published,
        Alive, StartTake, TakeOver, Goes, CloseBegins,
      CloseEnds, Closing, StartPlaces, StopPlaces, HasNew, handleVars, runtimeVars
  <2>2. CASE webrtc # NoHandle
    <3>1. /\ at' = [at EXCEPT ![Orch] = "closeOld"]
          /\ mine' = [mine EXCEPT ![Orch] = webrtc] /\ webrtc' = NoHandle
          /\ at[Orch] = "startTake" /\ peer' = peer
      BY <2>2, Zenon DEF StartTake, TakeOver, Goes, runtimeVars
    <3>2. webrtc \in Generations
      BY <2>2, HandleFacts DEF IInv, Types, HandleTypes
    <3> QED
      BY <2>2, <3>1, <3>2, TaskFacts, HandleFacts, SMT
        DEF IInv, Types, HandleTypes, TaskTypes, Core, StartIsAlone, Hands, Published,
          Alive, CloseBegins,
        CloseEnds, Closing, StartPlaces, StopPlaces, HasNew
  <2> QED BY <2>1, <2>2
<1>3. Published'
  BY TaskFacts, HandleFacts, GenerationGrows, SMT DEF IInv, Types, HandleTypes, TaskTypes,
    Core, StartIsAlone, Hands, Published, Alive, StartTake, TakeOver, Goes, MutexFree,
    CloseBegins, CloseEnds, Closing, StartPlaces, StopPlaces, HasNew, runtimeVars
<1>4. Owned'
  BY TaskFacts, SMT DEF IInv, Types, HandleTypes, TaskTypes, Core, StartIsAlone, Hands,
    Published, Owned, Alive, StartTake, TakeOver, Goes, MutexFree, CloseBegins, CloseEnds,
    Closing, StartPlaces, StopPlaces, HasNew, runtimeVars
<1>5. BitCleared'
  BY TaskFacts, SMT DEF IInv, Types, HandleTypes, TaskTypes, Core, StartIsAlone, Published,
    BitCleared, InStart, StartTake, TakeOver, Goes, MutexFree, CloseBegins, CloseEnds,
    Closing, StartPlaces, StopPlaces, HasNew, runtimeVars
<1>6. HandleTypes'
  BY TaskFacts, HandleFacts, GenerationGrows, SMT DEF IInv, Types, HandleTypes, TaskTypes,
    StartTake, TakeOver, Goes, MutexFree, runtimeVars, channelVars
<1>7. FlagTypes'
  BY TaskFacts, SMT DEF IInv, Types, FlagTypes, HandleTypes, StartTake, TakeOver, Goes,
    MutexFree, runtimeVars, channelVars
<1>8. TaskTypes'
  BY TaskFacts, SMT DEF IInv, Types, TaskTypes, HandleTypes, UpdateTypes, Aux, Places,
    Sends, Events, Core, Hands, HasNew, CloseBegins, CloseEnds, Closing, StartTake,
    TakeOver, Goes, MutexFree, runtimeVars, channelVars
<1>9. UpdateTypes'
  BY HandleFacts, SMT DEF IInv, Types, UpdateTypes, HandleTypes, StartTake, TakeOver, Goes,
    MutexFree, runtimeVars, channelVars
<1>10. Aux'
  BY TaskFacts, HandleFacts, GenerationGrows, SMT DEF IInv, Types, HandleTypes, TaskTypes,
    Core, StartIsAlone, Hands, Published, Aux, StartTake, TakeOver, Goes, MutexFree, Sends,
    Events, CloseBegins, CloseEnds, Closing, StartPlaces, StopPlaces, HasNew, runtimeVars,
    channelVars
<1> QED BY <1>1, <1>2, <1>3, <1>4, <1>5, <1>6, <1>7, <1>8, <1>9, <1>10 DEF IInv, Types, Core

\* The start does not get the mutex.
LEMMA StartGivesUpGood == ASSUME IInv, StartGivesUp PROVE IInv'
<1>1. StartIsAlone'
  BY TaskFacts, SMT DEF IInv, Types, TaskTypes, Core, StartIsAlone, StartGivesUp, Goes,
    CloseBegins, CloseEnds, Closing, StartPlaces, StopPlaces, HasNew, handleVars,
    runtimeVars
<1>2. Hands'
  BY TaskFacts, HandleFacts, SMT DEF IInv, Types, HandleTypes, TaskTypes, Core,
    StartIsAlone, Hands, Published, Alive, StartGivesUp, Goes, CloseBegins, CloseEnds,
    Closing, StartPlaces, StopPlaces, HasNew, handleVars, runtimeVars
<1>3. Published'
  BY TaskFacts, HandleFacts, SMT DEF IInv, Types, HandleTypes, TaskTypes, Core,
    StartIsAlone, Hands, Published, Alive, StartGivesUp, Goes, CloseBegins, CloseEnds,
    Closing, StartPlaces, StopPlaces, HasNew, handleVars, runtimeVars
<1>4. Owned'
  BY TaskFacts, SMT DEF IInv, Types, HandleTypes, TaskTypes, Core, StartIsAlone, Hands,
    Published, Owned, Alive, StartGivesUp, Goes, CloseBegins, CloseEnds, Closing,
    StartPlaces, StopPlaces, HasNew, handleVars, runtimeVars
<1>5. BitCleared'
  BY TaskFacts, SMT DEF IInv, Types, HandleTypes, TaskTypes, Core, StartIsAlone, Published,
    BitCleared, InStart, StartGivesUp, Goes, CloseBegins, CloseEnds, Closing, StartPlaces,
    StopPlaces, HasNew, handleVars, runtimeVars
<1>6. HandleTypes'
  BY SMT DEF IInv, Types, HandleTypes, StartGivesUp, handleVars
<1>7. FlagTypes'
  BY SMT DEF IInv, Types, FlagTypes, StartGivesUp, runtimeVars, channelVars
<1>8. TaskTypes'
  BY TaskFacts, SMT DEF IInv, Types, TaskTypes, HandleTypes, UpdateTypes, Aux, Places,
    Sends, Events, Core, Hands, HasNew, CloseBegins, CloseEnds, Closing, StartGivesUp,
    Goes, handleVars, runtimeVars, updateVars, channelVars
<1>9. UpdateTypes'
  BY SMT DEF IInv, Types, UpdateTypes, StartGivesUp, updateVars
<1>10. Aux'
  BY TaskFacts, HandleFacts, SMT DEF IInv, Types, HandleTypes, TaskTypes, Core,
    StartIsAlone, Hands, Published, Aux, StartGivesUp, Goes, Sends, Events, CloseBegins,
    CloseEnds, Closing, StartPlaces, StopPlaces, HasNew, handleVars, runtimeVars,
    updateVars, channelVars
<1> QED BY <1>1, <1>2, <1>3, <1>4, <1>5, <1>6, <1>7, <1>8, <1>9, <1>10 DEF IInv, Types, Core

\* The new handle is opened, or not.
LEMMA OpenGood == ASSUME IInv, Open PROVE IInv'
<1>1. StartIsAlone'
  BY TaskFacts, SMT DEF IInv, Types, TaskTypes, Core, StartIsAlone, Open, Goes,
    CloseBegins, CloseEnds, Closing, StartPlaces, StopPlaces, HasNew
<1>2. Hands'
  <2>1. webrtc = NoHandle /\ UNCHANGED webrtc /\ generation' = generation
        /\ generation \in Generations /\ at[Orch] = "open" /\ at[Stopper] = "idle"
    BY Zenon DEF IInv, Core, Published, StartIsAlone, StartPlaces, Aux, Open
  <2>2. ASSUME peer' = [peer EXCEPT ![generation] = "opened"],
               mine' = [mine EXCEPT ![Orch] = generation], Goes(Orch, "publish")
        PROVE  Hands'
    BY <2>1, <2>2, TaskFacts, HandleFacts, SMT
      DEF IInv, Types, HandleTypes, TaskTypes, Core, Hands, Alive, Goes, CloseBegins,
      CloseEnds, Closing, HasNew
  <2>3. ASSUME Goes(Orch, "idle"), UNCHANGED <<peer, mine>> PROVE Hands'
    BY <2>1, <2>3, TaskFacts, HandleFacts, SMT
      DEF IInv, Types, HandleTypes, TaskTypes, Core, Hands, Alive, Goes, CloseBegins,
      CloseEnds, Closing, HasNew
  <2> QED BY <2>2, <2>3, Zenon DEF Open
<1>3. Published'
  BY TaskFacts, HandleFacts, SMT DEF IInv, Types, HandleTypes, TaskTypes, Core,
    StartIsAlone, Hands, Published, Alive, Open, Goes, CloseBegins, CloseEnds, Closing,
    StartPlaces, StopPlaces, HasNew
<1>4. Owned'
  BY TaskFacts, SMT DEF IInv, Types, HandleTypes, TaskTypes, Core, StartIsAlone, Hands,
    Published, Owned, Alive, Open, Goes, CloseBegins, CloseEnds, Closing, StartPlaces,
    StopPlaces, HasNew
<1>5. BitCleared'
  BY TaskFacts, SMT DEF IInv, Types, HandleTypes, TaskTypes, Core, StartIsAlone, Published,
    BitCleared, InStart, Open, Goes, CloseBegins, CloseEnds, Closing, StartPlaces,
    StopPlaces, HasNew
<1>6. HandleTypes'
  <2>1. generation \in Handles
    BY HandleFacts DEF IInv, Aux, Open, StartPlaces
  <2>2. UNCHANGED <<webrtc, generation, disturbed>>
    BY DEF Open
  <2>3. mine' = mine \/ mine' = [mine EXCEPT ![Orch] = generation]
    BY DEF Open
  <2> QED BY <2>1, <2>2, <2>3, SMT DEF IInv, Types, HandleTypes
<1>7. FlagTypes'
  BY TaskFacts, SMT DEF IInv, Types, FlagTypes, HandleTypes, STARTING, Open, Goes,
    updateVars, channelVars
<1>8. TaskTypes'
  BY TaskFacts, SMT DEF IInv, Types, TaskTypes, HandleTypes, UpdateTypes, Aux, Places,
    Sends, Events, Core, Hands, HasNew, CloseBegins, CloseEnds, Closing, Open, Goes,
    updateVars, channelVars
<1>9. UpdateTypes'
  BY SMT DEF IInv, Types, UpdateTypes, Open, updateVars
<1>10. Aux'
  BY TaskFacts, HandleFacts, SMT DEF IInv, Types, HandleTypes, TaskTypes, Core,
    StartIsAlone, Hands, Published, Aux, Open, Goes, Sends, Events, CloseBegins, CloseEnds,
    Closing, StartPlaces, StopPlaces, HasNew, updateVars, channelVars
<1> QED BY <1>1, <1>2, <1>3, <1>4, <1>5, <1>6, <1>7, <1>8, <1>9, <1>10 DEF IInv, Types, Core

\* It is published.
LEMMA PublishGood == ASSUME IInv, Publish PROVE IInv'
<1>1. StartIsAlone'
  BY TaskFacts, SMT DEF IInv, Types, TaskTypes, Core, StartIsAlone, Publish, Goes,
    MutexFree, CloseBegins, CloseEnds, Closing, StartPlaces, StopPlaces, HasNew,
    runtimeVars
<1>2. Hands'
  BY TaskFacts, HandleFacts, SMT DEF IInv, Types, HandleTypes, TaskTypes, Core,
    StartIsAlone, Hands, Published, Alive, Publish, Goes, MutexFree, CloseBegins,
    CloseEnds, Closing, StartPlaces, StopPlaces, HasNew, runtimeVars
<1>3. Published'
  BY TaskFacts, HandleFacts, SMT DEF IInv, Types, HandleTypes, TaskTypes, Core,
    StartIsAlone, Hands, Published, Alive, Publish, Goes, MutexFree, CloseBegins,
    CloseEnds, Closing, StartPlaces, StopPlaces, HasNew, runtimeVars
<1>4. Owned'
  BY TaskFacts, SMT DEF IInv, Types, HandleTypes, TaskTypes, Core, StartIsAlone, Hands,
    Published, Owned, Alive, Publish, Goes, MutexFree, CloseBegins, CloseEnds, Closing,
    StartPlaces, StopPlaces, HasNew, runtimeVars
<1>5. BitCleared'
  BY TaskFacts, SMT DEF IInv, Types, HandleTypes, TaskTypes, Core, StartIsAlone, Published,
    BitCleared, InStart, Publish, Goes, MutexFree, CloseBegins, CloseEnds, Closing,
    StartPlaces, StopPlaces, HasNew, runtimeVars
<1>6. HandleTypes'
  BY TaskFacts, HandleFacts, SMT DEF IInv, Types, HandleTypes, TaskTypes, Publish, Goes,
    MutexFree, runtimeVars, updateVars, channelVars
<1>7. FlagTypes'
  BY SMT DEF IInv, Types, FlagTypes, Publish, runtimeVars, channelVars
<1>8. TaskTypes'
  BY TaskFacts, SMT DEF IInv, Types, TaskTypes, HandleTypes, UpdateTypes, Aux, Places,
    Sends, Events, Core, Hands, HasNew, CloseBegins, CloseEnds, Closing, Publish, Goes,
    MutexFree, runtimeVars, updateVars, channelVars
<1>9. UpdateTypes'
  BY SMT DEF IInv, Types, UpdateTypes, Publish, updateVars
<1>10. Aux'
  BY TaskFacts, HandleFacts, SMT DEF IInv, Types, HandleTypes, TaskTypes, Core,
    StartIsAlone, Hands, Published, Aux, Publish, Goes, MutexFree, Sends, Events,
    CloseBegins, CloseEnds, Closing, StartPlaces, StopPlaces, HasNew, runtimeVars,
    updateVars, channelVars
<1> QED BY <1>1, <1>2, <1>3, <1>4, <1>5, <1>6, <1>7, <1>8, <1>9, <1>10 DEF IInv, Types, Core

\* Its peer connection comes up.
LEMMA PeerRunsGood == ASSUME IInv, PeerRuns PROVE IInv'
<1>1. StartIsAlone'
  BY TaskFacts, SMT DEF IInv, Types, TaskTypes, Core, StartIsAlone, PeerRuns, CloseBegins,
    CloseEnds, Closing, StartPlaces, StopPlaces, HasNew, handleVars, runtimeVars
<1>2. Hands'
  BY TaskFacts, HandleFacts, SMT DEF IInv, Types, HandleTypes, TaskTypes, Core,
    StartIsAlone, Hands, Published, Alive, PeerRuns, CloseBegins, CloseEnds, Closing,
    StartPlaces, StopPlaces, HasNew, handleVars, runtimeVars
<1>3. Published'
  BY TaskFacts, HandleFacts, SMT DEF IInv, Types, HandleTypes, TaskTypes, Core,
    StartIsAlone, Hands, Published, Alive, PeerRuns, CloseBegins, CloseEnds, Closing,
    StartPlaces, StopPlaces, HasNew, handleVars, runtimeVars
<1>4. Owned'
  BY TaskFacts, SMT DEF IInv, Types, HandleTypes, TaskTypes, Core, StartIsAlone, Hands,
    Published, Owned, Alive, PeerRuns, CloseBegins, CloseEnds, Closing, StartPlaces,
    StopPlaces, HasNew, handleVars, runtimeVars
<1>5. BitCleared'
  BY TaskFacts, SMT DEF IInv, Types, HandleTypes, TaskTypes, Core, StartIsAlone, Published,
    BitCleared, InStart, PeerRuns, CloseBegins, CloseEnds, Closing, StartPlaces,
    StopPlaces, HasNew, handleVars, runtimeVars
<1>6. HandleTypes'
  BY SMT DEF IInv, Types, HandleTypes, PeerRuns, handleVars
<1>7. FlagTypes'
  BY SMT DEF IInv, Types, FlagTypes, PeerRuns, runtimeVars, channelVars
<1>8. TaskTypes'
  BY TaskFacts, SMT DEF IInv, Types, TaskTypes, HandleTypes, UpdateTypes, Aux, Places,
    Sends, Events, Core, Hands, HasNew, CloseBegins, CloseEnds, Closing, PeerRuns,
    handleVars, runtimeVars, updateVars, channelVars
<1>9. UpdateTypes'
  BY SMT DEF IInv, Types, UpdateTypes, PeerRuns, updateVars
<1>10. Aux'
  BY TaskFacts, HandleFacts, SMT DEF IInv, Types, HandleTypes, TaskTypes, Core,
    StartIsAlone, Hands, Published, Aux, PeerRuns, Sends, Events, CloseBegins, CloseEnds,
    Closing, StartPlaces, StopPlaces, HasNew, handleVars, runtimeVars, updateVars,
    channelVars
<1> QED BY <1>1, <1>2, <1>3, <1>4, <1>5, <1>6, <1>7, <1>8, <1>9, <1>10 DEF IInv, Types, Core

\* The start is over, or has failed.
LEMMA StartReturnsGood == ASSUME IInv, StartReturns PROVE IInv'
<1>1. StartIsAlone'
  BY TaskFacts, SMT DEF IInv, Types, TaskTypes, Core, StartIsAlone, StartReturns, Goes,
    CloseBegins, CloseEnds, Closing, StartPlaces, StopPlaces, HasNew
<1>2. Hands'
  BY TaskFacts, HandleFacts, SMT DEF IInv, Types, HandleTypes, TaskTypes, Core,
    StartIsAlone, Hands, Published, Alive, StartReturns, Goes, CloseBegins, CloseEnds,
    Closing, StartPlaces, StopPlaces, HasNew
<1>3. Published'
  BY TaskFacts, HandleFacts, SMT DEF IInv, Types, HandleTypes, TaskTypes, Core,
    StartIsAlone, Hands, Published, Alive, StartReturns, Goes, CloseBegins, CloseEnds,
    Closing, StartPlaces, StopPlaces, HasNew
<1>4. Owned'
  BY TaskFacts, SMT DEF IInv, Types, HandleTypes, TaskTypes, Core, StartIsAlone, Hands,
    Published, Owned, Alive, StartReturns, Goes, CloseBegins, CloseEnds, Closing,
    StartPlaces, StopPlaces, HasNew
<1>5. BitCleared'
  <2>1. /\ at[Orch] = "starting" /\ UNCHANGED <<webrtc, media>>
        /\ webrtc \in Generations /\ at[Stopper] = "idle"
    BY Zenon DEF IInv, Core, StartIsAlone, Published, Aux, StartPlaces, StartReturns
  <2>2. ASSUME UNCHANGED startingBit, Goes(Orch, "idle") PROVE BitCleared'
    BY <2>1, <2>2, TaskFacts, HandleFacts, SMT DEF IInv, Types, TaskTypes, BitCleared,
      InStart, Goes, StopPlaces
  <2>3. ASSUME startingBit' = {}, Goes(Orch, "startFailed") PROVE BitCleared'
    BY <2>3 DEF BitCleared
  <2> QED BY <2>2, <2>3, Zenon DEF StartReturns
<1>6. HandleTypes'
  BY TaskFacts, HandleFacts, SMT DEF IInv, Types, HandleTypes, TaskTypes, StartReturns,
    Goes, updateVars, channelVars
<1>7. FlagTypes'
  <2>1. startingBit' = {} \/ startingBit' = startingBit
    BY DEF StartReturns
  <2>2. UNCHANGED <<media, ready, channels, updates, announced>>
    BY DEF StartReturns, channelVars
  <2> QED BY <2>1, <2>2, Zenon DEF IInv, Types, FlagTypes
<1>8. TaskTypes'
  BY TaskFacts, SMT DEF IInv, Types, TaskTypes, HandleTypes, UpdateTypes, Aux, Places,
    Sends, Events, Core, Hands, HasNew, CloseBegins, CloseEnds, Closing, StartReturns,
    Goes, updateVars, channelVars
<1>9. UpdateTypes'
  BY SMT DEF IInv, Types, UpdateTypes, StartReturns, updateVars
<1>10. Aux'
  BY TaskFacts, HandleFacts, SMT DEF IInv, Types, HandleTypes, TaskTypes, Core,
    StartIsAlone, Hands, Published, Aux, StartReturns, Goes, Sends, Events, CloseBegins,
    CloseEnds, Closing, StartPlaces, StopPlaces, HasNew, updateVars, channelVars
<1> QED BY <1>1, <1>2, <1>3, <1>4, <1>5, <1>6, <1>7, <1>8, <1>9, <1>10 DEF IInv, Types, Core

\* A failed start takes its handle back.
LEMMA WithdrawGood == ASSUME IInv, Withdraw PROVE IInv'
<1>1. StartIsAlone'
  BY TaskFacts, SMT DEF IInv, Types, TaskTypes, Core, StartIsAlone, Withdraw, TakeOver,
    Goes, MutexFree, CloseBegins, CloseEnds, Closing, StartPlaces, StopPlaces, HasNew,
    runtimeVars
<1>2. Hands'
  BY TaskFacts, HandleFacts, GenerationGrows, SMT DEF IInv, Types, HandleTypes, TaskTypes,
    Core, StartIsAlone, Hands, Published, Alive, Withdraw, TakeOver, Goes, MutexFree,
    CloseBegins, CloseEnds, Closing, StartPlaces, StopPlaces, HasNew, runtimeVars
<1>3. Published'
  BY TaskFacts, HandleFacts, GenerationGrows, SMT DEF IInv, Types, HandleTypes, TaskTypes,
    Core, StartIsAlone, Hands, Published, Alive, Withdraw, TakeOver, Goes, MutexFree,
    CloseBegins, CloseEnds, Closing, StartPlaces, StopPlaces, HasNew, runtimeVars
<1>4. Owned'
  BY TaskFacts, SMT DEF IInv, Types, HandleTypes, TaskTypes, Core, StartIsAlone, Hands,
    Published, Owned, Alive, Withdraw, TakeOver, Goes, MutexFree, CloseBegins, CloseEnds,
    Closing, StartPlaces, StopPlaces, HasNew, runtimeVars
<1>5. BitCleared'
  BY TaskFacts, SMT DEF IInv, Types, HandleTypes, TaskTypes, Core, StartIsAlone, Published,
    BitCleared, InStart, Withdraw, TakeOver, Goes, MutexFree, CloseBegins, CloseEnds,
    Closing, StartPlaces, StopPlaces, HasNew, runtimeVars
<1>6. HandleTypes'
  BY TaskFacts, HandleFacts, GenerationGrows, SMT DEF IInv, Types, HandleTypes, TaskTypes,
    Withdraw, TakeOver, Goes, MutexFree, runtimeVars, channelVars
<1>7. FlagTypes'
  <2>1. ready' = {} \/ ready' = ready
    BY Zenon DEF Withdraw, TakeOver
  <2>2. UNCHANGED <<startingBit, media, channels, updates, announced>>
    BY Zenon DEF Withdraw, runtimeVars, channelVars
  <2> QED BY <2>1, <2>2, Zenon DEF IInv, Types, FlagTypes
<1>8. TaskTypes'
  BY TaskFacts, SMT DEF IInv, Types, TaskTypes, HandleTypes, UpdateTypes, Aux, Places,
    Sends, Events, Core, Hands, HasNew, CloseBegins, CloseEnds, Closing, Withdraw,
    TakeOver, Goes, MutexFree, runtimeVars, channelVars
<1>9. UpdateTypes'
  BY HandleFacts, SMT DEF IInv, Types, UpdateTypes, HandleTypes, Withdraw, TakeOver, Goes,
    MutexFree, runtimeVars, channelVars
<1>10. Aux'
  BY TaskFacts, HandleFacts, GenerationGrows, SMT DEF IInv, Types, HandleTypes, TaskTypes,
    Core, StartIsAlone, Hands, Published, Aux, Withdraw, TakeOver, Goes, MutexFree, Sends,
    Events, CloseBegins, CloseEnds, Closing, StartPlaces, StopPlaces, HasNew, runtimeVars,
    channelVars
<1> QED BY <1>1, <1>2, <1>3, <1>4, <1>5, <1>6, <1>7, <1>8, <1>9, <1>10 DEF IInv, Types, Core

\* A stop is called.
LEMMA CallStopGood == ASSUME IInv, NEW c \in Callers, CallStop(c) PROVE IInv'
<1>1. StartIsAlone'
  BY TaskFacts, SMT DEF IInv, Types, TaskTypes, Core, StartIsAlone, CallStop, Goes,
    CloseBegins, CloseEnds, Closing, StartPlaces, StopPlaces, HasNew, handleVars
<1>2. Hands'
  BY TaskFacts, HandleFacts, SMT DEF IInv, Types, HandleTypes, TaskTypes, Core,
    StartIsAlone, Hands, Published, Alive, CallStop, Goes, CloseBegins, CloseEnds, Closing,
    StartPlaces, StopPlaces, HasNew, handleVars
<1>3. Published'
  BY TaskFacts, HandleFacts, SMT DEF IInv, Types, HandleTypes, TaskTypes, Core,
    StartIsAlone, Hands, Published, Alive, CallStop, Goes, CloseBegins, CloseEnds, Closing,
    StartPlaces, StopPlaces, HasNew, handleVars
<1>4. Owned'
  BY TaskFacts, SMT DEF IInv, Types, HandleTypes, TaskTypes, Core, StartIsAlone, Hands,
    Published, Owned, Alive, CallStop, Goes, CloseBegins, CloseEnds, Closing, StartPlaces,
    StopPlaces, HasNew, handleVars
<1>5. BitCleared'
  BY TaskFacts, SMT DEF IInv, Types, HandleTypes, TaskTypes, Core, StartIsAlone, Published,
    BitCleared, InStart, CallStop, Goes, CloseBegins, CloseEnds, Closing, StartPlaces,
    StopPlaces, HasNew, handleVars
<1>6. HandleTypes'
  BY SMT DEF IInv, Types, HandleTypes, CallStop, handleVars
<1>7. FlagTypes'
  BY TaskFacts, SMT DEF IInv, Types, FlagTypes, HandleTypes, CallStop, Goes, handleVars,
    updateVars, channelVars
<1>8. TaskTypes'
  BY TaskFacts, SMT DEF IInv, Types, TaskTypes, HandleTypes, UpdateTypes, Aux, Places,
    Sends, Events, Core, Hands, HasNew, CloseBegins, CloseEnds, Closing, CallStop, Goes,
    handleVars, updateVars, channelVars
<1>9. UpdateTypes'
  BY SMT DEF IInv, Types, UpdateTypes, CallStop, updateVars
<1>10. Aux'
  BY TaskFacts, HandleFacts, SMT DEF IInv, Types, HandleTypes, TaskTypes, Core,
    StartIsAlone, Hands, Published, Aux, CallStop, Goes, Sends, Events, CloseBegins,
    CloseEnds, Closing, StartPlaces, StopPlaces, HasNew, handleVars, updateVars,
    channelVars
<1> QED BY <1>1, <1>2, <1>3, <1>4, <1>5, <1>6, <1>7, <1>8, <1>9, <1>10 DEF IInv, Types, Core

\* The handle is taken over to be closed.
LEMMA StopTakeGood == ASSUME IInv, NEW c \in Callers, StopTake(c) PROVE IInv'
<1>1. StartIsAlone'
  BY TaskFacts, SMT DEF IInv, Types, TaskTypes, Core, StartIsAlone, StopTake, TakeOver,
    Goes, MutexFree, CloseBegins, CloseEnds, Closing, StartPlaces, StopPlaces, HasNew,
    runtimeVars
<1>2. Hands'
  <2>1. CASE webrtc = NoHandle
    BY <2>1, TaskFacts, HandleFacts, GenerationGrows, SMT
      DEF IInv, Types, HandleTypes, TaskTypes, Core, StartIsAlone, Hands, Published,
        Alive, StopTake, TakeOver, Goes, CloseBegins,
      CloseEnds, Closing, StartPlaces, StopPlaces, HasNew, handleVars, runtimeVars
  <2>2. CASE webrtc # NoHandle
    <3>1. /\ at' = [at EXCEPT ![c] = "closeStop"]
          /\ mine' = [mine EXCEPT ![c] = webrtc] /\ webrtc' = NoHandle
          /\ at[c] = "stopTake" /\ peer' = peer
      BY <2>2, Zenon DEF StopTake, TakeOver, Goes, runtimeVars
    <3>2. webrtc \in Generations
      BY <2>2, HandleFacts DEF IInv, Types, HandleTypes
    <3> QED
      BY <2>2, <3>1, <3>2, TaskFacts, HandleFacts, SMT
        DEF IInv, Types, HandleTypes, TaskTypes, Core, StartIsAlone, Hands, Published,
          Alive, CloseBegins,
        CloseEnds, Closing, StartPlaces, StopPlaces, HasNew
  <2> QED BY <2>1, <2>2
<1>3. Published'
  BY TaskFacts, HandleFacts, GenerationGrows, SMT DEF IInv, Types, HandleTypes, TaskTypes,
    Core, StartIsAlone, Hands, Published, Alive, StopTake, TakeOver, Goes, MutexFree,
    CloseBegins, CloseEnds, Closing, StartPlaces, StopPlaces, HasNew, runtimeVars
<1>4. Owned'
  BY TaskFacts, SMT DEF IInv, Types, HandleTypes, TaskTypes, Core, StartIsAlone, Hands,
    Published, Owned, Alive, StopTake, TakeOver, Goes, MutexFree, CloseBegins, CloseEnds,
    Closing, StartPlaces, StopPlaces, HasNew, runtimeVars
<1>5. BitCleared'
  BY TaskFacts, SMT DEF IInv, Types, HandleTypes, TaskTypes, Core, StartIsAlone, Published,
    BitCleared, InStart, StopTake, TakeOver, Goes, MutexFree, CloseBegins, CloseEnds,
    Closing, StartPlaces, StopPlaces, HasNew, runtimeVars
<1>6. HandleTypes'
  BY TaskFacts, HandleFacts, GenerationGrows, SMT DEF IInv, Types, HandleTypes, TaskTypes,
    StopTake, TakeOver, Goes, MutexFree, runtimeVars, channelVars
<1>7. FlagTypes'
  BY TaskFacts, SMT DEF IInv, Types, FlagTypes, HandleTypes, StopTake, TakeOver, Goes,
    MutexFree, runtimeVars, channelVars
<1>8. TaskTypes'
  BY TaskFacts, SMT DEF IInv, Types, TaskTypes, HandleTypes, UpdateTypes, Aux, Places,
    Sends, Events, Core, Hands, HasNew, CloseBegins, CloseEnds, Closing, StopTake,
    TakeOver, Goes, MutexFree, runtimeVars, channelVars
<1>9. UpdateTypes'
  BY HandleFacts, SMT DEF IInv, Types, UpdateTypes, HandleTypes, StopTake, TakeOver, Goes,
    MutexFree, runtimeVars, channelVars
<1>10. Aux'
  BY TaskFacts, HandleFacts, GenerationGrows, SMT DEF IInv, Types, HandleTypes, TaskTypes,
    Core, StartIsAlone, Hands, Published, Aux, StopTake, TakeOver, Goes, MutexFree, Sends,
    Events, CloseBegins, CloseEnds, Closing, StartPlaces, StopPlaces, HasNew, runtimeVars,
    channelVars
<1> QED BY <1>1, <1>2, <1>3, <1>4, <1>5, <1>6, <1>7, <1>8, <1>9, <1>10 DEF IInv, Types, Core

\* The stop does not get the mutex.
LEMMA StopGivesUpGood == ASSUME IInv, NEW c \in Callers, StopGivesUp(c) PROVE IInv'
<1>1. StartIsAlone'
  BY TaskFacts, SMT DEF IInv, Types, TaskTypes, Core, StartIsAlone, StopGivesUp, Goes,
    CloseBegins, CloseEnds, Closing, StartPlaces, StopPlaces, HasNew, handleVars,
    runtimeVars
<1>2. Hands'
  BY TaskFacts, HandleFacts, SMT DEF IInv, Types, HandleTypes, TaskTypes, Core,
    StartIsAlone, Hands, Published, Alive, StopGivesUp, Goes, CloseBegins, CloseEnds,
    Closing, StartPlaces, StopPlaces, HasNew, handleVars, runtimeVars
<1>3. Published'
  BY TaskFacts, HandleFacts, SMT DEF IInv, Types, HandleTypes, TaskTypes, Core,
    StartIsAlone, Hands, Published, Alive, StopGivesUp, Goes, CloseBegins, CloseEnds,
    Closing, StartPlaces, StopPlaces, HasNew, handleVars, runtimeVars
<1>4. Owned'
  BY TaskFacts, SMT DEF IInv, Types, HandleTypes, TaskTypes, Core, StartIsAlone, Hands,
    Published, Owned, Alive, StopGivesUp, Goes, CloseBegins, CloseEnds, Closing,
    StartPlaces, StopPlaces, HasNew, handleVars, runtimeVars
<1>5. BitCleared'
  BY TaskFacts, SMT DEF IInv, Types, HandleTypes, TaskTypes, Core, StartIsAlone, Published,
    BitCleared, InStart, StopGivesUp, Goes, CloseBegins, CloseEnds, Closing, StartPlaces,
    StopPlaces, HasNew, handleVars, runtimeVars
<1>6. HandleTypes'
  BY SMT DEF IInv, Types, HandleTypes, StopGivesUp, handleVars
<1>7. FlagTypes'
  BY SMT DEF IInv, Types, FlagTypes, StopGivesUp, runtimeVars, channelVars
<1>8. TaskTypes'
  BY TaskFacts, SMT DEF IInv, Types, TaskTypes, HandleTypes, UpdateTypes, Aux, Places,
    Sends, Events, Core, Hands, HasNew, CloseBegins, CloseEnds, Closing, StopGivesUp, Goes,
    handleVars, runtimeVars, updateVars, channelVars
<1>9. UpdateTypes'
  BY SMT DEF IInv, Types, UpdateTypes, StopGivesUp, updateVars
<1>10. Aux'
  BY TaskFacts, HandleFacts, SMT DEF IInv, Types, HandleTypes, TaskTypes, Core,
    StartIsAlone, Hands, Published, Aux, StopGivesUp, Goes, Sends, Events, CloseBegins,
    CloseEnds, Closing, StartPlaces, StopPlaces, HasNew, handleVars, runtimeVars,
    updateVars, channelVars
<1> QED BY <1>1, <1>2, <1>3, <1>4, <1>5, <1>6, <1>7, <1>8, <1>9, <1>10 DEF IInv, Types, Core

\* The audio runtime is torn down.
LEMMA TeardownGood == ASSUME IInv, NEW c \in Callers, Teardown(c) PROVE IInv'
<1>1. StartIsAlone'
  BY TaskFacts, SMT DEF IInv, Types, FlagTypes, TaskTypes, Core, StartIsAlone, Teardown,
    Goes, CloseBegins, CloseEnds, Closing, StartPlaces, StopPlaces, HasNew, handleVars
<1>2. Hands'
  BY TaskFacts, HandleFacts, SMT DEF IInv, Types, HandleTypes, TaskTypes, Core,
    StartIsAlone, Hands, Published, Alive, Teardown, Goes, CloseBegins, CloseEnds, Closing,
    StartPlaces, StopPlaces, HasNew, handleVars
<1>3. Published'
  BY TaskFacts, HandleFacts, SMT DEF IInv, Types, HandleTypes, TaskTypes, Core,
    StartIsAlone, Hands, Published, Alive, Teardown, Goes, CloseBegins, CloseEnds, Closing,
    StartPlaces, StopPlaces, HasNew, handleVars
<1>4. Owned'
  BY TaskFacts, SMT DEF IInv, Types, HandleTypes, TaskTypes, Core, StartIsAlone, Hands,
    Published, Owned, Alive, Teardown, Goes, CloseBegins, CloseEnds, Closing, StartPlaces,
    StopPlaces, HasNew, handleVars
<1>5. BitCleared'
  BY TaskFacts, SMT DEF IInv, Types, HandleTypes, TaskTypes, Core, StartIsAlone, Published,
    BitCleared, InStart, Teardown, Goes, CloseBegins, CloseEnds, Closing, StartPlaces,
    StopPlaces, HasNew, handleVars
<1>6. HandleTypes'
  BY SMT DEF IInv, Types, HandleTypes, Teardown, handleVars
<1>7. FlagTypes'
  BY TaskFacts, SMT DEF IInv, Types, FlagTypes, HandleTypes, Teardown, Goes, handleVars,
    updateVars, channelVars
<1>8. TaskTypes'
  BY TaskFacts, SMT DEF IInv, Types, TaskTypes, HandleTypes, UpdateTypes, Aux, Places,
    Sends, Events, Core, Hands, HasNew, CloseBegins, CloseEnds, Closing, Teardown, Goes,
    handleVars, updateVars, channelVars
<1>9. UpdateTypes'
  BY SMT DEF IInv, Types, UpdateTypes, Teardown, updateVars
<1>10. Aux'
  BY TaskFacts, HandleFacts, SMT DEF IInv, Types, HandleTypes, TaskTypes, Core,
    StartIsAlone, Hands, Published, Aux, Teardown, Goes, Sends, Events, CloseBegins,
    CloseEnds, Closing, StartPlaces, StopPlaces, HasNew, handleVars, updateVars,
    channelVars
<1> QED BY <1>1, <1>2, <1>3, <1>4, <1>5, <1>6, <1>7, <1>8, <1>9, <1>10 DEF IInv, Types, Core

\* No callback of the handle starts any more.
LEMMA CloseBeginGood == ASSUME IInv, NEW c \in Callers, CloseBegin(c) PROVE IInv'
<1>1. StartIsAlone'
  BY TaskFacts, SMT DEF IInv, Types, TaskTypes, Core, StartIsAlone, CloseBegin, Goes,
    CloseBegins, CloseEnds, Closing, StartPlaces, StopPlaces, HasNew, handleVars,
    runtimeVars
<1>2. Hands'
  BY TaskFacts, HandleFacts, SMT DEF IInv, Types, HandleTypes, TaskTypes, Core,
    StartIsAlone, Hands, Published, Alive, CloseBegin, Goes, CloseBegins, CloseEnds,
    Closing, StartPlaces, StopPlaces, HasNew, handleVars, runtimeVars
<1>3. Published'
  BY TaskFacts, HandleFacts, SMT DEF IInv, Types, HandleTypes, TaskTypes, Core,
    StartIsAlone, Hands, Published, Alive, CloseBegin, Goes, CloseBegins, CloseEnds,
    Closing, StartPlaces, StopPlaces, HasNew, handleVars, runtimeVars
<1>4. Owned'
  BY TaskFacts, SMT DEF IInv, Types, HandleTypes, TaskTypes, Core, StartIsAlone, Hands,
    Published, Owned, Alive, CloseBegin, Goes, CloseBegins, CloseEnds, Closing,
    StartPlaces, StopPlaces, HasNew, handleVars, runtimeVars
<1>5. BitCleared'
  BY TaskFacts, SMT DEF IInv, Types, HandleTypes, TaskTypes, Core, StartIsAlone, Published,
    BitCleared, InStart, CloseBegin, Goes, CloseBegins, CloseEnds, Closing, StartPlaces,
    StopPlaces, HasNew, handleVars, runtimeVars
<1>6. HandleTypes'
  BY SMT DEF IInv, Types, HandleTypes, CloseBegin, handleVars
<1>7. FlagTypes'
  BY SMT DEF IInv, Types, FlagTypes, CloseBegin, runtimeVars, channelVars
<1>8. TaskTypes'
  BY TaskFacts, SMT DEF IInv, Types, TaskTypes, HandleTypes, UpdateTypes, Aux, Places,
    Sends, Events, Core, Hands, HasNew, CloseBegins, CloseEnds, Closing, CloseBegin, Goes,
    handleVars, runtimeVars, updateVars, channelVars
<1>9. UpdateTypes'
  BY SMT DEF IInv, Types, UpdateTypes, CloseBegin, updateVars
<1>10. Aux'
  BY TaskFacts, HandleFacts, SMT DEF IInv, Types, HandleTypes, TaskTypes, Core,
    StartIsAlone, Hands, Published, Aux, CloseBegin, Goes, Sends, Events, CloseBegins,
    CloseEnds, Closing, StartPlaces, StopPlaces, HasNew, handleVars, runtimeVars,
    updateVars, channelVars
<1> QED BY <1>1, <1>2, <1>3, <1>4, <1>5, <1>6, <1>7, <1>8, <1>9, <1>10 DEF IInv, Types, Core

\* Its pc_task is joined.
LEMMA CloseEndGood == ASSUME IInv, NEW c \in Callers, CloseEnd(c) PROVE IInv'
<1>1. StartIsAlone'
  BY TaskFacts, SMT DEF IInv, Types, TaskTypes, Core, StartIsAlone, CloseEnd, Goes,
    IsCurrent, CloseBegins, CloseEnds, Closing, StartPlaces, StopPlaces, HasNew,
    runtimeVars
<1>2. Hands'
  BY TaskFacts, HandleFacts, SMT DEF IInv, Types, HandleTypes, TaskTypes, Core,
    StartIsAlone, Hands, Published, Alive, CloseEnd, Goes, IsCurrent, CloseBegins,
    CloseEnds, Closing, StartPlaces, StopPlaces, HasNew, runtimeVars
<1>3. Published'
  BY TaskFacts, HandleFacts, SMT DEF IInv, Types, HandleTypes, TaskTypes, Core,
    StartIsAlone, Hands, Published, Alive, CloseEnd, Goes, IsCurrent, CloseBegins,
    CloseEnds, Closing, StartPlaces, StopPlaces, HasNew, runtimeVars
<1>4. Owned'
  BY TaskFacts, SMT DEF IInv, Types, HandleTypes, TaskTypes, Core, StartIsAlone, Hands,
    Published, Owned, Alive, CloseEnd, Goes, IsCurrent, CloseBegins, CloseEnds, Closing,
    StartPlaces, StopPlaces, HasNew, runtimeVars
<1>5. BitCleared'
  BY TaskFacts, SMT DEF IInv, Types, HandleTypes, TaskTypes, Core, StartIsAlone, Published,
    BitCleared, InStart, CloseEnd, Goes, IsCurrent, CloseBegins, CloseEnds, Closing,
    StartPlaces, StopPlaces, HasNew, runtimeVars
<1>6. HandleTypes'
  BY TaskFacts, HandleFacts, SMT DEF IInv, Types, HandleTypes, TaskTypes, CloseEnd, Goes,
    IsCurrent, runtimeVars, updateVars
<1>7. FlagTypes'
  BY TaskFacts, SMT DEF IInv, Types, FlagTypes, HandleTypes, CloseEnd, Goes, IsCurrent,
    runtimeVars, updateVars
<1>8. TaskTypes'
  BY TaskFacts, SMT DEF IInv, Types, TaskTypes, HandleTypes, UpdateTypes, Aux, Places,
    Sends, Events, Core, Hands, HasNew, CloseBegins, CloseEnds, Closing, CloseEnd, Goes,
    IsCurrent, runtimeVars, updateVars
<1>9. UpdateTypes'
  BY SMT DEF IInv, Types, UpdateTypes, CloseEnd, updateVars
<1>10. Aux'
  BY TaskFacts, HandleFacts, SMT DEF IInv, Types, HandleTypes, TaskTypes, Core,
    StartIsAlone, Hands, Published, Aux, CloseEnd, Goes, IsCurrent, Sends, Events,
    CloseBegins, CloseEnds, Closing, StartPlaces, StopPlaces, HasNew, runtimeVars,
    updateVars
<1> QED BY <1>1, <1>2, <1>3, <1>4, <1>5, <1>6, <1>7, <1>8, <1>9, <1>10 DEF IInv, Types, Core

-----------------------------------------------------------------------------
(* Steps of the callbacks and of the other tasks *)

\* Nothing of Core is touched by tasks that leave the handles, the audio runtime
\* and the callers' places alone, and clear the bit at most.
LEMMA CoreKept ==
    ASSUME Core, UNCHANGED <<webrtc, generation, mine, media, peer>>,
           startingBit' \in {startingBit, {}},
           at'[Orch] = at[Orch], at'[Stopper] = at[Stopper]
    PROVE  Core'
<1>1. StartIsAlone' /\ Hands' /\ Published' /\ Owned'
  BY TaskFacts, SMT DEF Core, StartIsAlone, Hands, Published, Owned, Alive
<1>2. BitCleared'
  BY TaskFacts, SMT DEF Core, BitCleared, InStart
<1> QED BY <1>1, <1>2 DEF Core

\* A callback comes.
LEMMA DeliverGood == ASSUME IInv, NEW g \in Generations, NEW e \in Events, Deliver(g, e) PROVE IInv'
<1>1. Core'
  <2>1. at'[Orch] = at[Orch] /\ at'[Stopper] = at[Stopper]
    BY TaskFacts, SMT DEF IInv, Types, TaskTypes, UpdateTypes, Core, StartIsAlone,
      StartPlaces, StopPlaces, Aux, Sends, Deliver, IsCurrent, Possible, MutexFree, Goes,
      updateVars
  <2>2. startingBit' \in {startingBit, {}} /\ UNCHANGED <<webrtc, generation, mine, media, peer>>
    BY Zenon DEF Deliver, handleVars, runtimeVars
  <2> QED BY <2>1, <2>2, CoreKept DEF IInv
<1>2. HandleTypes'
  BY SMT DEF IInv, Types, HandleTypes, Deliver, handleVars
<1>3. FlagTypes'
  BY TaskFacts, SMT DEF IInv, Types, FlagTypes, HandleTypes, Deliver, Goes, IsCurrent,
    Possible, MutexFree, handleVars, runtimeVars, updateVars
<1>4. TaskTypes'
  BY TaskFacts, SMT DEF IInv, Types, TaskTypes, HandleTypes, UpdateTypes, Aux, Places,
    Sends, Events, Core, Hands, HasNew, CloseBegins, CloseEnds, Closing, Deliver, Goes,
    IsCurrent, Possible, MutexFree, handleVars, runtimeVars, updateVars
<1>5. UpdateTypes'
  BY SMT DEF IInv, Types, UpdateTypes, Deliver, updateVars
<1>6. Aux'
  BY TaskFacts, HandleFacts, SMT DEF IInv, Types, HandleTypes, TaskTypes, Core,
    StartIsAlone, Aux, Deliver, Goes, IsCurrent, Possible, MutexFree, Sends, Events,
    CloseBegins, CloseEnds, Closing, StartPlaces, StopPlaces, HasNew, handleVars,
    runtimeVars, updateVars
<1> QED BY <1>1, <1>2, <1>3, <1>4, <1>5, <1>6 DEF IInv, Types

\* The data channel is open.
LEMMA OnChannelOpenGood == ASSUME IInv, NEW g \in Generations, OnChannelOpen(g) PROVE IInv'
<1>1. Core'
  <2>1. at'[Orch] = at[Orch] /\ at'[Stopper] = at[Stopper]
    BY TaskFacts, SMT DEF IInv, Types, TaskTypes, UpdateTypes, Core, StartIsAlone,
      StartPlaces, StopPlaces, Aux, Sends, OnChannelOpen, Goes, updateVars
  <2>2. startingBit' \in {startingBit, {}} /\ UNCHANGED <<webrtc, generation, mine, media, peer>>
    BY Zenon DEF OnChannelOpen, handleVars, runtimeVars
  <2> QED BY <2>1, <2>2, CoreKept DEF IInv
<1>2. HandleTypes'
  BY SMT DEF IInv, Types, HandleTypes, OnChannelOpen, handleVars
<1>3. FlagTypes'
  BY TaskFacts, SMT DEF IInv, Types, FlagTypes, HandleTypes, OnChannelOpen, Goes,
    handleVars, updateVars, channelVars
<1>4. TaskTypes'
  BY TaskFacts, SMT DEF IInv, Types, TaskTypes, HandleTypes, UpdateTypes, Aux, Places,
    Sends, Events, Core, Hands, HasNew, CloseBegins, CloseEnds, Closing, OnChannelOpen,
    Goes, handleVars, updateVars, channelVars
<1>5. UpdateTypes'
  BY SMT DEF IInv, Types, UpdateTypes, OnChannelOpen, updateVars
<1>6. Aux'
  BY TaskFacts, HandleFacts, SMT DEF IInv, Types, HandleTypes, TaskTypes, Core,
    StartIsAlone, Aux, OnChannelOpen, Goes, Sends, Events, CloseBegins, CloseEnds, Closing,
    StartPlaces, StopPlaces, HasNew, handleVars, updateVars, channelVars
<1> QED BY <1>1, <1>2, <1>3, <1>4, <1>5, <1>6 DEF IInv, Types

\* The data channel is closed.
LEMMA OnChannelClosedGood == ASSUME IInv, NEW g \in Generations, OnChannelClosed(g) PROVE IInv'
<1>1. Core'
  <2>1. at'[Orch] = at[Orch] /\ at'[Stopper] = at[Stopper]
    BY TaskFacts, SMT DEF IInv, Types, TaskTypes, UpdateTypes, Core, StartIsAlone,
      StartPlaces, StopPlaces, Aux, Sends, OnChannelClosed, Goes, updateVars
  <2>2. startingBit' \in {startingBit, {}} /\ UNCHANGED <<webrtc, generation, mine, media, peer>>
    BY Zenon DEF OnChannelClosed, handleVars, runtimeVars
  <2> QED BY <2>1, <2>2, CoreKept DEF IInv
<1>2. HandleTypes'
  BY SMT DEF IInv, Types, HandleTypes, OnChannelClosed, handleVars
<1>3. FlagTypes'
  BY TaskFacts, SMT DEF IInv, Types, FlagTypes, HandleTypes, OnChannelClosed, Goes,
    handleVars, updateVars, channelVars
<1>4. TaskTypes'
  BY TaskFacts, SMT DEF IInv, Types, TaskTypes, HandleTypes, UpdateTypes, Aux, Places,
    Sends, Events, Core, Hands, HasNew, CloseBegins, CloseEnds, Closing, OnChannelClosed,
    Goes, handleVars, updateVars, channelVars
<1>5. UpdateTypes'
  BY SMT DEF IInv, Types, UpdateTypes, OnChannelClosed, updateVars
<1>6. Aux'
  BY TaskFacts, HandleFacts, SMT DEF IInv, Types, HandleTypes, TaskTypes, Core,
    StartIsAlone, Aux, OnChannelClosed, Goes, Sends, Events, CloseBegins, CloseEnds,
    Closing, StartPlaces, StopPlaces, HasNew, handleVars, updateVars, channelVars
<1> QED BY <1>1, <1>2, <1>3, <1>4, <1>5, <1>6 DEF IInv, Types

\* The server confirms the session.
LEMMA OnUpdatedGood == ASSUME IInv, NEW g \in Generations, OnUpdated(g) PROVE IInv'
<1>1. Core'
  <2>1. at'[Orch] = at[Orch] /\ at'[Stopper] = at[Stopper]
    BY TaskFacts, SMT DEF IInv, Types, TaskTypes, UpdateTypes, Core, StartIsAlone,
      StartPlaces, StopPlaces, Aux, Sends, OnUpdated, Goes, updateVars
  <2>2. startingBit' \in {startingBit, {}} /\ UNCHANGED <<webrtc, generation, mine, media, peer>>
    BY Zenon DEF OnUpdated, handleVars, runtimeVars
  <2> QED BY <2>1, <2>2, CoreKept DEF IInv
<1>2. HandleTypes'
  BY SMT DEF IInv, Types, HandleTypes, OnUpdated, handleVars
<1>3. FlagTypes'
  BY TaskFacts, SMT DEF IInv, Types, FlagTypes, HandleTypes, READY, OnUpdated, Goes,
    handleVars, runtimeVars, updateVars
<1>4. TaskTypes'
  BY TaskFacts, SMT DEF IInv, Types, TaskTypes, HandleTypes, UpdateTypes, Aux, Places,
    Sends, Events, Core, Hands, HasNew, CloseBegins, CloseEnds, Closing, OnUpdated, Goes,
    handleVars, runtimeVars, updateVars
<1>5. UpdateTypes'
  BY SMT DEF IInv, Types, UpdateTypes, OnUpdated, updateVars
<1>6. Aux'
  BY TaskFacts, HandleFacts, SMT DEF IInv, Types, HandleTypes, TaskTypes, Core,
    StartIsAlone, Aux, OnUpdated, Goes, Sends, Events, CloseBegins, CloseEnds, Closing,
    StartPlaces, StopPlaces, HasNew, handleVars, runtimeVars, updateVars
<1> QED BY <1>1, <1>2, <1>3, <1>4, <1>5, <1>6 DEF IInv, Types

\* A session.update task is wanted.
LEMMA ScheduleGood == ASSUME IInv, NEW g \in Generations, Schedule(g) PROVE IInv'
<1>1. Core'
  <2>1. at'[Orch] = at[Orch] /\ at'[Stopper] = at[Stopper]
    BY TaskFacts, SMT DEF IInv, Types, TaskTypes, UpdateTypes, Core, StartIsAlone,
      StartPlaces, StopPlaces, Aux, Sends, Schedule, Goes, updateVars
  <2>2. startingBit' \in {startingBit, {}} /\ UNCHANGED <<webrtc, generation, mine, media, peer>>
    BY Zenon DEF Schedule, handleVars, runtimeVars
  <2> QED BY <2>1, <2>2, CoreKept DEF IInv
<1>2. HandleTypes'
  BY SMT DEF IInv, Types, HandleTypes, Schedule, handleVars
<1>3. FlagTypes'
  BY SMT DEF IInv, Types, FlagTypes, Schedule, runtimeVars, channelVars
<1>4. TaskTypes'
  BY TaskFacts, SMT DEF IInv, Types, TaskTypes, HandleTypes, UpdateTypes, Aux, Places,
    Sends, Events, Core, Hands, HasNew, CloseBegins, CloseEnds, Closing, Schedule, Goes,
    handleVars, runtimeVars, channelVars
<1>5. UpdateTypes'
  BY HandleFacts, ThisGeneration, SMT DEF IInv, Types, UpdateTypes, HandleTypes, Aux,
    Schedule, Goes, handleVars, runtimeVars, channelVars
<1>6. Aux'
  BY TaskFacts, HandleFacts, ThisGeneration, SMT DEF IInv, Types, HandleTypes, TaskTypes,
    UpdateTypes, Core, StartIsAlone, Aux, Schedule, Goes, Sends, Events, CloseBegins,
    CloseEnds, Closing, StartPlaces, StopPlaces, HasNew, handleVars, runtimeVars,
    channelVars
<1> QED BY <1>1, <1>2, <1>3, <1>4, <1>5, <1>6 DEF IInv, Types

\* It is made, or not.
LEMMA CreateTaskGood == ASSUME IInv, NEW g \in Generations, CreateTask(g) PROVE IInv'
<1>1. Core'
  <2>1. at'[Orch] = at[Orch] /\ at'[Stopper] = at[Stopper]
    BY TaskFacts, SMT DEF IInv, Types, TaskTypes, UpdateTypes, Core, StartIsAlone,
      StartPlaces, StopPlaces, Aux, Sends, CreateTask, Goes, updateVars
  <2>2. startingBit' \in {startingBit, {}} /\ UNCHANGED <<webrtc, generation, mine, media, peer>>
    BY Zenon DEF CreateTask, handleVars, runtimeVars
  <2> QED BY <2>1, <2>2, CoreKept DEF IInv
<1>2. HandleTypes'
  BY SMT DEF IInv, Types, HandleTypes, CreateTask, handleVars
<1>3. FlagTypes'
  BY SMT DEF IInv, Types, FlagTypes, CreateTask, runtimeVars, channelVars
<1>4. TaskTypes'
  BY TaskFacts, SMT DEF IInv, Types, TaskTypes, HandleTypes, UpdateTypes, Aux, Places,
    Sends, Events, Core, Hands, HasNew, CloseBegins, CloseEnds, Closing, CreateTask, Goes,
    handleVars, runtimeVars, channelVars
<1>5. UpdateTypes'
  BY HandleFacts, SMT DEF IInv, Types, UpdateTypes, HandleTypes, CreateTask, Goes,
    handleVars, runtimeVars, channelVars
<1>6. Aux'
  BY TaskFacts, HandleFacts, SMT DEF IInv, Types, HandleTypes, TaskTypes, UpdateTypes,
    Core, StartIsAlone, Aux, CreateTask, Goes, Sends, Events, CloseBegins, CloseEnds,
    Closing, StartPlaces, StopPlaces, HasNew, handleVars, runtimeVars, channelVars
<1> QED BY <1>1, <1>2, <1>3, <1>4, <1>5, <1>6 DEF IInv, Types

\* It tries to send.
LEMMA UpdateAttemptGood == ASSUME IInv, NEW g \in Generations, UpdateAttempt(g) PROVE IInv'
<1>1. Core'
  <2>1. at'[Orch] = at[Orch] /\ at'[Stopper] = at[Stopper]
    BY TaskFacts, SMT DEF IInv, Types, TaskTypes, UpdateTypes, Core, StartIsAlone,
      StartPlaces, StopPlaces, Aux, Sends, UpdateAttempt, IsCurrent, Goes, updateVars
  <2>2. startingBit' \in {startingBit, {}} /\ UNCHANGED <<webrtc, generation, mine, media, peer>>
    BY Zenon DEF UpdateAttempt, handleVars, runtimeVars
  <2> QED BY <2>1, <2>2, CoreKept DEF IInv
<1>2. HandleTypes'
  BY SMT DEF IInv, Types, HandleTypes, UpdateAttempt, handleVars
<1>3. FlagTypes'
  BY SMT DEF IInv, Types, FlagTypes, UpdateAttempt, runtimeVars, channelVars
<1>4. TaskTypes'
  BY TaskFacts, SMT DEF IInv, Types, TaskTypes, HandleTypes, UpdateTypes, Aux, Places,
    Sends, Events, Core, Hands, HasNew, CloseBegins, CloseEnds, Closing, UpdateAttempt,
    Goes, IsCurrent, handleVars, runtimeVars, updateVars, channelVars
<1>5. UpdateTypes'
  BY SMT DEF IInv, Types, UpdateTypes, UpdateAttempt, updateVars
<1>6. Aux'
  BY TaskFacts, HandleFacts, SMT DEF IInv, Types, HandleTypes, TaskTypes, Core,
    StartIsAlone, Aux, UpdateAttempt, Goes, IsCurrent, Sends, Events, CloseBegins,
    CloseEnds, Closing, StartPlaces, StopPlaces, HasNew, handleVars, runtimeVars,
    updateVars, channelVars
<1> QED BY <1>1, <1>2, <1>3, <1>4, <1>5, <1>6 DEF IInv, Types

\* It ends.
LEMMA UpdateFinishGood == ASSUME IInv, NEW g \in Generations, UpdateFinish(g) PROVE IInv'
<1>1. Core'
  <2>1. at'[Orch] = at[Orch] /\ at'[Stopper] = at[Stopper]
    BY TaskFacts, SMT DEF IInv, Types, TaskTypes, UpdateTypes, Core, StartIsAlone,
      StartPlaces, StopPlaces, Aux, Sends, UpdateFinish, Goes, updateVars
  <2>2. startingBit' \in {startingBit, {}} /\ UNCHANGED <<webrtc, generation, mine, media, peer>>
    BY Zenon DEF UpdateFinish, handleVars, runtimeVars
  <2> QED BY <2>1, <2>2, CoreKept DEF IInv
<1>2. HandleTypes'
  BY SMT DEF IInv, Types, HandleTypes, UpdateFinish, handleVars
<1>3. FlagTypes'
  BY SMT DEF IInv, Types, FlagTypes, UpdateFinish, runtimeVars, channelVars
<1>4. TaskTypes'
  BY TaskFacts, SMT DEF IInv, Types, TaskTypes, HandleTypes, UpdateTypes, Aux, Places,
    Sends, Events, Core, Hands, HasNew, CloseBegins, CloseEnds, Closing, UpdateFinish,
    Goes, handleVars, runtimeVars, channelVars
<1>5. UpdateTypes'
  BY HandleFacts, SMT DEF IInv, Types, UpdateTypes, HandleTypes, UpdateFinish, Goes,
    handleVars, runtimeVars, channelVars
<1>6. Aux'
  BY TaskFacts, HandleFacts, SMT DEF IInv, Types, HandleTypes, TaskTypes, Core,
    StartIsAlone, Aux, UpdateFinish, Goes, Sends, Events, CloseBegins, CloseEnds, Closing,
    StartPlaces, StopPlaces, HasNew, handleVars, runtimeVars, channelVars
<1> QED BY <1>1, <1>2, <1>3, <1>4, <1>5, <1>6 DEF IInv, Types

\* A tool task has something to send.
LEMMA ToolSpeaksGood == ASSUME IInv, ToolSpeaks PROVE IInv'
<1>1. Core'
  <2>1. at'[Orch] = at[Orch] /\ at'[Stopper] = at[Stopper]
    BY TaskFacts, SMT DEF IInv, Types, TaskTypes, UpdateTypes, Core, StartIsAlone,
      StartPlaces, StopPlaces, Aux, Sends, ToolSpeaks, Goes, updateVars
  <2>2. startingBit' \in {startingBit, {}} /\ UNCHANGED <<webrtc, generation, mine, media, peer>>
    BY Zenon DEF ToolSpeaks, handleVars, runtimeVars
  <2> QED BY <2>1, <2>2, CoreKept DEF IInv
<1>2. HandleTypes'
  BY SMT DEF IInv, Types, HandleTypes, ToolSpeaks, handleVars
<1>3. FlagTypes'
  BY SMT DEF IInv, Types, FlagTypes, ToolSpeaks, runtimeVars, channelVars
<1>4. TaskTypes'
  BY TaskFacts, SMT DEF IInv, Types, TaskTypes, HandleTypes, UpdateTypes, Aux, Places,
    Sends, Events, Core, Hands, HasNew, CloseBegins, CloseEnds, Closing, ToolSpeaks, Goes,
    handleVars, runtimeVars, updateVars, channelVars
<1>5. UpdateTypes'
  BY SMT DEF IInv, Types, UpdateTypes, ToolSpeaks, updateVars
<1>6. Aux'
  BY TaskFacts, HandleFacts, SMT DEF IInv, Types, HandleTypes, TaskTypes, Core,
    StartIsAlone, Aux, ToolSpeaks, Goes, Sends, Events, CloseBegins, CloseEnds, Closing,
    StartPlaces, StopPlaces, HasNew, handleVars, runtimeVars, updateVars, channelVars
<1> QED BY <1>1, <1>2, <1>3, <1>4, <1>5, <1>6 DEF IInv, Types

\* A message is being sent.
LEMMA SendBeginGood == ASSUME IInv, NEW t \in Tasks, SendBegin(t) PROVE IInv'
<1>1. Core'
  <2>1. at'[Orch] = at[Orch] /\ at'[Stopper] = at[Stopper]
    BY TaskFacts, SMT DEF IInv, Types, TaskTypes, UpdateTypes, Core, StartIsAlone,
      StartPlaces, StopPlaces, Aux, Sends, SendBegin, CanSend, MutexFree, Goes, updateVars
  <2>2. startingBit' \in {startingBit, {}} /\ UNCHANGED <<webrtc, generation, mine, media, peer>>
    BY Zenon DEF SendBegin, handleVars, runtimeVars
  <2> QED BY <2>1, <2>2, CoreKept DEF IInv
<1>2. HandleTypes'
  BY SMT DEF IInv, Types, HandleTypes, SendBegin, handleVars
<1>3. FlagTypes'
  BY SMT DEF IInv, Types, FlagTypes, SendBegin, runtimeVars, channelVars
<1>4. TaskTypes'
  BY TaskFacts, SMT DEF IInv, Types, TaskTypes, HandleTypes, UpdateTypes, Aux, Places,
    Sends, Events, Core, Hands, HasNew, CloseBegins, CloseEnds, Closing, SendBegin,
    MutexFree, CanSend, handleVars, runtimeVars, updateVars, channelVars
<1>5. UpdateTypes'
  BY SMT DEF IInv, Types, UpdateTypes, SendBegin, updateVars
<1>6. Aux'
  BY TaskFacts, HandleFacts, SMT DEF IInv, Types, HandleTypes, TaskTypes, Core,
    StartIsAlone, Aux, SendBegin, MutexFree, CanSend, Sends, Events, CloseBegins,
    CloseEnds, Closing, StartPlaces, StopPlaces, HasNew, handleVars, runtimeVars,
    updateVars, channelVars
<1> QED BY <1>1, <1>2, <1>3, <1>4, <1>5, <1>6 DEF IInv, Types

\* It is sent, or not.
LEMMA SendEndGood == ASSUME IInv, NEW t \in Tasks, SendEnd(t) PROVE IInv'
<1>1. Core'
  <2>1. at'[Orch] = at[Orch] /\ at'[Stopper] = at[Stopper]
    <3>1. t \in Tasks \ (Callers \union Generations)
      BY TaskFacts, SMT DEF IInv, Aux, SendEnd
    <3>2. PICK place : at' = [at EXCEPT ![t] = place]
      BY Zenon DEF SendEnd, Goes
    <3> QED BY <3>1, <3>2, TaskFacts, SMT DEF IInv, Types, TaskTypes
  <2>2. startingBit' \in {startingBit, {}} /\ UNCHANGED <<webrtc, generation, mine, media, peer>>
    BY Zenon DEF SendEnd, handleVars, runtimeVars
  <2> QED BY <2>1, <2>2, CoreKept DEF IInv
<1>2. HandleTypes'
  BY SMT DEF IInv, Types, HandleTypes, SendEnd, handleVars
<1>3. FlagTypes'
  <2>1. updates' = updates \union {webrtc} \/ updates' = updates
    BY Zenon DEF SendEnd
  <2>2. webrtc \in Generations
    BY TaskFacts, HandleFacts, SMT DEF IInv, Types, HandleTypes, Aux, SendEnd
  <2>3. UNCHANGED <<startingBit, media, channels, ready, announced>>
    BY Zenon DEF SendEnd, runtimeVars
  <2> QED BY <2>1, <2>2, <2>3, SMT DEF IInv, Types, FlagTypes
<1>4. TaskTypes'
  BY TaskFacts, SMT DEF IInv, Types, TaskTypes, HandleTypes, UpdateTypes, Aux, Places,
    Sends, Events, Core, Hands, HasNew, CloseBegins, CloseEnds, Closing, SendEnd, Goes,
    AfterSend, handleVars, runtimeVars, updateVars
<1>5. UpdateTypes'
  BY SMT DEF IInv, Types, UpdateTypes, SendEnd, updateVars
<1>6. Aux'
  <2>1. t \in Tasks \ (Callers \union Generations)
    BY TaskFacts, SMT DEF IInv, Aux, SendEnd
  <2>2. PICK place : at' = [at EXCEPT ![t] = place]
    BY Zenon DEF SendEnd, Goes
  <2>3. sending' = NoTask /\ UNCHANGED <<generation, mine, peer, sched>>
    BY Zenon DEF SendEnd, handleVars, updateVars
  <2> QED BY <2>1, <2>2, <2>3, TaskFacts, SMT DEF IInv, Types, TaskTypes, Aux
<1> QED BY <1>1, <1>2, <1>3, <1>4, <1>5, <1>6 DEF IInv, Types

\* It cannot be sent.
LEMMA SendRefusedGood == ASSUME IInv, NEW t \in Tasks, SendRefused(t) PROVE IInv'
<1>1. Core'
  <2>1. at'[Orch] = at[Orch] /\ at'[Stopper] = at[Stopper]
    BY TaskFacts, SMT DEF IInv, Types, TaskTypes, UpdateTypes, Core, StartIsAlone,
      StartPlaces, StopPlaces, Aux, Sends, SendRefused, AfterSend, Goes, updateVars
  <2>2. startingBit' \in {startingBit, {}} /\ UNCHANGED <<webrtc, generation, mine, media, peer>>
    BY Zenon DEF SendRefused, handleVars, runtimeVars
  <2> QED BY <2>1, <2>2, CoreKept DEF IInv
<1>2. HandleTypes'
  BY SMT DEF IInv, Types, HandleTypes, SendRefused, handleVars
<1>3. FlagTypes'
  BY SMT DEF IInv, Types, FlagTypes, SendRefused, runtimeVars, channelVars
<1>4. TaskTypes'
  BY TaskFacts, SMT DEF IInv, Types, TaskTypes, HandleTypes, UpdateTypes, Aux, Places,
    Sends, Events, Core, Hands, HasNew, CloseBegins, CloseEnds, Closing, SendRefused, Goes,
    AfterSend, handleVars, runtimeVars, updateVars, channelVars
<1>5. UpdateTypes'
  BY SMT DEF IInv, Types, UpdateTypes, SendRefused, updateVars
<1>6. Aux'
  BY TaskFacts, HandleFacts, SMT DEF IInv, Types, HandleTypes, TaskTypes, Core,
    StartIsAlone, Aux, SendRefused, Goes, AfterSend, Sends, Events, CloseBegins, CloseEnds,
    Closing, StartPlaces, StopPlaces, HasNew, handleVars, runtimeVars, updateVars,
    channelVars
<1> QED BY <1>1, <1>2, <1>3, <1>4, <1>5, <1>6 DEF IInv, Types

-----------------------------------------------------------------------------
(* The invariant *)

\* It holds at first.
LEMMA InitGood == ASSUME WebrtcInit PROVE IInv
<1>1. HandleTypes /\ FlagTypes /\ UpdateTypes
  BY SMT, GenerationAssumption
  DEF WebrtcInit, HandleTypes, FlagTypes, UpdateTypes, Handles, NoHandle
<1>2. TaskTypes
  BY SMT DEF WebrtcInit, TaskTypes, Places
<1>3. Core
  BY TaskFacts, SMT DEF WebrtcInit, Core, StartIsAlone, Hands, Published, Owned, BitCleared,
    Alive, StartPlaces, StopPlaces, HasNew, Closing, CloseBegins, CloseEnds
<1>4. Aux
  BY TaskFacts, SMT DEF WebrtcInit, Aux, StartPlaces
<1> QED BY <1>1, <1>2, <1>3, <1>4 DEF IInv, Types

\* A step that changes nothing keeps it.
LEMMA StutterGood == ASSUME IInv, UNCHANGED webrtcVars PROVE IInv'
  BY DEF IInv, Types, HandleTypes, FlagTypes, TaskTypes, UpdateTypes, Core, StartIsAlone,
    Hands, Published, Owned, BitCleared, Aux, Alive, InStart,
    webrtcVars, handleVars, runtimeVars, updateVars, channelVars

\* Every step keeps it.
LEMMA StepGood == ASSUME IInv, ~LateStop, [WebrtcNext]_webrtcVars PROVE IInv'
<1>1. CASE StartStep
  BY <1>1, CallStartGood, StartTakeGood, StartGivesUpGood, OpenGood, PublishGood,
    PeerRunsGood, StartReturnsGood, WithdrawGood DEF StartStep
<1>2. ASSUME NEW c \in Callers, StopStep(c) PROVE IInv'
  BY <1>2, CallStopGood, StopTakeGood, StopGivesUpGood, TeardownGood, CloseBeginGood,
    CloseEndGood DEF StopStep
<1>3. ASSUME NEW g \in Generations, PeerStep(g) PROVE IInv'
  BY <1>3, DeliverGood, OnChannelOpenGood, OnChannelClosedGood, OnUpdatedGood,
    ScheduleGood, CreateTaskGood, UpdateAttemptGood, UpdateFinishGood DEF PeerStep
<1>4. CASE ToolSpeaks BY <1>4, ToolSpeaksGood
<1>5. ASSUME NEW t \in Tasks, SendStep(t) PROVE IInv'
  BY <1>5, SendBeginGood, SendEndGood, SendRefusedGood DEF SendStep
<1>6. CASE UNCHANGED webrtcVars BY <1>6, StutterGood
<1> QED BY <1>1, <1>2, <1>3, <1>4, <1>5, <1>6 DEF WebrtcNext

\* The sessions' invariant.
THEOREM SessionsKept == ASSUME ~LateStop PROVE WebrtcSpec => []IInv
<1>1. WebrtcInit => IInv BY InitGood
<1>2. IInv /\ [WebrtcNext]_webrtcVars => IInv' BY StepGood
<1> QED BY <1>1, <1>2, PTL DEF WebrtcSpec

-----------------------------------------------------------------------------
(* What the runs check *)

\* No handle of esp_webrtc is lost or freed twice: an open one is published or
\* in the hands of the caller of start_webrtc or stop_webrtc that will close it,
\* and one being closed is nobody else's.
THEOREM NoHandleLost == ASSUME ~LateStop PROVE WebrtcSpec => []HandleOwned
<1>1. IInv => HandleOwned
  <2> SUFFICES ASSUME IInv PROVE HandleOwned OBVIOUS
  <2>1. webrtc # NoHandle => Alive(webrtc) BY DEF IInv, Core, Published
  <2>2. \A g \in Generations : Alive(g) => webrtc = g \/ \E c \in Callers : mine[c] = g
    BY DEF IInv, Core, Owned
  <2>3. ASSUME NEW c \in Callers, at[c] \in Closing
        PROVE  mine[c] \in Generations /\ webrtc # mine[c]
    BY <2>3 DEF IInv, Core, Hands
  <2>4. ASSUME NEW c \in Callers, at[c] \in Closing, NEW d \in Callers \ {c}
        PROVE  mine[d] # mine[c]
    <3>1. at[d] \notin HasNew
      BY <2>4, TaskFacts, SMT DEF IInv, Core, StartIsAlone, HasNew, StartPlaces, StopPlaces,
        Closing, CloseBegins, CloseEnds
    <3>2. mine[d] = mine[c] => at[d] \in Closing
      BY <2>3, <2>4, <3>1 DEF IInv, Core, Hands
    <3> QED BY <2>4, <3>2, TaskFacts DEF IInv, Core, Hands
  <2> QED BY <2>1, <2>2, <2>3, <2>4 DEF HandleOwned
<1> QED BY <1>1, SessionsKept, PTL

\* The callbacks of the published handle are of the current generation.
THEOREM NoSessionUnheard == ASSUME ~LateStop PROVE WebrtcSpec => []SessionIsHeard
<1>1. IInv => SessionIsHeard BY DEF IInv, Core, Published, SessionIsHeard
<1> QED BY <1>1, SessionsKept, PTL

\* WEBRTC_STARTING_BIT, for which the scans of BLE wait, does not outlast the
\* attempt that set it.
THEOREM BitMeansAttempt == ASSUME ~LateStop PROVE WebrtcSpec => []StartingMeansAttempt
<1>1. IInv => StartingMeansAttempt BY DEF IInv, Core, BitCleared, StartingMeansAttempt
<1> QED BY <1>1, SessionsKept, PTL

\* stop_webrtc without the mutex, and a stop task that is late, do not tear the
\* audio runtime down under an open session.
THEOREM MediaOutlastsSession == ASSUME ~LateStop PROVE WebrtcSpec => []SessionHasMedia
<1>1. IInv => SessionHasMedia BY DEF IInv, Core, Published, SessionHasMedia
<1> QED BY <1>1, SessionsKept, PTL

-----------------------------------------------------------------------------
(* What tasks make and announce *)

\* A handle whose peer connection has not been closed to the end.
Unclosed(g) == peer[g] \in {"opened", "running", "closing"}

\* There is at most one: callers do not both close one, and nothing is
\* published while one of them does.
CloseInv ==
    /\ at[Orch] \notin Closing \/ at[Stopper] \notin Closing
    /\ \A c \in Callers : at[c] \in Closing => webrtc = NoHandle
    /\ \A g \in Generations : Unclosed(g) => webrtc = g \/ \E c \in Callers : mine[c] = g
    /\ at[Orch] = "publish" => peer[generation] = "opened"
    /\ at[Orch] \in {"closeOld", "joinOld"} => mine[Orch] # generation

\* A pc_task runs handlers only from the start of its connection to the join.
PcInv == \A g \in Generations : at[g] # "idle" => peer[g] \in {"running", "closing"}

\* The tasks that send are in their own places.
SendInv ==
    /\ \A g \in Generations : at[Updater(g)] \in {"idle", "delay", "send_update", "finish"}
    /\ at[Tool] \in {"idle", "send_message"}
    /\ sending # NoTask => at[sending] \in Sends

\* The task of the present generation is registered; while a pc_task is about to
\* make one there is none, and unless the session was taken over meanwhile the
\* place is reserved.
UpdateInv ==
    /\ \A k \in Generations : at[Updater(k)] # "idle" =>
           k <= generation /\ (k = generation => updTask = k /\ updGen = k)
    /\ \A g \in Generations : at[g] = "create_task" =>
           /\ sched[g] <= generation /\ at[Updater(sched[g])] = "idle"
           /\ at[Updater(generation)] = "idle"
           /\ sched[g] = generation => updGen = generation

\* Readiness is forgotten before a session is opened, unless over another one.
ReadyInv ==
    /\ at[Orch] \in {"closeOld", "joinOld"} => generation \in disturbed
    /\ at[Orch] \in {"open", "publish"} => ready = {} \/ generation \in disturbed
    /\ ReadyAnnounced

SessionInv == CloseInv /\ PcInv /\ SendInv /\ UpdateInv /\ ReadyInv

\* Only one handle is unclosed.
LEMMA OneUnclosed ==
    ASSUME IInv, CloseInv, NEW g \in Generations, NEW h \in Generations, Unclosed(g), Unclosed(h)
    PROVE  g = h
  BY TaskFacts DEF IInv, Core, StartIsAlone, Hands, Published, CloseInv, StopPlaces, HasNew,
    Closing, CloseBegins, CloseEnds

\* So at most one pc_task runs a handler.
LEMMA OneBusy ==
    ASSUME IInv, SessionInv, NEW g \in Generations, NEW h \in Generations,
           at[g] # "idle", at[h] # "idle"
    PROVE  g = h
  BY OneUnclosed DEF SessionInv, PcInv, Unclosed

\* The tasks for session.update differ from each other and from the tool task.
LEMMA UpdaterFacts ==
    /\ \A g, h \in Generations : Updater(g) = Updater(h) => g = h
    /\ \A g \in Generations : Updater(g) # Tool
  BY GenerationAssumption DEF Updater, Generations, Tool

\* A start begins: only the caller moves.
LEMMA CallStartSafe ==
    ASSUME IInv, IInv', SessionInv, CallStart
    PROVE  SessionInv'
<1>1. CloseInv'
  BY DEF SessionInv, Goes, CloseBegins, CloseEnds, Closing, handleVars, CloseInv, Unclosed,
    CallStart
<1>2. PcInv'
  BY TaskFacts DEF SessionInv, Goes, PcInv, CallStart
<1>3. SendInv'
  BY TaskFacts DEF SessionInv, Goes, Sends, SendInv, CallStart
<1>4. UpdateInv'
  BY TaskFacts, ThisGeneration DEF SessionInv, IInv, Types, HandleTypes, Aux, Goes,
    handleVars, updateVars, UpdateInv, CallStart
<1>5. ReadyInv'
  BY DEF SessionInv, Goes, handleVars, channelVars, ReadyInv, ReadyAnnounced, CallStart
<1> QED BY <1>1, <1>2, <1>3, <1>4, <1>5 DEF SessionInv

\* The start takes the published handle over and counts the generation up: no task
\* is registered for the new one, and a session that was open disturbs it.
LEMMA StartTakeSafe ==
    ASSUME IInv, IInv', SessionInv, StartTake
    PROVE  SessionInv'
<1>1. CloseInv'
  BY TaskFacts DEF SessionInv, IInv, Types, HandleTypes, Core, StartIsAlone, Hands,
    Published, CloseBegins, CloseEnds, Closing, HasNew, CloseInv, Unclosed, StartTake,
    TakeOver
<1>2. PcInv'
  BY TaskFacts DEF SessionInv, Goes, PcInv, StartTake
<1>3. SendInv'
  BY TaskFacts DEF SessionInv, Goes, Sends, SendInv, StartTake
<1>4. UpdateInv'
  BY GenerationGrows DEF SessionInv, IInv, Types, HandleTypes, Aux, Goes, UpdateInv,
    StartTake, TakeOver
<1>5. ReadyInv'
  BY DEF Goes, ReadyInv, ReadyAnnounced, StartTake, TakeOver
<1> QED BY <1>1, <1>2, <1>3, <1>4, <1>5 DEF SessionInv

\* Without the mutex nothing is taken over.
LEMMA StartGivesUpSafe ==
    ASSUME IInv, IInv', SessionInv, StartGivesUp
    PROVE  SessionInv'
<1>1. CloseInv'
  BY DEF SessionInv, Goes, CloseBegins, CloseEnds, Closing, handleVars, CloseInv, Unclosed,
    StartGivesUp
<1>2. PcInv'
  BY TaskFacts DEF SessionInv, Goes, PcInv, StartGivesUp
<1>3. SendInv'
  BY TaskFacts DEF SessionInv, Goes, Sends, SendInv, StartGivesUp
<1>4. UpdateInv'
  BY TaskFacts, ThisGeneration DEF SessionInv, IInv, Types, HandleTypes, Aux, Goes,
    handleVars, updateVars, UpdateInv, StartGivesUp
<1>5. ReadyInv'
  BY DEF SessionInv, Goes, handleVars, channelVars, ReadyInv, ReadyAnnounced, StartGivesUp
<1> QED BY <1>1, <1>2, <1>3, <1>4, <1>5 DEF SessionInv

\* The handle that is opened is the first that is not closed, and finds no readiness
\* but that of a session it disturbs.
LEMMA OpenSafe ==
    ASSUME IInv, IInv', SessionInv, Open
    PROVE  SessionInv'
<1>1. CloseInv'
  BY TaskFacts DEF SessionInv, IInv, Types, HandleTypes, TaskTypes, Core, Hands, Aux, Goes,
    CloseBegins, CloseEnds, Closing, StartPlaces, CloseInv, Unclosed, Open
<1>2. PcInv'
  BY TaskFacts DEF SessionInv, IInv, Types, TaskTypes, Core, StartIsAlone, Hands,
    Published, Goes, CloseBegins, CloseEnds, Closing, StopPlaces, HasNew, PcInv,
    CloseInv, Unclosed, Open
<1>3. SendInv'
  BY TaskFacts DEF SessionInv, IInv, Types, TaskTypes, Goes, Sends, SendInv, Open
<1>4. UpdateInv'
  BY TaskFacts, ThisGeneration DEF SessionInv, IInv, Types, HandleTypes, TaskTypes, Aux,
    Goes, updateVars, UpdateInv, Open
<1>5. ReadyInv'
  BY DEF SessionInv, IInv, Types, TaskTypes, Goes, channelVars, ReadyInv,
    ReadyAnnounced, Open
<1> QED BY <1>1, <1>2, <1>3, <1>4, <1>5 DEF SessionInv

\* It is published while nobody closes a handle.
LEMMA PublishSafe ==
    ASSUME IInv, IInv', SessionInv, Publish
    PROVE  SessionInv'
<1>1. CloseInv'
  BY TaskFacts DEF SessionInv, IInv, Core, StartIsAlone, Hands, Published, CloseBegins,
    CloseEnds, Closing, CloseInv, Unclosed, Publish
<1>2. PcInv'
  BY TaskFacts DEF SessionInv, Goes, PcInv, Publish
<1>3. SendInv'
  BY TaskFacts DEF SessionInv, Goes, Sends, SendInv, Publish
<1>4. UpdateInv'
  BY TaskFacts, ThisGeneration DEF SessionInv, IInv, Types, HandleTypes, Aux, Goes,
    handleVars, updateVars, UpdateInv, Publish
<1>5. ReadyInv'
  BY DEF SessionInv, IInv, Core, Published, Goes, ReadyInv, ReadyAnnounced, Publish
<1> QED BY <1>1, <1>2, <1>3, <1>4, <1>5 DEF SessionInv

\* Its pc_task begins, with no handler to run yet.
LEMMA PeerRunsSafe ==
    ASSUME IInv, IInv', SessionInv, PeerRuns
    PROVE  SessionInv'
<1>1. CloseInv'
  BY DEF SessionInv, Goes, CloseBegins, CloseEnds, Closing, handleVars, CloseInv, Unclosed,
    PeerRuns
<1>2. PcInv'
  BY TaskFacts DEF SessionInv, Goes, PcInv, PeerRuns
<1>3. SendInv'
  BY TaskFacts DEF SessionInv, Goes, Sends, SendInv, PeerRuns
<1>4. UpdateInv'
  BY TaskFacts, ThisGeneration DEF SessionInv, IInv, Types, HandleTypes, Aux, Goes,
    handleVars, updateVars, UpdateInv, PeerRuns
<1>5. ReadyInv'
  BY DEF SessionInv, Goes, handleVars, channelVars, ReadyInv, ReadyAnnounced, PeerRuns
<1> QED BY <1>1, <1>2, <1>3, <1>4, <1>5 DEF SessionInv

\* The start is over, or has a handle in its hands to withdraw.
LEMMA StartReturnsSafe ==
    ASSUME IInv, IInv', SessionInv, StartReturns
    PROVE  SessionInv'
<1>1. CloseInv'
  BY TaskFacts DEF SessionInv, IInv, Types, HandleTypes, Core, StartIsAlone, Hands,
    Published, HasNew, CloseInv, Unclosed, StartReturns
<1>2. PcInv'
  BY TaskFacts DEF SessionInv, IInv, Types, TaskTypes, Core, StartIsAlone, Hands, Published,
    Goes, CloseBegins, CloseEnds, Closing, StopPlaces, HasNew, PcInv, CloseInv, Unclosed,
    StartReturns
<1>3. SendInv'
  BY TaskFacts DEF SessionInv, IInv, Types, TaskTypes, Goes, Sends, SendInv, StartReturns
<1>4. UpdateInv'
  BY TaskFacts, ThisGeneration DEF SessionInv, IInv, Types, HandleTypes, TaskTypes, Aux,
    Goes, updateVars, UpdateInv, StartReturns
<1>5. ReadyInv'
  BY DEF SessionInv, IInv, Types, TaskTypes, Goes, channelVars, ReadyInv, ReadyAnnounced,
    StartReturns
<1> QED BY <1>1, <1>2, <1>3, <1>4, <1>5 DEF SessionInv

\* A handle whose start failed is closed by whoever took it over, and by nobody twice.
LEMMA WithdrawSafe ==
    ASSUME IInv, IInv', SessionInv, Withdraw
    PROVE  SessionInv'
<1>1. CloseInv'
  BY TaskFacts DEF SessionInv, IInv, Types, HandleTypes, Core, StartIsAlone, Hands,
    Published, CloseBegins, CloseEnds, Closing, HasNew, CloseInv, Unclosed, Withdraw,
    TakeOver
<1>2. PcInv'
  BY TaskFacts DEF SessionInv, Goes, PcInv, Withdraw
<1>3. SendInv'
  BY TaskFacts DEF SessionInv, Goes, Sends, SendInv, Withdraw
<1>4. UpdateInv'
  BY GenerationGrows DEF SessionInv, IInv, Types, HandleTypes, Aux, Goes, UpdateInv,
    Withdraw, TakeOver
<1>5. ReadyInv'
  BY DEF SessionInv, Goes, channelVars, ReadyInv, ReadyAnnounced, Withdraw, TakeOver
<1> QED BY <1>1, <1>2, <1>3, <1>4, <1>5 DEF SessionInv

\* A stop begins: only the caller moves.
LEMMA CallStopSafe ==
    ASSUME IInv, IInv', SessionInv, NEW c \in Callers, CallStop(c)
    PROVE  SessionInv'
<1>1. CloseInv'
  BY DEF SessionInv, Goes, CloseBegins, CloseEnds, Closing, handleVars, CloseInv, Unclosed,
    CallStop
<1>2. PcInv'
  BY TaskFacts DEF SessionInv, Goes, PcInv, CallStop
<1>3. SendInv'
  BY TaskFacts DEF SessionInv, Goes, Sends, SendInv, CallStop
<1>4. UpdateInv'
  BY TaskFacts, ThisGeneration DEF SessionInv, IInv, Types, HandleTypes, Aux, Goes,
    handleVars, updateVars, UpdateInv, CallStop
<1>5. ReadyInv'
  BY DEF SessionInv, Goes, handleVars, channelVars, ReadyInv, ReadyAnnounced, CallStop
<1> QED BY <1>1, <1>2, <1>3, <1>4, <1>5 DEF SessionInv

\* The stop takes the published handle over, so no other is left to be closed.
LEMMA StopTakeSafe ==
    ASSUME IInv, IInv', SessionInv, NEW c \in Callers, StopTake(c)
    PROVE  SessionInv'
<1>1. CloseInv'
  BY TaskFacts DEF SessionInv, IInv, Core, StartIsAlone, Hands, Published, Owned, Alive,
    Goes, CloseBegins, CloseEnds, Closing, StopPlaces, HasNew, CloseInv, Unclosed,
    StopTake, TakeOver
<1>2. PcInv'
  BY TaskFacts DEF SessionInv, Goes, PcInv, StopTake
<1>3. SendInv'
  BY TaskFacts DEF SessionInv, Goes, Sends, SendInv, StopTake
<1>4. UpdateInv'
  BY GenerationGrows DEF SessionInv, IInv, Types, HandleTypes, Aux, Goes, UpdateInv,
    StopTake, TakeOver
<1>5. ReadyInv'
  BY TaskFacts DEF IInv, Core, StartIsAlone, Goes, StopPlaces, ReadyInv, ReadyAnnounced,
    StopTake, TakeOver
<1> QED BY <1>1, <1>2, <1>3, <1>4, <1>5 DEF SessionInv

\* Without the mutex nothing is taken over.
LEMMA StopGivesUpSafe ==
    ASSUME IInv, IInv', SessionInv, NEW c \in Callers, StopGivesUp(c)
    PROVE  SessionInv'
<1>1. CloseInv'
  BY DEF SessionInv, Goes, CloseBegins, CloseEnds, Closing, handleVars, CloseInv, Unclosed,
    StopGivesUp
<1>2. PcInv'
  BY TaskFacts DEF SessionInv, Goes, PcInv, StopGivesUp
<1>3. SendInv'
  BY TaskFacts DEF SessionInv, Goes, Sends, SendInv, StopGivesUp
<1>4. UpdateInv'
  BY TaskFacts, ThisGeneration DEF SessionInv, IInv, Types, HandleTypes, Aux, Goes,
    handleVars, updateVars, UpdateInv, StopGivesUp
<1>5. ReadyInv'
  BY DEF SessionInv, Goes, handleVars, channelVars, ReadyInv, ReadyAnnounced, StopGivesUp
<1> QED BY <1>1, <1>2, <1>3, <1>4, <1>5 DEF SessionInv

\* The audio goes when the handle has gone.
LEMMA TeardownSafe ==
    ASSUME IInv, IInv', SessionInv, NEW c \in Callers, Teardown(c)
    PROVE  SessionInv'
<1>1. CloseInv'
  BY DEF SessionInv, Goes, CloseBegins, CloseEnds, Closing, handleVars, CloseInv, Unclosed,
    Teardown
<1>2. PcInv'
  BY TaskFacts DEF SessionInv, Goes, PcInv, Teardown
<1>3. SendInv'
  BY TaskFacts DEF SessionInv, Goes, Sends, SendInv, Teardown
<1>4. UpdateInv'
  BY TaskFacts, ThisGeneration DEF SessionInv, IInv, Types, HandleTypes, Aux, Goes,
    handleVars, updateVars, UpdateInv, Teardown
<1>5. ReadyInv'
  BY DEF SessionInv, Goes, handleVars, channelVars, ReadyInv, ReadyAnnounced, Teardown
<1> QED BY <1>1, <1>2, <1>3, <1>4, <1>5 DEF SessionInv

\* While a connection is closed its pc_task may still be in a handler.
LEMMA CloseBeginSafe ==
    ASSUME IInv, IInv', SessionInv, NEW c \in Callers, CloseBegin(c)
    PROVE  SessionInv'
<1>1. CloseInv'
  BY TaskFacts DEF SessionInv, IInv, Core, StartIsAlone, Goes, CloseBegins, Closing,
    StopPlaces, handleVars, CloseInv, Unclosed, CloseBegin
<1>2. PcInv'
  BY TaskFacts DEF SessionInv, Goes, PcInv, CloseBegin
<1>3. SendInv'
  BY DEF SessionInv, Goes, Sends, CloseBegins, SendInv, CloseBegin
<1>4. UpdateInv'
  BY TaskFacts, ThisGeneration DEF SessionInv, IInv, Types, HandleTypes, Aux, Goes,
    handleVars, updateVars, UpdateInv, CloseBegin
<1>5. ReadyInv'
  BY DEF SessionInv, Goes, CloseBegins, handleVars, channelVars, ReadyInv, ReadyAnnounced,
    CloseBegin
<1> QED BY <1>1, <1>2, <1>3, <1>4, <1>5 DEF SessionInv

\* It has been joined when the handle is freed.
LEMMA CloseEndSafe ==
    ASSUME IInv, IInv', SessionInv, NEW c \in Callers, CloseEnd(c)
    PROVE  SessionInv'
<1>1. CloseInv'
  BY TaskFacts DEF SessionInv, IInv, Types, HandleTypes, TaskTypes, Core, StartIsAlone,
    Hands, CloseBegins, CloseEnds, Closing, StopPlaces, HasNew, CloseInv, Unclosed,
    CloseEnd
<1>2. PcInv'
  BY TaskFacts DEF SessionInv, Goes, PcInv, CloseEnd
<1>3. SendInv'
  BY DEF SessionInv, Goes, Sends, CloseEnds, SendInv, CloseEnd
<1>4. UpdateInv'
  BY TaskFacts, ThisGeneration DEF SessionInv, IInv, Types, HandleTypes, Aux, Goes,
    handleVars, updateVars, UpdateInv, CloseEnd
<1>5. ReadyInv'
  BY TaskFacts DEF SessionInv, IInv, Core, StartIsAlone, Goes, CloseEnds, Closing,
    StopPlaces, ReadyInv, ReadyAnnounced, CloseInv, CloseEnd
<1> QED BY <1>1, <1>2, <1>3, <1>4, <1>5 DEF SessionInv

\* Only a pc_task of a running connection begins a handler.
LEMMA DeliverSafe ==
    ASSUME IInv, IInv', SessionInv, NEW g \in Generations, NEW e \in Events, Deliver(g, e)
    PROVE  SessionInv'
<1>1. CloseInv'
  BY TaskFacts DEF SessionInv, IInv, Types, TaskTypes, Goes, handleVars, CloseInv, Unclosed,
    Deliver
<1>2. PcInv'
  BY TaskFacts DEF SessionInv, IInv, Types, TaskTypes, Core, StartIsAlone, Hands, Published,
    Goes, CloseBegins, CloseEnds, Closing, StopPlaces, HasNew, PcInv, CloseInv, Unclosed,
    Deliver
<1>3. SendInv'
  BY TaskFacts DEF SessionInv, IInv, Types, TaskTypes, Goes, Sends, SendInv, Deliver
<1>4. UpdateInv'
  BY TaskFacts DEF SessionInv, IInv, Types, TaskTypes, Aux, Goes, Events, handleVars,
    updateVars, UpdateInv, Deliver, IsCurrent
<1>5. ReadyInv'
  BY TaskFacts DEF SessionInv, IInv, Types, TaskTypes, Goes, handleVars, ReadyInv,
    ReadyAnnounced, Deliver
<1> QED BY <1>1, <1>2, <1>3, <1>4, <1>5 DEF SessionInv

\* An open channel forgets readiness and goes on to session.update.
LEMMA OnChannelOpenSafe ==
    ASSUME IInv, IInv', SessionInv, NEW g \in Generations, OnChannelOpen(g)
    PROVE  SessionInv'
<1>1. CloseInv'
  BY DEF SessionInv, Goes, CloseBegins, CloseEnds, Closing, handleVars, CloseInv, Unclosed,
    OnChannelOpen
<1>2. PcInv'
  BY TaskFacts DEF SessionInv, Goes, PcInv, OnChannelOpen
<1>3. SendInv'
  BY TaskFacts DEF SessionInv, Goes, Sends, SendInv, OnChannelOpen
<1>4. UpdateInv'
  BY TaskFacts, ThisGeneration DEF SessionInv, IInv, Types, HandleTypes, Aux, Goes,
    handleVars, updateVars, UpdateInv, OnChannelOpen
<1>5. ReadyInv'
  BY DEF SessionInv, Goes, handleVars, channelVars, ReadyInv, ReadyAnnounced, OnChannelOpen
<1> QED BY <1>1, <1>2, <1>3, <1>4, <1>5 DEF SessionInv

\* A closed one forgets it, too.
LEMMA OnChannelClosedSafe ==
    ASSUME IInv, IInv', SessionInv, NEW g \in Generations, OnChannelClosed(g)
    PROVE  SessionInv'
<1>1. CloseInv'
  BY DEF SessionInv, Goes, CloseBegins, CloseEnds, Closing, handleVars, CloseInv, Unclosed,
    OnChannelClosed
<1>2. PcInv'
  BY TaskFacts DEF SessionInv, Goes, PcInv, OnChannelClosed
<1>3. SendInv'
  BY TaskFacts DEF SessionInv, Goes, Sends, SendInv, OnChannelClosed
<1>4. UpdateInv'
  BY TaskFacts, ThisGeneration DEF SessionInv, IInv, Types, HandleTypes, Aux, Goes,
    handleVars, updateVars, UpdateInv, OnChannelClosed
<1>5. ReadyInv'
  BY DEF SessionInv, Goes, handleVars, channelVars, ReadyInv, ReadyAnnounced,
    OnChannelClosed
<1> QED BY <1>1, <1>2, <1>3, <1>4, <1>5 DEF SessionInv

\* The pc_task that announces readiness is that of the published handle, for there is
\* no other to run a handler.
LEMMA OnUpdatedSafe ==
    ASSUME IInv, IInv', SessionInv, NEW g \in Generations, OnUpdated(g)
    PROVE  SessionInv'
<1>1. CloseInv'
  BY DEF SessionInv, Goes, CloseBegins, CloseEnds, Closing, handleVars, CloseInv, Unclosed,
    OnUpdated
<1>2. PcInv'
  BY TaskFacts DEF SessionInv, Goes, PcInv, OnUpdated
<1>3. SendInv'
  BY TaskFacts DEF SessionInv, Goes, Sends, SendInv, OnUpdated
<1>4. UpdateInv'
  BY TaskFacts, ThisGeneration DEF SessionInv, IInv, Types, HandleTypes, Aux, Goes,
    handleVars, updateVars, UpdateInv, OnUpdated
<1>5. ReadyInv'
  BY TaskFacts DEF SessionInv, IInv, Core, StartIsAlone, Hands, Published, Goes,
    CloseBegins, CloseEnds, Closing, StopPlaces, HasNew, handleVars, ReadyInv,
    ReadyAnnounced, CloseInv, Unclosed, PcInv, OnUpdated
<1> QED BY <1>1, <1>2, <1>3, <1>4, <1>5 DEF SessionInv

\* The place of the task is reserved only if the generation has none.
LEMMA ScheduleSafe ==
    ASSUME IInv, IInv', SessionInv, NEW g \in Generations, Schedule(g)
    PROVE  SessionInv'
<1>1. CloseInv'
  BY TaskFacts DEF SessionInv, IInv, Types, TaskTypes, Goes, handleVars, CloseInv, Unclosed,
    Schedule
<1>2. PcInv'
  BY TaskFacts DEF SessionInv, IInv, Types, TaskTypes, Core, StartIsAlone, Hands, Published,
    Goes, CloseBegins, CloseEnds, Closing, StopPlaces, HasNew, PcInv, CloseInv, Unclosed,
    Schedule
<1>3. SendInv'
  BY TaskFacts DEF SessionInv, IInv, Types, TaskTypes, Goes, Sends, SendInv, Schedule
<1>4. UpdateInv'
  BY TaskFacts, ThisGeneration DEF SessionInv, IInv, Types, HandleTypes, TaskTypes,
    UpdateTypes, Aux, Goes, handleVars, UpdateInv, Schedule, Registered
<1>5. ReadyInv'
  BY TaskFacts DEF SessionInv, IInv, Types, TaskTypes, Goes, handleVars, channelVars,
    ReadyInv, ReadyAnnounced, Schedule
<1> QED BY <1>1, <1>2, <1>3, <1>4, <1>5 DEF SessionInv

\* The task is made and registered in the place that was reserved, unless the session
\* was taken over in between: then it is not that of the present generation.
LEMMA CreateTaskSafe ==
    ASSUME IInv, IInv', SessionInv, NEW g \in Generations, CreateTask(g)
    PROVE  SessionInv'
<1>1. CloseInv'
  BY TaskFacts DEF SessionInv, IInv, Types, TaskTypes, Goes, CloseBegins, CloseEnds,
    Closing, handleVars, CloseInv, Unclosed, CreateTask
<1>2. PcInv'
  BY TaskFacts, OneBusy DEF IInv, Types, TaskTypes, Aux, Goes, PcInv, CreateTask
<1>3. SendInv'
  <2>1. sched[g] \in Generations /\ at[g] = "create_task" /\ UNCHANGED sending
    BY DEF CreateTask, IInv, Aux
  <2>2. \/ at' = [at EXCEPT ![g] = "idle", ![Updater(sched[g])] = "delay"]
        \/ at' = [at EXCEPT ![g] = "idle"]
    BY DEF CreateTask, Goes
  <2>3. at[Updater(sched[g])] = "idle"
    BY <2>1 DEF SessionInv, UpdateInv
  <2> QED BY <2>1, <2>2, <2>3, TaskFacts, UpdaterFacts DEF SessionInv, SendInv, IInv, Types,
      TaskTypes, Sends
<1>4. UpdateInv'
  BY TaskFacts, UpdaterFacts, OneBusy DEF SessionInv, IInv, Types, TaskTypes, Aux, Goes,
    handleVars, UpdateInv, CreateTask
<1>5. ReadyInv'
  BY TaskFacts DEF SessionInv, IInv, Types, TaskTypes, Goes, handleVars, channelVars,
    ReadyInv, ReadyAnnounced, CreateTask
<1> QED BY <1>1, <1>2, <1>3, <1>4, <1>5 DEF SessionInv

\* The task tests its generation before it sends.
LEMMA UpdateAttemptSafe ==
    ASSUME IInv, IInv', SessionInv, NEW g \in Generations, UpdateAttempt(g)
    PROVE  SessionInv'
<1>1. CloseInv'
  BY TaskFacts DEF SessionInv, IInv, Types, TaskTypes, Goes, handleVars, CloseInv, Unclosed,
    UpdateAttempt
<1>2. PcInv'
  BY TaskFacts DEF SessionInv, IInv, Types, TaskTypes, Core, StartIsAlone, Hands, Published,
    Goes, CloseBegins, CloseEnds, Closing, StopPlaces, HasNew, PcInv, CloseInv, Unclosed,
    UpdateAttempt
<1>3. SendInv'
  BY TaskFacts DEF SessionInv, IInv, Types, TaskTypes, Goes, Sends, SendInv, UpdateAttempt
<1>4. UpdateInv'
  BY TaskFacts, ThisGeneration DEF SessionInv, IInv, Types, HandleTypes, TaskTypes, Aux,
    Goes, handleVars, updateVars, UpdateInv, UpdateAttempt
<1>5. ReadyInv'
  BY TaskFacts DEF SessionInv, IInv, Types, TaskTypes, Goes, handleVars, channelVars,
    ReadyInv, ReadyAnnounced, UpdateAttempt
<1> QED BY <1>1, <1>2, <1>3, <1>4, <1>5 DEF SessionInv

\* It clears the registration only if that is its own.
LEMMA UpdateFinishSafe ==
    ASSUME IInv, IInv', SessionInv, NEW g \in Generations, UpdateFinish(g)
    PROVE  SessionInv'
<1>1. CloseInv'
  BY DEF SessionInv, Goes, CloseBegins, CloseEnds, Closing, handleVars, CloseInv, Unclosed,
    UpdateFinish
<1>2. PcInv'
  BY TaskFacts DEF SessionInv, Goes, PcInv, UpdateFinish
<1>3. SendInv'
  BY TaskFacts DEF SessionInv, Goes, Sends, SendInv, UpdateFinish
<1>4. UpdateInv'
  BY TaskFacts, UpdaterFacts, OneBusy DEF SessionInv, IInv, Types, TaskTypes, Aux, Goes,
    handleVars, UpdateInv, UpdateFinish
<1>5. ReadyInv'
  BY DEF SessionInv, Goes, handleVars, channelVars, ReadyInv, ReadyAnnounced, UpdateFinish
<1> QED BY <1>1, <1>2, <1>3, <1>4, <1>5 DEF SessionInv

\* A tool task comes to a send.
LEMMA ToolSpeaksSafe ==
    ASSUME IInv, IInv', SessionInv, ToolSpeaks
    PROVE  SessionInv'
<1>1. CloseInv'
  BY DEF SessionInv, Goes, CloseBegins, CloseEnds, Closing, handleVars, CloseInv, Unclosed,
    ToolSpeaks
<1>2. PcInv'
  BY TaskFacts DEF SessionInv, Goes, PcInv, ToolSpeaks
<1>3. SendInv'
  BY UpdaterFacts DEF SessionInv, Goes, Sends, SendInv, ToolSpeaks
<1>4. UpdateInv'
  BY UpdaterFacts, ThisGeneration DEF SessionInv, IInv, Types, HandleTypes, Aux, Goes,
    handleVars, updateVars, UpdateInv, ToolSpeaks
<1>5. ReadyInv'
  BY DEF SessionInv, Goes, handleVars, channelVars, ReadyInv, ReadyAnnounced, ToolSpeaks
<1> QED BY <1>1, <1>2, <1>3, <1>4, <1>5 DEF SessionInv

\* The task that holds the mutex is at a send,
LEMMA SendBeginSafe ==
    ASSUME IInv, IInv', SessionInv, NEW t \in Tasks, SendBegin(t)
    PROVE  SessionInv'
<1>1. CloseInv'
  BY DEF SessionInv, Goes, CloseBegins, CloseEnds, Closing, handleVars, CloseInv, Unclosed,
    SendBegin
<1>2. PcInv'
  BY TaskFacts DEF SessionInv, Goes, PcInv, SendBegin
<1>3. SendInv'
  BY TaskFacts DEF SessionInv, Goes, Sends, SendInv, SendBegin
<1>4. UpdateInv'
  BY TaskFacts, ThisGeneration DEF SessionInv, IInv, Types, HandleTypes, Aux, Goes,
    handleVars, updateVars, UpdateInv, SendBegin
<1>5. ReadyInv'
  BY DEF SessionInv, Goes, handleVars, channelVars, ReadyInv, ReadyAnnounced, SendBegin
<1> QED BY <1>1, <1>2, <1>3, <1>4, <1>5 DEF SessionInv

\* where it stays until it gives the mutex back;
LEMMA SendEndSafe ==
    ASSUME IInv, IInv', SessionInv, NEW t \in Tasks, SendEnd(t)
    PROVE  SessionInv'
<1>1. CloseInv'
  BY TaskFacts, HandleFacts, OneUnclosed DEF SessionInv, IInv, Types, HandleTypes, Core,
    Published, Owned, Alive, Aux, Goes, CloseInv, Unclosed, SendEnd
<1>2. PcInv'
  BY TaskFacts DEF SessionInv, IInv, Aux, Goes, PcInv, SendEnd
<1>3. SendInv'
  BY TaskFacts DEF SessionInv, Goes, Sends, SendInv, SendEnd, AfterSend
<1>4. UpdateInv'
  BY TaskFacts DEF SessionInv, Goes, Sends, handleVars, updateVars, UpdateInv, SendInv,
    SendEnd, AfterSend
<1>5. ReadyInv'
  BY TaskFacts DEF SessionInv, IInv, Aux, Goes, handleVars, ReadyInv, ReadyAnnounced,
    SendEnd
<1> QED BY <1>1, <1>2, <1>3, <1>4, <1>5 DEF SessionInv

\* one that is refused did not hold it.
LEMMA SendRefusedSafe ==
    ASSUME IInv, IInv', SessionInv, NEW t \in Tasks, SendRefused(t)
    PROVE  SessionInv'
<1>1. CloseInv'
  BY DEF SessionInv, Goes, CloseBegins, CloseEnds, Closing, handleVars, CloseInv, Unclosed,
    SendRefused, AfterSend
<1>2. PcInv'
  BY DEF SessionInv, Goes, Sends, PcInv, SendRefused
<1>3. SendInv'
  BY TaskFacts DEF SessionInv, Goes, Sends, SendInv, SendRefused, AfterSend
<1>4. UpdateInv'
  BY TaskFacts DEF SessionInv, Goes, Sends, handleVars, updateVars, UpdateInv, SendInv,
    SendRefused, AfterSend
<1>5. ReadyInv'
  BY DEF SessionInv, Goes, handleVars, channelVars, ReadyInv, ReadyAnnounced, SendRefused,
    AfterSend
<1> QED BY <1>1, <1>2, <1>3, <1>4, <1>5 DEF SessionInv

\* Before the first session nothing is open and nobody works.
LEMMA InitSafe == ASSUME WebrtcInit PROVE SessionInv
<1>1. \A t \in Tasks : at[t] = "idle"
  BY DEF WebrtcInit
<1>2. CloseInv /\ PcInv
  BY TaskFacts DEF WebrtcInit, CloseInv, PcInv, Unclosed, Closing, CloseBegins, CloseEnds
<1>3. SendInv /\ UpdateInv
  BY TaskFacts DEF WebrtcInit, SendInv, UpdateInv
<1>4. ReadyInv
  BY <1>1, TaskFacts DEF WebrtcInit, ReadyInv, ReadyAnnounced
<1> QED BY <1>2, <1>3, <1>4 DEF SessionInv

\* A step that changes nothing keeps all of it.
LEMMA StutterSafe == ASSUME SessionInv, UNCHANGED webrtcVars PROVE SessionInv'
  BY DEF SessionInv, CloseInv, PcInv, SendInv, UpdateInv, ReadyInv, ReadyAnnounced,
    Unclosed, webrtcVars, handleVars, updateVars, channelVars

\* Every step keeps it.
LEMMA StepSafe ==
    ASSUME IInv, IInv', SessionInv, [WebrtcNext]_webrtcVars
    PROVE  SessionInv'
<1>1. CASE StartStep
  BY <1>1, CallStartSafe, StartTakeSafe, StartGivesUpSafe, OpenSafe, PublishSafe,
    PeerRunsSafe, StartReturnsSafe, WithdrawSafe DEF StartStep
<1>2. ASSUME NEW c \in Callers, StopStep(c) PROVE SessionInv'
  BY <1>2, CallStopSafe, StopTakeSafe, StopGivesUpSafe, TeardownSafe, CloseBeginSafe,
    CloseEndSafe DEF StopStep
<1>3. ASSUME NEW g \in Generations, PeerStep(g) PROVE SessionInv'
  BY <1>3, DeliverSafe, OnChannelOpenSafe, OnChannelClosedSafe, OnUpdatedSafe, ScheduleSafe,
    CreateTaskSafe, UpdateAttemptSafe, UpdateFinishSafe DEF PeerStep
<1>4. CASE ToolSpeaks BY <1>4, ToolSpeaksSafe
<1>5. ASSUME NEW t \in Tasks, SendStep(t) PROVE SessionInv'
  BY <1>5, SendBeginSafe, SendEndSafe, SendRefusedSafe DEF SendStep
<1>6. CASE UNCHANGED webrtcVars BY <1>6, StutterSafe
<1> QED BY <1>1, <1>2, <1>3, <1>4, <1>5, <1>6 DEF WebrtcNext

\* What is known of the tasks and of readiness in every behaviour.
THEOREM SessionsSafe == ASSUME ~LateStop PROVE WebrtcSpec => [](IInv /\ SessionInv)
<1>1. WebrtcInit => SessionInv BY InitSafe
<1>2. IInv /\ IInv' /\ SessionInv /\ [WebrtcNext]_webrtcVars => SessionInv' BY StepSafe
<1> QED BY <1>1, <1>2, SessionsKept, PTL DEF WebrtcSpec

\* schedule_session_update never makes a second task for a generation that has
\* one, although it registers the task in two steps and old pc_tasks come here
\* too: they have been joined by the time a new one runs.
THEOREM OneUpdateTask == ASSUME ~LateStop PROVE WebrtcSpec => []UpdateOnce
<1>1. SessionInv => UpdateOnce
  BY DEF SessionInv, UpdateInv, UpdateOnce
<1> QED BY <1>1, SessionsSafe, PTL

\* A session opened over no other one that believes itself ready has posted
\* WEBRTC_CONNECTED: an old session's session.updated, handled after its
\* session was taken over, does not silence the announcement of the next one.
THEOREM ReadinessAnnounced == ASSUME ~LateStop PROVE WebrtcSpec => []ReadyAnnounced
<1>1. SessionInv => ReadyAnnounced
  BY DEF SessionInv, ReadyInv
<1> QED BY <1>1, SessionsSafe, PTL

-----------------------------------------------------------------------------
(* Types, also when a session is started under a running stop task *)

\* A message is sent over a published handle, and session.update is confirmed to it.
SendTypes == sending # NoTask => webrtc # NoHandle
TypeInv == Types /\ SendTypes

\* Steps of a start keep the types.
LEMMA StartTypes == ASSUME TypeInv, StartStep PROVE TypeInv'
<1> USE TaskFacts, HandleFacts
<1>1. HandleTypes'
  <2>1. CASE StartTake \/ Withdraw
    BY <2>1, GenerationGrows, SMT DEF TypeInv, Types, HandleTypes, StartTake, Withdraw, TakeOver
  <2>2. CASE Open
    BY <2>2, GenerationAssumption, SMT DEF TypeInv, Types, HandleTypes, Open, Generations,
      Handles, NoHandle
  <2>3. CASE Publish \/ StartReturns
    BY <2>3, SMT DEF TypeInv, Types, HandleTypes, Publish, StartReturns
  <2>4. CASE CallStart \/ StartGivesUp \/ PeerRuns
    BY <2>4, SMT DEF TypeInv, Types, HandleTypes, CallStart, StartGivesUp, PeerRuns, handleVars
  <2> QED BY <2>1, <2>2, <2>3, <2>4 DEF StartStep
<1>2. FlagTypes'
  <2>1. CASE StartTake \/ Withdraw
    BY <2>1, SMT DEF TypeInv, Types, HandleTypes, FlagTypes, StartTake, Withdraw, TakeOver,
      runtimeVars, channelVars
  <2>2. CASE CallStart \/ Open \/ StartReturns
    <3>1. UNCHANGED <<ready, channelVars>>
      BY <2>2 DEF CallStart, Open, StartReturns
    <3>2. startingBit' \subseteq {STARTING} /\ media' \subseteq {BUILT}
      BY <2>2, Zenon DEF TypeInv, Types, FlagTypes, CallStart, Open, StartReturns
    <3> QED BY <3>1, <3>2 DEF TypeInv, Types, FlagTypes, channelVars
  <2>3. CASE StartGivesUp \/ Publish \/ PeerRuns
    BY <2>3, SMT DEF TypeInv, Types, FlagTypes, StartGivesUp, Publish, PeerRuns, runtimeVars,
      channelVars
  <2> QED BY <2>1, <2>2, <2>3 DEF StartStep
<1>3. TaskTypes'
  BY SMT DEF TypeInv, Types, TaskTypes, StartStep, CallStart, StartTake, StartGivesUp, Open,
    Publish, PeerRuns, StartReturns, Withdraw, Goes, Places, CloseBegins, CloseEnds, Closing
<1>4. UpdateTypes'
  BY SMT DEF TypeInv, Types, UpdateTypes, StartStep, CallStart, StartTake, StartGivesUp, Open,
    Publish, PeerRuns, StartReturns, Withdraw, TakeOver, updateVars
<1>5. SendTypes'
  BY SMT DEF TypeInv, SendTypes, StartStep, CallStart, StartTake, StartGivesUp, Open, Publish,
    PeerRuns, StartReturns, Withdraw, MutexFree, handleVars
<1> QED BY <1>1, <1>2, <1>3, <1>4, <1>5 DEF TypeInv, Types

\* Steps of a stop and of the close of a handle keep the types.
LEMMA StopTypes == ASSUME TypeInv, NEW c \in Callers, StopStep(c) PROVE TypeInv'
<1> USE TaskFacts, HandleFacts
<1>1. HandleTypes'
  <2>1. CASE StopTake(c)
    BY <2>1, GenerationGrows, SMT DEF TypeInv, Types, HandleTypes, StopTake, TakeOver
  <2>2. CASE CloseEnd(c)
    BY <2>2, SMT DEF TypeInv, Types, HandleTypes, CloseEnd
  <2>3. CASE CallStop(c) \/ StopGivesUp(c) \/ Teardown(c) \/ CloseBegin(c)
    BY <2>3, SMT DEF TypeInv, Types, HandleTypes, CallStop, StopGivesUp, Teardown,
      CloseBegin, handleVars
  <2> QED BY <2>1, <2>2, <2>3 DEF StopStep
<1>2. FlagTypes'
  BY SMT DEF TypeInv, Types, FlagTypes, StopStep, CallStop, StopTake, StopGivesUp, Teardown,
    CloseBegin, CloseEnd, TakeOver, runtimeVars, channelVars
<1>3. TaskTypes'
  BY SMT DEF TypeInv, Types, TaskTypes, StopStep, CallStop, StopTake, StopGivesUp, Teardown,
    CloseBegin, CloseEnd, Goes, Places, CloseBegins, CloseEnds, Closing
<1>4. UpdateTypes'
  BY SMT DEF TypeInv, Types, UpdateTypes, StopStep, CallStop, StopTake, StopGivesUp, Teardown,
    CloseBegin, CloseEnd, TakeOver, updateVars
<1>5. SendTypes'
  BY SMT DEF TypeInv, SendTypes, StopStep, CallStop, StopTake, StopGivesUp, Teardown,
    CloseBegin, CloseEnd, MutexFree, handleVars
<1> QED BY <1>1, <1>2, <1>3, <1>4, <1>5 DEF TypeInv, Types

\* Steps of a pc_task and of a session.update task keep the types.
LEMMA PeerTypes == ASSUME TypeInv, NEW g \in Generations, PeerStep(g) PROVE TypeInv'
<1> USE TaskFacts, HandleFacts
<1>1. UNCHANGED handleVars /\ UNCHANGED <<media, peer, sending>>
  BY SMT DEF PeerStep, Deliver, OnChannelOpen, OnChannelClosed, OnUpdated, Schedule,
    CreateTask, UpdateAttempt, UpdateFinish, runtimeVars
<1>2. HandleTypes' /\ SendTypes'
  BY <1>1, SMT DEF TypeInv, Types, HandleTypes, SendTypes, handleVars
<1>3. FlagTypes'
  BY <1>1, SMT DEF TypeInv, Types, FlagTypes, PeerStep, Deliver, OnChannelOpen,
    OnChannelClosed, OnUpdated, Schedule, CreateTask, UpdateAttempt, UpdateFinish, READY,
    Events, runtimeVars, channelVars
<1>4. at' \in [Tasks -> Places]
  <2>1. CASE \E e \in Events : Deliver(g, e)
    BY <2>1, SMT DEF TypeInv, Types, TaskTypes, Deliver, Goes, Places
  <2>2. CASE CreateTask(g)
    BY <2>2, SMT DEF TypeInv, Types, TaskTypes, CreateTask, Goes, Places
  <2>3. CASE OnChannelOpen(g) \/ OnChannelClosed(g) \/ OnUpdated(g) \/ Schedule(g)
    BY <2>3, SMT DEF TypeInv, Types, TaskTypes, OnChannelOpen, OnChannelClosed, OnUpdated,
      Schedule, Goes, Places
  <2>4. CASE UpdateAttempt(g) \/ UpdateFinish(g)
    BY <2>4, SMT DEF TypeInv, Types, TaskTypes, UpdateAttempt, UpdateFinish, Goes, Places,
      Sends
  <2> QED BY <2>1, <2>2, <2>3, <2>4 DEF PeerStep
<1>5. TaskTypes'
  BY <1>1, <1>4 DEF TypeInv, Types, TaskTypes
<1>6. UpdateTypes'
  <2>1. CASE Schedule(g)
    BY <2>1, GenerationAssumption, SMT DEF TypeInv, Types, HandleTypes, UpdateTypes, Schedule,
      Generations, Handles, NoHandle
  <2>2. CASE CreateTask(g)
    BY <2>2, SMT DEF TypeInv, Types, UpdateTypes, CreateTask
  <2>3. CASE UpdateFinish(g)
    BY <2>3, SMT DEF TypeInv, Types, UpdateTypes, UpdateFinish
  <2>4. CASE \/ \E e \in Events : Deliver(g, e)
             \/ OnChannelOpen(g) \/ OnChannelClosed(g) \/ OnUpdated(g) \/ UpdateAttempt(g)
    BY <2>4, SMT DEF TypeInv, Types, UpdateTypes, Deliver, OnChannelOpen, OnChannelClosed,
      OnUpdated, UpdateAttempt, updateVars
  <2> QED BY <2>1, <2>2, <2>3, <2>4 DEF PeerStep
<1> QED BY <1>2, <1>3, <1>5, <1>6 DEF TypeInv, Types

\* Messages keep the types: the mutex is held to send over a published handle.
LEMMA SendStepTypes ==
    ASSUME TypeInv, ToolSpeaks \/ \E t \in Tasks : SendStep(t)
    PROVE  TypeInv'
<1> USE TaskFacts, HandleFacts
<1>1. CASE ToolSpeaks
  <2>1. UNCHANGED <<handleVars, runtimeVars, peer, sending, updateVars, ready, channelVars>>
    BY <1>1 DEF ToolSpeaks
  <2>2. TaskTypes'
    BY <1>1, <2>1, SMT DEF TypeInv, Types, TaskTypes, ToolSpeaks, Goes, Places, Sends
  <2> QED
    BY <2>1, <2>2 DEF TypeInv, SendTypes, Types, HandleTypes, FlagTypes, UpdateTypes,
      handleVars, runtimeVars, updateVars, channelVars
<1>2. ASSUME NEW t \in Tasks, SendBegin(t) \/ SendRefused(t) PROVE TypeInv'
  <2>1. UNCHANGED <<handleVars, runtimeVars, peer, updateVars, ready, channelVars>>
    BY <1>2 DEF SendBegin, SendRefused
  <2>2. TaskTypes' /\ SendTypes'
    BY <1>2, <2>1, SMT DEF TypeInv, Types, TaskTypes, SendTypes, SendBegin, SendRefused,
      AfterSend, CanSend, Goes, Places, Sends, handleVars
  <2> QED
    BY <2>1, <2>2 DEF TypeInv, Types, HandleTypes, FlagTypes, UpdateTypes, handleVars,
      runtimeVars, updateVars, channelVars
<1>3. ASSUME NEW t \in Tasks, SendEnd(t) PROVE TypeInv'
  <2>1. UNCHANGED <<handleVars, runtimeVars, peer, updateVars, ready, channels, announced>>
    BY <1>3 DEF SendEnd
  <2>2. TaskTypes' /\ SendTypes'
    BY <1>3, <2>1, SMT DEF TypeInv, Types, TaskTypes, SendTypes, SendEnd, AfterSend, Goes,
      Places, Sends
  <2>3. webrtc \in Generations
    BY <1>3, SMT DEF TypeInv, Types, HandleTypes, SendTypes, SendEnd
  <2>4. updates' \subseteq Generations
    BY <1>3, <2>3, Zenon DEF TypeInv, Types, FlagTypes, SendEnd
  <2> QED
    BY <2>1, <2>2, <2>4 DEF TypeInv, Types, HandleTypes, FlagTypes, UpdateTypes, handleVars,
      runtimeVars, updateVars
<1> QED BY <1>1, <1>2, <1>3 DEF SendStep

\* Every variable of the sessions keeps its type, however start_webrtc and
\* stop_webrtc interleave: no message is sent over a handle that is not there,
\* and no generation or task is made of one that was never counted.
THEOREM WebrtcTypeCorrect == WebrtcSpec => []WebrtcTypeOK
<1>1. WebrtcInit => TypeInv
  BY TaskFacts, HandleFacts, GenerationAssumption, SMT DEF WebrtcInit, TypeInv, SendTypes,
    Types, HandleTypes, FlagTypes, TaskTypes, UpdateTypes, Places
<1>2. TypeInv /\ [WebrtcNext]_webrtcVars => TypeInv'
  <2> SUFFICES ASSUME TypeInv, [WebrtcNext]_webrtcVars PROVE TypeInv' OBVIOUS
  <2>1. CASE UNCHANGED webrtcVars
    BY <2>1 DEF TypeInv, SendTypes, Types, HandleTypes, FlagTypes, TaskTypes, UpdateTypes,
      webrtcVars, handleVars, runtimeVars, updateVars, channelVars
  <2> QED BY <2>1, StartTypes, StopTypes, PeerTypes, SendStepTypes DEF WebrtcNext
<1>3. TypeInv => WebrtcTypeOK
  BY DEF TypeInv, Types, HandleTypes, FlagTypes, TaskTypes, UpdateTypes, WebrtcTypeOK
<1> QED BY <1>1, <1>2, <1>3, PTL DEF WebrtcSpec
=============================================================================
