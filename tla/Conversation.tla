---------------------------- MODULE Conversation ----------------------------
(***************************************************************************)
(* What is said in a Realtime session: webrtc_data_handler of webrtc.c,    *)
(* the arrival context, and the response.create requests of tool tasks.    *)
(*                                                                         *)
(* Three tasks share the flags of the conversation without a lock: the     *)
(* pc_task, which handles the server's events one by one; a tool task,     *)
(* which answers a function call and may outlive its session; and the      *)
(* orchestrator, which injects the arrival context on entering ACTIVE and  *)
(* closes the session.  A session's events are handled only while it is    *)
(* the current one, and a new one is opened only after the old one's       *)
(* pc_task has been joined; module WebrtcSession is about that.            *)
(*                                                                         *)
(* OpenAI's server is outside: it opens and closes the data channel,       *)
(* responds, plays audio and reports errors whenever its own state allows. *)
(***************************************************************************)
VARIABLES
    session,   \* {"open"} while a session is the current one
    joined,    \* whether the last session's pc_task is gone, as a set
    style,     \* g_webrtc_session_mode
    doing,     \* where each task is
    raised,    \* the flags of the conversation that are set
    server,    \* what holds of the server in this session
    past       \* what has happened in this session

convVars == <<session, joined, style, doing, raised, server, past>>
lifeVars == <<session, joined, style>>

Peer == "pc_task"
Brain == "orchestrator"
Helper == "tool_task"
Speakers == {Peer, Brain, Helper}

Marks == {"ready", "busy", "audio", "deferred", "injected"}
Facts == {"open", "responding", "playing"}
\* "spoken": the server has responded; "asked": VIGILANTE_TIMEOUT was posted;
\* "greeted": a first response was requested or under way; "disturbed": an
\* event was not handled or a greeting not sent; "crossed": a response was
\* deferred after the end of the one it was to wait for.
Deeds == {"spoken", "asked", "greeted", "disturbed", "crossed"}

ServerEvents == {"dc_open", "dc_closed", "updated", "speech_started", "committed", "created", "done",
                 "audio_started", "audio_stopped", "error_active", "error", "call"}
Messages == {"send_arrival", "send_create", "send_greeting", "send_cancel", "send_flush", "send_output"}
Spots == ServerEvents \union Messages \union
         {"idle", "inject", "arrived", "flushed", "ask", "defer"}

ConvInit ==
    /\ session = {} /\ joined = {"joined"} /\ style = "FRIENDLY"
    /\ doing = [t \in Speakers |-> "idle"]
    /\ raised = {} /\ server = {} /\ past = {}

Now(t, spot) == doing' = [doing EXCEPT ![t] = spot]

\* The history with one more deed.  A disturbed session promises nothing more,
\* so the rest of its history is dropped: it is only what the properties read.
With(p, deed) ==
    IF "disturbed" \in p \union {deed} THEN {"disturbed"} ELSE p \union {deed}

-----------------------------------------------------------------------------
(* The session's life, as far as the conversation sees it. *)

OpenSession(m) ==
    /\ session = {} /\ joined = {"joined"} /\ doing[Brain] = "idle"
    /\ session' = {"open"} /\ joined' = {}
    /\ style' = m
    /\ raised' = {} /\ server' = {} /\ past' = {}
    /\ UNCHANGED doing

\* stop_webrtc under the mutex: reset_realtime_interaction_state.
CloseSession ==
    /\ session # {} /\ doing[Brain] = "idle"
    /\ session' = {}
    /\ style' = "FRIENDLY"
    /\ raised' = {} /\ past' = {}
    /\ UNCHANGED <<joined, doing, server>>

\* esp_webrtc_close waits for a handler that had begun.
JoinPeer ==
    /\ session = {} /\ joined = {} /\ doing[Peer] = "idle"
    /\ joined' = {"joined"}
    /\ server' = {} /\ past' = {}
    /\ UNCHANGED <<session, style, doing, raised>>

-----------------------------------------------------------------------------
(* webrtc_data_handler. *)

May(e) ==
    CASE e = "dc_open" -> "open" \notin server
      [] e = "dc_closed" -> TRUE
      [] OTHER -> /\ "open" \in server
                  /\ e = "created" => "responding" \notin server
                  /\ e \in {"done", "error_active"} => "responding" \in server
                  /\ e = "audio_started" => "responding" \in server /\ "playing" \notin server
                  /\ e = "audio_stopped" => "playing" \in server

ServerAfter(e) ==
    CASE e = "dc_open" -> {"open"}
      [] e = "dc_closed" -> {}
      [] e = "created" -> server \union {"responding"}
      [] e = "done" -> server \ {"responding"}
      [] e = "audio_started" -> server \union {"playing"}
      [] e = "audio_stopped" -> server \ {"playing"}
      [] OTHER -> server

PastAfter(e) ==
    CASE e = "created" -> With(past, "spoken")
      [] e = "dc_closed" -> past \ {"spoken"}
      [] OTHER -> past

\* The event is taken if the session is current and the mutex could be had for
\* the test; another task's send may hold it for too long.
Hear(e) ==
    /\ joined = {} /\ doing[Peer] = "idle" /\ May(e)
    /\ server' = ServerAfter(e)
    /\ \/ /\ Now(Peer, IF session # {} THEN e ELSE "idle")
          /\ past' = PastAfter(e)
       \/ /\ \E t \in Speakers : doing[t] \in Messages
          /\ past' = With(PastAfter(e), "disturbed")
          /\ UNCHANGED doing
    /\ UNCHANGED <<lifeVars, raised>>

\* Events that only set or clear flags.
RaisedAfter(e) ==
    CASE e = "dc_open" -> raised \ {"ready"}
      [] e = "dc_closed" -> {}
      [] e = "committed" -> raised \ {"deferred"}
      [] e = "created" -> (raised \ {"deferred"}) \union {"busy"}
      [] e = "audio_started" -> raised \union {"audio"}
      [] e = "error_active" -> raised \union {"busy"}
      [] e = "error" -> raised \ {"busy"}

HandleFlags ==
    /\ doing[Peer] \in {"dc_open", "dc_closed", "committed", "created",
                        "audio_started", "error_active", "error"}
    /\ raised' = RaisedAfter(doing[Peer])
    /\ Now(Peer, "idle")
    /\ UNCHANGED <<lifeVars, server, past>>

\* Mutant: the arrival context is left to the orchestrator.
HandleUpdatedSilently ==
    /\ doing[Peer] = "updated"
    /\ raised' = raised \union {"ready"}
    /\ Now(Peer, "idle")
    /\ UNCHANGED <<lifeVars, server, past>>

\* The first session.updated leads to the arrival context.
HandleUpdated ==
    /\ doing[Peer] = "updated"
    /\ raised' = raised \union {"ready"}
    /\ Now(Peer, IF "ready" \in raised THEN "idle" ELSE "inject")
    /\ UNCHANGED <<lifeVars, server, past>>

HandleSpeech ==
    /\ doing[Peer] = "speech_started"
    /\ Now(Peer, IF "busy" \in raised THEN "send_cancel" ELSE "idle")
    /\ UNCHANGED <<lifeVars, raised, server, past>>

\* Mutant: the server is still taken to respond.
HandleDoneBusy ==
    /\ doing[Peer] = "done"
    /\ raised' = raised \ {"deferred"}
    /\ Now(Peer, IF "deferred" \in raised THEN "send_flush" ELSE "flushed")
    /\ UNCHANGED <<lifeVars, server, past>>

\* Mutant: the deferred request is not taken back.
HandleDoneNoFlush ==
    /\ doing[Peer] = "done"
    /\ raised' = raised \ {"busy"}
    /\ Now(Peer, "flushed")
    /\ UNCHANGED <<lifeVars, server, past>>

\* response.done flushes the deferred response.create ...
HandleDone ==
    /\ doing[Peer] = "done"
    /\ raised' = raised \ {"busy", "deferred"}
    /\ Now(Peer, IF "deferred" \in raised THEN "send_flush" ELSE "flushed")
    /\ UNCHANGED <<lifeVars, server, past>>

\* ... and ends a vigilante session unless the audio is still to end.
HandleFlushed ==
    /\ doing[Peer] = "flushed"
    /\ past' = IF style = "VIGILANTE" /\ "audio" \notin raised THEN With(past, "asked") ELSE past
    /\ Now(Peer, "idle")
    /\ UNCHANGED <<lifeVars, raised, server>>

HandleAudioStopped ==
    /\ doing[Peer] = "audio_stopped"
    /\ raised' = raised \ {"audio"}
    /\ past' = IF style = "VIGILANTE" /\ "busy" \notin raised THEN With(past, "asked") ELSE past
    /\ Now(Peer, "idle")
    /\ UNCHANGED <<lifeVars, server>>

\* A function call goes to a tool task; one with wrong arguments is answered here.
HandleCall ==
    /\ doing[Peer] = "call"
    /\ \/ doing[Helper] = "idle" /\ doing' = [doing EXCEPT ![Peer] = "idle", ![Helper] = "send_output"]
       \/ doing[Helper] # "idle" /\ Now(Peer, "idle")
       \/ Now(Peer, "send_output")
    /\ UNCHANGED <<lifeVars, raised, server, past>>

-----------------------------------------------------------------------------
(* webrtc_inject_arrival_context, by the pc_task and by the orchestrator   *)
(* on entering STATE_ACTIVE.                                               *)

EnterActive ==
    /\ doing[Brain] = "idle" /\ session # {} /\ "ready" \in raised
    /\ Now(Brain, "inject")
    /\ UNCHANGED <<lifeVars, raised, server, past>>

InjectArrival(t) ==
    /\ doing[t] = "inject"
    /\ Now(t, IF "ready" \in raised /\ "injected" \notin raised THEN "send_arrival" ELSE "idle")
    /\ UNCHANGED <<lifeVars, raised, server, past>>

\* 150 ms later: request a response unless one is under way.
Greet(t) ==
    /\ doing[t] = "arrived"
    /\ IF raised \intersect {"busy", "audio"} # {}
       THEN Now(t, "idle") /\ past' = With(past, "greeted")
       ELSE Now(t, "send_greeting") /\ UNCHANGED past
    /\ UNCHANGED <<lifeVars, raised, server>>

-----------------------------------------------------------------------------
(* request_response_create, by a tool task or a handler: it reads whether  *)
(* the server responds and acts on what it has read.                       *)

AskForResponse(t) ==
    /\ doing[t] = "ask"
    /\ Now(t, IF "busy" \in raised THEN "defer" ELSE "send_create")
    /\ UNCHANGED <<lifeVars, raised, server, past>>

DeferResponse(t) ==
    /\ doing[t] = "defer"
    /\ raised' = raised \union {"deferred"}
    /\ past' = IF "busy" \in raised THEN past ELSE With(past, "crossed")
    /\ Now(t, "idle")
    /\ UNCHANGED <<lifeVars, server>>

-----------------------------------------------------------------------------
(* webrtc_send_json and what its caller does next. *)

Reachable == session # {} /\ "open" \in server

SpotAfter(m, ok) ==
    CASE m = "send_arrival" -> IF ok THEN "arrived" ELSE "idle"
      [] m = "send_flush" -> "flushed"
      [] m = "send_output" -> "ask"
      [] OTHER -> "idle"

Transmit(t) ==
    /\ doing[t] \in Messages
    /\ \E ok \in {Reachable, FALSE} :
         /\ Now(t, SpotAfter(doing[t], ok))
         /\ raised' = CASE doing[t] = "send_arrival" /\ ok -> raised \union {"injected"}
                        [] doing[t] = "send_cancel" -> raised \ {"busy"}
                        [] OTHER -> raised
         /\ past' = CASE doing[t] = "send_greeting" /\ ok -> With(past, "greeted")
                      [] doing[t] \in {"send_greeting", "send_arrival"} /\ ~ok -> With(past, "disturbed")
                      [] OTHER -> past
    /\ UNCHANGED <<lifeVars, server>>

-----------------------------------------------------------------------------
ConvNext ==
    \/ \E m \in {"FRIENDLY", "VIGILANTE"} : OpenSession(m)
    \/ CloseSession \/ JoinPeer
    \/ \E e \in ServerEvents : Hear(e)
    \/ HandleFlags \/ HandleUpdated \/ HandleSpeech \/ HandleDone \/ HandleFlushed
    \/ HandleAudioStopped \/ HandleCall
    \/ EnterActive
    \/ \E t \in Speakers : InjectArrival(t) \/ Greet(t) \/ Transmit(t)
    \/ \E t \in {Peer, Helper} : AskForResponse(t) \/ DeferResponse(t)

ConvSpec == ConvInit /\ [][ConvNext]_convVars

-----------------------------------------------------------------------------
\* Every variable has its type.
ConvTypeOK ==
    /\ session \subseteq {"open"}
    /\ joined \subseteq {"joined"} /\ style \in {"FRIENDLY", "VIGILANTE"}
    /\ doing \in [Speakers -> Spots]
    /\ raised \subseteq Marks /\ server \subseteq Facts /\ past \subseteq Deeds

\* A vigilante session whose warning has been spoken to the end has asked for
\* its own end, in whichever order response.done and the end of the audio came.
WarningAnswered ==
    (session # {} /\ style = "VIGILANTE" /\ doing[Peer] = "idle" /\ "spoken" \in past
        /\ server \intersect {"responding", "playing"} = {} /\ "disturbed" \notin past)
      => "asked" \in past

\* Camila speaks first: once a ready session's two injectors are through, a
\* first response was requested or was under way, whichever of them did it.
GreetingRequested ==
    (session # {} /\ "ready" \in raised /\ doing[Peer] = "idle" /\ doing[Brain] = "idle"
        /\ "disturbed" \notin past)
      => "greeted" \in past

\* A response.create that was deferred is sent: whenever one is deferred in an
\* open session, with every event handled so far, response.done is still to come
\* - unless it was handled between the test and the deferral, which have no lock.
DeferredIsAwaited ==
    ("deferred" \in raised /\ "open" \in server /\ doing[Peer] = "idle" /\ session # {}
        /\ past \intersect {"disturbed", "crossed"} = {})
      => "responding" \in server
=============================================================================
