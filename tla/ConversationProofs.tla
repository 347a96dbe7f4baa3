------------------------- MODULE ConversationProofs -------------------------
(***************************************************************************)
(* Proofs about what goes on in and after a conversation: what is said     *)
(* (Conversation), the model's function calls, for any number of calls and *)
(* any depth of the queue of lookups (FunctionCalls), and the automation   *)
(* engine, for any triggers, requests and depth of its queue (RuleEngine). *)
(*                                                                         *)
(* The conversation's properties speak of moments when no handler runs.    *)
(* Between them the flags say what the server does until the handler of    *)
(* the event that ends it runs (FlagInv), a warning that is over is being  *)
(* handled (WarnInv), and somebody has asked for the first response or is  *)
(* about to (GreetInv).                                                    *)
(*                                                                         *)
(* A function call that has met no other has its own id until it answers   *)
(* (OwnInv), because the last id is that of the last call and whoever      *)
(* reads another's has met it (IdInv).  Calls are finitely many: only for  *)
(* that is the number of skills that wait bounded.                         *)
(*                                                                         *)
(* The active rules are the reported ones over any number of restarts, and *)
(* every request is answered, since table and file are related by what the *)
(* change at hand has done (JobInv, FileInv).                              *)
(***************************************************************************)
EXTENDS Conversation, FunctionCalls, RuleEngine, FiniteSetTheorems, TLAPS


-----------------------------------------------------------------------------
(* The conversation *)

\* The orchestrator and the pc_task on the way to the first response.
Greeting  == {"arrived", "send_greeting"}
Injecting == {"inject", "send_arrival"} \union Greeting

\* A session of which no event was missed and no greeting lost.
Calm == session # {} /\ "disturbed" \notin past

\* The handlers of a session end with it, and a tool task only answers.
LifeInv ==
    /\ joined # {} => session = {} /\ doing[Peer] = "idle"
    /\ doing[Helper] \in {"idle", "send_output", "ask", "defer", "send_create"}

\* What the server must have done for the handler to be where it is.
ServerInv ==
    /\ "open" \notin server => server = {}
    /\ Calm /\ "open" \notin server => "spoken" \notin past
    /\ Calm /\ doing[Peer] \in {"created", "error_active", "audio_started"} =>
           "responding" \in server
    /\ Calm /\ doing[Peer] = "audio_started" => "playing" \in server

\* Until the handler of the event that ends them runs, the flags say that the
\* server responds or plays.
FlagInv ==
    /\ Calm /\ "busy" \in raised /\ doing[Peer] \notin {"done", "dc_closed"} =>
           "responding" \in server
    /\ Calm /\ "deferred" \in raised /\ "crossed" \notin past
         /\ doing[Peer] \notin {"done", "dc_closed"} => "responding" \in server
    /\ Calm /\ "audio" \in raised /\ doing[Peer] \notin {"audio_stopped", "dc_closed"} =>
           "playing" \in server

\* A warning that is not over, or whose end is being handled.
WarnInv ==
    Calm /\ style = "VIGILANTE" /\ "spoken" \in past /\ "asked" \notin past =>
        \/ server \intersect {"responding", "playing"} # {}
        \/ doing[Peer] \in {"done", "send_flush", "flushed", "audio_stopped"}

\* Somebody has asked for the first response or is about to.
GreetInv ==
    /\ Calm /\ "ready" \in raised =>
           "greeted" \in past \/ doing[Peer] \in Injecting \/ doing[Brain] \in Injecting
    /\ Calm /\ "injected" \in raised =>
           "greeted" \in past \/ doing[Peer] \in Greeting \/ doing[Brain] \in Greeting

ConvInv == LifeInv /\ ServerInv /\ FlagInv /\ WarnInv /\ GreetInv

\* A session begins with all flags reset and no handler behind.
LEMMA OpenSessionKeeps ==
    ASSUME ConvTypeOK, ConvInv, NEW m \in {"FRIENDLY", "VIGILANTE"}, OpenSession(m)
    PROVE  ConvTypeOK' /\ ConvInv'
<1>1. ConvTypeOK'
  BY DEF ConvTypeOK, OpenSession
<1>2. LifeInv'
  BY DEF ConvInv, LifeInv, OpenSession
<1>3. ServerInv'
  BY DEF ConvInv, LifeInv, OpenSession, ServerInv
<1>4. FlagInv'
  BY DEF OpenSession, FlagInv
<1>5. WarnInv'
  BY DEF OpenSession, WarnInv
<1>6. GreetInv'
  BY DEF OpenSession, GreetInv
<1> QED BY <1>1, <1>2, <1>3, <1>4, <1>5, <1>6 DEF ConvInv

\* Its end takes effect for those who ask; the pc_task may still be in a handler.
LEMMA CloseSessionKeeps ==
    ASSUME ConvTypeOK, ConvInv, CloseSession
    PROVE  ConvTypeOK' /\ ConvInv'
<1>1. ConvTypeOK'
  BY DEF ConvTypeOK, CloseSession
<1>2. LifeInv'
  BY DEF ConvInv, LifeInv, CloseSession
<1>3. ServerInv'
  BY DEF ConvInv, CloseSession, ServerInv, Calm
<1>4. FlagInv'
  BY DEF CloseSession, FlagInv
<1>5. WarnInv'
  BY DEF CloseSession, WarnInv
<1>6. GreetInv'
  BY DEF CloseSession, GreetInv
<1> QED BY <1>1, <1>2, <1>3, <1>4, <1>5, <1>6 DEF ConvInv

\* The pc_task of a session that was closed is joined before the next one.
LEMMA JoinPeerKeeps ==
    ASSUME ConvTypeOK, ConvInv, JoinPeer
    PROVE  ConvTypeOK' /\ ConvInv'
<1>1. ConvTypeOK'
  BY DEF ConvTypeOK, JoinPeer
<1>2. LifeInv'
  BY DEF ConvInv, LifeInv, JoinPeer
<1>3. ServerInv'
  BY DEF ConvInv, LifeInv, JoinPeer, ServerInv
<1>4. FlagInv'
  BY DEF JoinPeer, FlagInv, Calm
<1>5. WarnInv'
  BY DEF JoinPeer, WarnInv
<1>6. GreetInv'
  BY DEF JoinPeer, GreetInv, Calm
<1> QED BY <1>1, <1>2, <1>3, <1>4, <1>5, <1>6 DEF ConvInv

\* The server's events come in the order in which it did what they tell; one that is
\* missed while a send holds the mutex disturbs the session.
LEMMA HearKeeps ==
    ASSUME ConvTypeOK, ConvInv, NEW e \in ServerEvents, Hear(e)
    PROVE  ConvTypeOK' /\ ConvInv'
<1>1. ConvTypeOK'
  BY DEF ConvTypeOK, Spots, Facts, Deeds, Hear, ServerAfter, PastAfter, With, lifeVars, Now
<1>2. LifeInv'
  BY DEF ConvTypeOK, ConvInv, LifeInv, Hear, lifeVars, Now, Speakers, Peer, Helper
<1>3. ServerInv'
  BY DEF ConvTypeOK, Hear, May, ServerAfter, PastAfter, With, Now, ServerInv
<1>4. FlagInv'
  BY DEF ConvTypeOK, ConvInv, Hear, May, ServerAfter, PastAfter, With, lifeVars, Now,
    ServerInv, FlagInv, Calm, Speakers
<1>5. WarnInv'
  BY DEF ConvTypeOK, ConvInv, Hear, May, ServerAfter, PastAfter, With, lifeVars, Now,
    ServerInv, WarnInv, Calm, Speakers
<1>6. GreetInv'
  BY DEF ConvTypeOK, ConvInv, Hear, PastAfter, With, lifeVars, Now, GreetInv, Calm,
    Injecting, Greeting, Speakers
<1> QED BY <1>1, <1>2, <1>3, <1>4, <1>5, <1>6 DEF ConvInv

\* The handlers that only set or clear flags,
LEMMA HandleFlagsKeeps ==
    ASSUME ConvTypeOK, ConvInv, HandleFlags
    PROVE  ConvTypeOK' /\ ConvInv'
<1>1. ConvTypeOK'
  BY DEF ConvTypeOK, Spots, Marks, HandleFlags, RaisedAfter, lifeVars, Now, Speakers
<1>2. LifeInv'
  BY DEF ConvTypeOK, ConvInv, LifeInv, HandleFlags, lifeVars, Now, Speakers, Peer, Helper
<1>3. ServerInv'
  BY DEF ConvInv, HandleFlags, lifeVars, Now, ServerInv, Calm
<1>4. FlagInv'
  BY DEF ConvInv, HandleFlags, RaisedAfter, lifeVars, ServerInv, FlagInv, Calm
<1>5. WarnInv'
  BY DEF ConvInv, HandleFlags, lifeVars, WarnInv, Calm
<1>6. GreetInv'
  BY DEF ConvInv, HandleFlags, RaisedAfter, lifeVars, Now, GreetInv, Calm, Injecting,
    Greeting
<1> QED BY <1>1, <1>2, <1>3, <1>4, <1>5, <1>6 DEF ConvInv

\* that of the first session.updated, which leads to the arrival context,
LEMMA HandleUpdatedKeeps ==
    ASSUME ConvTypeOK, ConvInv, HandleUpdated
    PROVE  ConvTypeOK' /\ ConvInv'
<1>1. ConvTypeOK'
  BY DEF ConvTypeOK, Spots, Marks, HandleUpdated, lifeVars, Now, Speakers
<1>2. LifeInv'
  BY DEF ConvTypeOK, ConvInv, LifeInv, HandleUpdated, lifeVars, Now, Speakers, Peer, Helper
<1>3. ServerInv'
  BY DEF ConvInv, HandleUpdated, lifeVars, Now, ServerInv, Calm
<1>4. FlagInv'
  BY DEF ConvInv, HandleUpdated, lifeVars, FlagInv, Calm
<1>5. WarnInv'
  BY DEF ConvInv, HandleUpdated, lifeVars, WarnInv, Calm
<1>6. GreetInv'
  BY DEF ConvTypeOK, ConvInv, HandleUpdated, lifeVars, Now, GreetInv, Calm, Injecting,
    Greeting, Speakers
<1> QED BY <1>1, <1>2, <1>3, <1>4, <1>5, <1>6 DEF ConvInv

\* that of speech_started, which leads to a cancel when the server responds,
LEMMA HandleSpeechKeeps ==
    ASSUME ConvTypeOK, ConvInv, HandleSpeech
    PROVE  ConvTypeOK' /\ ConvInv'
<1>1. ConvTypeOK'
  BY DEF ConvTypeOK, Spots, Messages, HandleSpeech, lifeVars, Now, Speakers
<1>2. LifeInv'
  BY DEF ConvTypeOK, ConvInv, LifeInv, HandleSpeech, lifeVars, Now, Speakers, Peer, Helper
<1>3. ServerInv'
  BY DEF ConvInv, HandleSpeech, lifeVars, Now, ServerInv, Calm
<1>4. FlagInv'
  BY DEF ConvInv, HandleSpeech, lifeVars, FlagInv, Calm
<1>5. WarnInv'
  BY DEF ConvInv, HandleSpeech, lifeVars, WarnInv, Calm
<1>6. GreetInv'
  BY DEF ConvInv, HandleSpeech, lifeVars, Now, GreetInv, Calm, Injecting, Greeting
<1> QED BY <1>1, <1>2, <1>3, <1>4, <1>5, <1>6 DEF ConvInv

\* that of response.done, which takes back the deferred request,
LEMMA HandleDoneKeeps ==
    ASSUME ConvTypeOK, ConvInv, HandleDone
    PROVE  ConvTypeOK' /\ ConvInv'
<1>1. ConvTypeOK'
  BY DEF ConvTypeOK, Spots, Messages, HandleDone, lifeVars, Now, Speakers
<1>2. LifeInv'
  BY DEF ConvTypeOK, ConvInv, LifeInv, HandleDone, lifeVars, Now, Speakers, Peer, Helper
<1>3. ServerInv'
  BY DEF ConvInv, HandleDone, lifeVars, Now, ServerInv, Calm
<1>4. FlagInv'
  BY DEF ConvInv, HandleDone, lifeVars, FlagInv, Calm
<1>5. WarnInv'
  BY DEF HandleDone, Now, WarnInv
<1>6. GreetInv'
  BY DEF ConvTypeOK, ConvInv, HandleDone, lifeVars, Now, GreetInv, Calm, Injecting,
    Greeting, Speakers
<1> QED BY <1>1, <1>2, <1>3, <1>4, <1>5, <1>6 DEF ConvInv

\* and ends a vigilante session unless audio still plays,
LEMMA HandleFlushedKeeps ==
    ASSUME ConvTypeOK, ConvInv, HandleFlushed
    PROVE  ConvTypeOK' /\ ConvInv'
<1>1. ConvTypeOK'
  BY DEF ConvTypeOK, Spots, Deeds, HandleFlushed, With, lifeVars, Now, Speakers
<1>2. LifeInv'
  BY DEF ConvTypeOK, ConvInv, LifeInv, HandleFlushed, lifeVars, Now, Speakers, Peer, Helper
<1>3. ServerInv'
  BY DEF ConvInv, HandleFlushed, With, lifeVars, Now, ServerInv, Calm
<1>4. FlagInv'
  BY DEF ConvInv, HandleFlushed, With, lifeVars, FlagInv, Calm
<1>5. WarnInv'
  BY DEF ConvInv, HandleFlushed, With, lifeVars, FlagInv, WarnInv, Calm
<1>6. GreetInv'
  BY DEF ConvInv, HandleFlushed, With, lifeVars, Now, GreetInv, Calm, Injecting, Greeting
<1> QED BY <1>1, <1>2, <1>3, <1>4, <1>5, <1>6 DEF ConvInv

\* as does that of the end of the audio, unless a response is under way,
LEMMA HandleAudioStoppedKeeps ==
    ASSUME ConvTypeOK, ConvInv, HandleAudioStopped
    PROVE  ConvTypeOK' /\ ConvInv'
<1>1. ConvTypeOK'
  BY DEF ConvTypeOK, Spots, Deeds, HandleAudioStopped, With, lifeVars, Now, Speakers
<1>2. LifeInv'
  BY DEF ConvTypeOK, ConvInv, LifeInv, HandleAudioStopped, lifeVars, Now, Speakers,
    Peer, Helper
<1>3. ServerInv'
  BY DEF ConvInv, HandleAudioStopped, With, lifeVars, Now, ServerInv, Calm
<1>4. FlagInv'
  BY DEF ConvInv, HandleAudioStopped, With, lifeVars, FlagInv, Calm
<1>5. WarnInv'
  BY DEF ConvInv, HandleAudioStopped, With, lifeVars, FlagInv, WarnInv, Calm
<1>6. GreetInv'
  BY DEF ConvInv, HandleAudioStopped, With, lifeVars, Now, GreetInv, Calm, Injecting,
    Greeting
<1> QED BY <1>1, <1>2, <1>3, <1>4, <1>5, <1>6 DEF ConvInv

\* and that of a function call, which a tool task answers.
LEMMA HandleCallKeeps ==
    ASSUME ConvTypeOK, ConvInv, HandleCall
    PROVE  ConvTypeOK' /\ ConvInv'
<1>1. ConvTypeOK'
  BY DEF ConvTypeOK, Spots, Messages, HandleCall, lifeVars, Now, Speakers
<1>2. LifeInv'
  BY DEF ConvTypeOK, ConvInv, LifeInv, HandleCall, lifeVars, Now, Speakers, Peer, Helper
<1>3. ServerInv'
  BY DEF ConvTypeOK, ConvInv, HandleCall, lifeVars, Now, ServerInv, Calm, Speakers
<1>4. FlagInv'
  BY DEF ConvInv, HandleCall, lifeVars, FlagInv, Calm
<1>5. WarnInv'
  BY DEF ConvInv, HandleCall, lifeVars, WarnInv, Calm
<1>6. GreetInv'
  BY DEF ConvTypeOK, ConvInv, HandleCall, lifeVars, Now, GreetInv, Calm, Injecting,
    Greeting, Speakers
<1> QED BY <1>1, <1>2, <1>3, <1>4, <1>5, <1>6 DEF ConvInv

\* The orchestrator, told that the session is ready, comes to the arrival context, too.
LEMMA EnterActiveKeeps ==
    ASSUME ConvTypeOK, ConvInv, EnterActive
    PROVE  ConvTypeOK' /\ ConvInv'
<1>1. ConvTypeOK'
  BY DEF ConvTypeOK, Spots, Marks, EnterActive, lifeVars, Now, Speakers
<1>2. LifeInv'
  BY DEF ConvInv, LifeInv, EnterActive, lifeVars, Now, Brain, Helper
<1>3. ServerInv'
  BY DEF ConvInv, EnterActive, lifeVars, Now, ServerInv, Calm
<1>4. FlagInv'
  BY DEF ConvInv, EnterActive, Now, FlagInv, Calm
<1>5. WarnInv'
  BY DEF ConvInv, EnterActive, lifeVars, Now, WarnInv, Calm
<1>6. GreetInv'
  BY DEF ConvInv, EnterActive, lifeVars, Now, GreetInv, Calm, Injecting, Greeting
<1> QED BY <1>1, <1>2, <1>3, <1>4, <1>5, <1>6 DEF ConvInv

\* Whoever finds it not yet injected goes on to send it.
LEMMA InjectArrivalKeeps ==
    ASSUME ConvTypeOK, ConvInv, NEW t \in Speakers, InjectArrival(t)
    PROVE  ConvTypeOK' /\ ConvInv'
<1>1. ConvTypeOK'
  BY DEF ConvTypeOK, Spots, Messages, InjectArrival, lifeVars, Now, Speakers
<1>2. LifeInv'
  BY DEF ConvInv, LifeInv, InjectArrival, lifeVars, Now, Brain, Helper
<1>3. ServerInv'
  BY DEF ConvInv, InjectArrival, lifeVars, Now, ServerInv, Calm
<1>4. FlagInv'
  BY DEF ConvInv, InjectArrival, lifeVars, Now, FlagInv, Calm
<1>5. WarnInv'
  BY DEF ConvInv, InjectArrival, lifeVars, Now, WarnInv, Calm
<1>6. GreetInv'
  BY DEF ConvInv, InjectArrival, lifeVars, Now, GreetInv, Calm, Injecting, Greeting
<1> QED BY <1>1, <1>2, <1>3, <1>4, <1>5, <1>6 DEF ConvInv

\* The greeting is asked for unless a response is under way or plays.
LEMMA GreetKeeps ==
    ASSUME ConvTypeOK, ConvInv, NEW t \in Speakers, Greet(t)
    PROVE  ConvTypeOK' /\ ConvInv'
<1>1. ConvTypeOK'
  <2>1. \/ doing' = [doing EXCEPT ![t] = "idle"] /\ past' = With(past, "greeted")
        \/ doing' = [doing EXCEPT ![t] = "send_greeting"] /\ past' = past
    BY DEF Greet, Now
  <2>2. With(past, "greeted") \subseteq Deeds
    BY DEF ConvTypeOK, With, Deeds
  <2> QED BY <2>1, <2>2 DEF ConvTypeOK, Spots, Messages, Greet, lifeVars
<1>2. LifeInv'
  BY DEF ConvTypeOK, ConvInv, LifeInv, Greet, lifeVars, Now, Speakers, Peer, Helper
<1>3. ServerInv'
  BY DEF ConvTypeOK, ConvInv, Greet, With, lifeVars, Now, ServerInv, Calm, Speakers
<1>4. FlagInv'
  BY DEF ConvTypeOK, ConvInv, Greet, With, lifeVars, Now, FlagInv, Calm, Speakers
<1>5. WarnInv'
  BY DEF ConvTypeOK, ConvInv, Greet, With, lifeVars, Now, WarnInv, Calm, Speakers
<1>6. GreetInv'
  BY DEF ConvTypeOK, ConvInv, Greet, With, lifeVars, Now, GreetInv, Calm, Injecting,
    Greeting, Speakers
<1> QED BY <1>1, <1>2, <1>3, <1>4, <1>5, <1>6 DEF ConvInv

\* What is sent reaches the server or not; a lost arrival or greeting disturbs the session.
LEMMA TransmitKeeps ==
    ASSUME ConvTypeOK, ConvInv, NEW t \in Speakers, Transmit(t)
    PROVE  ConvTypeOK' /\ ConvInv'
<1>1. ConvTypeOK'
  BY DEF ConvTypeOK, Spots, Marks, Deeds, Transmit, SpotAfter, With, lifeVars, Now
<1>2. LifeInv'
  BY DEF ConvInv, LifeInv, Transmit, SpotAfter, lifeVars, Now
<1>3. ServerInv'
  BY DEF ConvInv, Transmit, SpotAfter, With, lifeVars, Now, ServerInv, Calm
<1>4. FlagInv'
  BY DEF ConvInv, Transmit, Messages, With, lifeVars, Now, FlagInv, Calm
<1>5. WarnInv'
  BY DEF ConvInv, Transmit, Messages, SpotAfter, With, lifeVars, Now, WarnInv, Calm
<1>6. GreetInv'
  BY DEF ConvTypeOK, ConvInv, LifeInv, Transmit, Messages, SpotAfter, With, lifeVars, Now,
    GreetInv, Calm, Injecting, Greeting, Speakers
<1> QED BY <1>1, <1>2, <1>3, <1>4, <1>5, <1>6 DEF ConvInv

\* A tool's result asks for a response unless one is under way,
LEMMA AskForResponseKeeps ==
    ASSUME ConvTypeOK, ConvInv, NEW t \in {Peer, Helper}, AskForResponse(t)
    PROVE  ConvTypeOK' /\ ConvInv'
<1>1. ConvTypeOK'
  BY DEF ConvTypeOK, Spots, Messages, AskForResponse, lifeVars, Now, Speakers
<1>2. LifeInv'
  BY DEF ConvInv, LifeInv, AskForResponse, lifeVars, Now, Brain, Helper
<1>3. ServerInv'
  BY DEF ConvInv, AskForResponse, lifeVars, Now, ServerInv, Calm
<1>4. FlagInv'
  BY DEF ConvInv, AskForResponse, lifeVars, Now, FlagInv, Calm
<1>5. WarnInv'
  BY DEF ConvInv, AskForResponse, lifeVars, Now, WarnInv, Calm
<1>6. GreetInv'
  BY DEF ConvInv, AskForResponse, lifeVars, Now, GreetInv, Calm, Injecting, Greeting
<1> QED BY <1>1, <1>2, <1>3, <1>4, <1>5, <1>6 DEF ConvInv

\* which then is deferred to the end of that one.
LEMMA DeferResponseKeeps ==
    ASSUME ConvTypeOK, ConvInv, NEW t \in {Peer, Helper}, DeferResponse(t)
    PROVE  ConvTypeOK' /\ ConvInv'
<1>1. ConvTypeOK'
  BY DEF ConvTypeOK, Spots, Marks, Deeds, DeferResponse, With, lifeVars, Now, Speakers
<1>2. LifeInv'
  BY DEF ConvInv, LifeInv, DeferResponse, lifeVars, Now, Brain, Helper
<1>3. ServerInv'
  BY DEF ConvInv, DeferResponse, With, lifeVars, Now, ServerInv, Calm
<1>4. FlagInv'
  BY DEF ConvInv, DeferResponse, With, lifeVars, Now, FlagInv, Calm
<1>5. WarnInv'
  BY DEF ConvTypeOK, ConvInv, DeferResponse, With, lifeVars, Now, WarnInv, Calm, Speakers
<1>6. GreetInv'
  BY DEF ConvInv, DeferResponse, With, lifeVars, Now, GreetInv, Calm, Injecting, Greeting
<1> QED BY <1>1, <1>2, <1>3, <1>4, <1>5, <1>6 DEF ConvInv

\* Before the first session ...
LEMMA ConvInitInv == ConvInit => ConvTypeOK /\ ConvInv
<1> SUFFICES ASSUME ConvInit PROVE ConvTypeOK /\ ConvInv
  OBVIOUS
<1>1. ConvTypeOK
  BY DEF ConvInit, ConvTypeOK, Spots
<1>2. LifeInv /\ ServerInv /\ FlagInv /\ WarnInv /\ GreetInv
  BY DEF ConvInit, LifeInv, ServerInv, FlagInv, WarnInv, GreetInv, Speakers
<1> QED BY <1>1, <1>2 DEF ConvInv

\* ... and through every step of the three tasks and the server.
LEMMA ConvStepInv ==
    ASSUME ConvTypeOK, ConvInv, [ConvNext]_convVars
    PROVE  ConvTypeOK' /\ ConvInv'
<1>1. CASE UNCHANGED convVars
  BY <1>1 DEF convVars, ConvTypeOK, ConvInv, LifeInv, ServerInv, FlagInv, WarnInv, GreetInv,
    Calm
<1>2. CASE ConvNext
  BY <1>2, OpenSessionKeeps, CloseSessionKeeps, JoinPeerKeeps, HearKeeps, HandleFlagsKeeps,
    HandleUpdatedKeeps, HandleSpeechKeeps, HandleDoneKeeps, HandleFlushedKeeps,
    HandleAudioStoppedKeeps, HandleCallKeeps, EnterActiveKeeps, InjectArrivalKeeps,
    GreetKeeps, TransmitKeeps, AskForResponseKeeps, DeferResponseKeeps DEF ConvNext
<1> QED BY <1>1, <1>2

\* The types and the invariant hold in every reachable state of the conversation.
THEOREM ConvInvariance == ConvSpec => [](ConvTypeOK /\ ConvInv)
<1>1. ConvInit => ConvTypeOK /\ ConvInv
  BY ConvInitInv
<1>2. ConvTypeOK /\ ConvInv /\ [ConvNext]_convVars => ConvTypeOK' /\ ConvInv'
  BY ConvStepInv
<1> QED BY <1>1, <1>2, PTL DEF ConvSpec

\* The warning of the session's end is answered: as long as no event was missed it is
\* spoken, or somebody will ask for it, or its end is being handled.
THEOREM AlwaysWarningAnswered == ConvSpec => []WarningAnswered
<1>1. ConvInv => WarningAnswered
  BY DEF ConvInv, WarnInv, Calm, WarningAnswered
<1> QED BY ConvInvariance, <1>1, PTL

\* An active session of which no event was missed has been greeted, or somebody is on
\* the way to ask for it.
THEOREM AlwaysGreetingRequested == ConvSpec => []GreetingRequested
<1>1. ConvInv => GreetingRequested
  BY DEF ConvInv, GreetInv, Injecting, Greeting, Calm, GreetingRequested
<1> QED BY ConvInvariance, <1>1, PTL

\* With every event handled, a response is deferred only while response.done is still to
\* come, unless that was handled between the test and the deferral.
THEOREM AlwaysDeferredIsAwaited == ConvSpec => []DeferredIsAwaited
<1>1. ConvInv => DeferredIsAwaited
  BY DEF ConvInv, FlagInv, Calm, DeferredIsAwaited
<1> QED BY ConvInvariance, <1>1, PTL

-----------------------------------------------------------------------------
(* The function calls *)

\* The places of a call's answers that are not a skill's.
Told(c) == {i \in 1..Len(answers[c]) : answers[c][i] # Script}

PlainTypes ==
    /\ online \subseteq {"online"} /\ lastId \in Calls \union {NoId}
    /\ function \in [Calls -> Functions] /\ callStage \in [Calls -> CallStages]
    /\ read \in [Senders -> Calls \union {NoId}]
    /\ skills \in Nat
    /\ answers \in [Calls -> Seq(Senders)]
    /\ met \subseteq Calls /\ lost \subseteq Calls

LookupTypes == lookups \in Seq(Calls) /\ Len(lookups) <= LookupsLen

\* Each kind of call has its own way through the stages, and an id in its hand
\* just where it attaches one.
PathInv ==
    \A c \in Calls :
      /\ callStage[c] \in {"output", "clearing"} => KeepsId(c)
      /\ callStage[c] = "clearing" => function[c] = "search"
      /\ callStage[c] \in {"event", "attach"} => ~KeepsId(c)
      /\ callStage[c] \in {"busy", "queued", "fetching"} => function[c] = "lookup"
      /\ callStage[c] = "working" => function[c] # "lookup"
      /\ callStage[c] \in {"refused", "refusing"} => function[c] \in {"lookup", "quiet", "switch"}
      /\ callStage[c] \in {"attach", "refusing"} => read[c] \in Calls

\* What waits for the worker is queued, once.
LookupInv ==
    /\ \A i \in 1..Len(lookups) : callStage[lookups[i]] = "queued"
    /\ \A i, j \in 1..Len(lookups) : i # j => lookups[i] # lookups[j]

\* A call that has met nobody is alone, and one that outlives its session is lost.
AloneInv ==
    /\ \A c \in UnderWay \ met : UnderWay = {c} /\ read[Script] = NoId
    /\ online = {} => UnderWay \subseteq lost

\* Whoever could take another's id has met it: the last id is that of the call
\* that came last.
IdInv ==
    /\ \A c \in Calls \ met, d \in UnderWay : lastId = c => d = c
    /\ \A d \in Calls : read[d] # NoId /\ read[d] # d => read[d] \in met

\* A call that has met nobody has its own id until it has answered.
OwnInv ==
    \A c \in Calls \ met :
      /\ callStage[c] \in {"parsed", "refused", "working", "event"} => lastId = c
      /\ callStage[c] \in {"attach", "refusing"} => read[c] = c

\* Who has got through its answer has answered.
ResultInv ==
    \A c \in Calls \ lost :
        callStage[c] \in {"clearing", "over"} /\ (KeepsId(c) \/ c \notin met) => OwnResult(c)

\* ... once, or twice for a refused lookup, and nobody else has.
ToldOf(c) ==
    /\ \A i \in Told(c) : answers[c][i] = c
    /\ callStage[c] \notin {"busy", "clearing", "over"} => Told(c) = {}
    /\ callStage[c] = "busy" => \A i, j \in Told(c) : i = j
    /\ \A i, j \in Told(c) : i # j => function[c] = "lookup" /\ Told(c) = {i, j}
ToldInv == \A c \in Calls \ met : ToldOf(c)

CallsInv == PathInv /\ LookupInv /\ AloneInv /\ IdInv /\ OwnInv /\ ResultInv /\ ToldInv

\* The calls that may have let a skill run.
Worked == {c \in Calls : callStage[c] \in {"output", "clearing", "event", "attach", "over"}}
SkillsInv == skills <= Cardinality(Worked)

\* An answer is added to those under its id and to no others.
LEMMA AnswerAdded ==
    ASSUME PlainTypes, NEW id \in Calls, NEW author \in Senders, Answered(id, author)
    PROVE  /\ answers' \in [Calls -> Seq(Senders)]
           /\ \A c \in Calls \ {id} : answers'[c] = answers[c]
           /\ online = {} => answers' = answers
           /\ online # {} => answers'[id] = Append(answers[id], author)
<1>1. CASE online # {}
  <2>1. answers' = [answers EXCEPT ![id] = Append(answers[id], author)]
    BY <1>1 DEF Answered
  <2>2. answers[id] \in Seq(Senders) /\ Append(answers[id], author) \in Seq(Senders)
    BY DEF PlainTypes
  <2> QED BY <1>1, <2>1, <2>2 DEF PlainTypes
<1>2. CASE online = {}
  BY <1>2 DEF Answered, PlainTypes
<1> QED BY <1>1, <1>2

\* A call goes on: the others stay, and it is under way until it is over.
LEMMA Moves ==
    ASSUME PlainTypes, NEW c \in Calls, NEW s \in CallStages \ {"away"}, CallGoes(c, s),
           callStage[c] \notin {"away", "over"}
    PROVE  /\ callStage' \in [Calls -> CallStages] /\ callStage'[c] = s
           /\ \A d \in Calls \ {c} : callStage'[d] = callStage[d]
           /\ UnderWay' = IF s = "over" THEN UnderWay \ {c} ELSE UnderWay
  BY DEF PlainTypes, CallGoes, UnderWay

\* Appending.
LEMMA AppendFacts ==
    ASSUME NEW s \in Seq(Senders), NEW x \in Senders
    PROVE  /\ Append(s, x) \in Seq(Senders) /\ Len(Append(s, x)) = Len(s) + 1
           /\ \A i \in 1..Len(s) : Append(s, x)[i] = s[i]
           /\ Append(s, x)[Len(s) + 1] = x
  OBVIOUS

\* An own result is not taken back, and a call that answers has its own.
LEMMA AnswerKept ==
    ASSUME PlainTypes, PlainTypes', NEW id \in Calls, NEW author \in Senders, Answered(id, author)
    PROVE  /\ \A c \in Calls : OwnResult(c) => OwnResult(c)'
           /\ online # {} /\ author = id => OwnResult(id)'
<1>1. ASSUME NEW c \in Calls, OwnResult(c) PROVE OwnResult(c)'
  <2>1. CASE answers'[c] = answers[c]
    BY <1>1, <2>1 DEF OwnResult, Range
  <2>2. CASE answers'[c] = Append(answers[c], author)
    <3>1. answers[c] \in Seq(Senders)
      BY DEF PlainTypes
    <3> QED BY <1>1, <2>2 DEF OwnResult, Range
  <2> QED BY <2>1, <2>2, AnswerAdded
<1>2. ASSUME online # {}, author = id PROVE OwnResult(id)'
  <2>1. answers[id] \in Seq(Senders) /\ answers'[id] = Append(answers[id], id)
    BY <1>2, AnswerAdded DEF PlainTypes
  <2> QED BY <1>2, <2>1, AppendFacts DEF OwnResult, Range
<1> QED BY <1>1, <1>2

\* What is told under other ids stays, and a skill tells nothing.
LEMMA ToldAfter ==
    ASSUME PlainTypes, NEW id \in Calls, NEW author \in Senders, Answered(id, author)
    PROVE  /\ \A c \in Calls : c # id \/ author = Script =>
                 Told(c)' = Told(c) /\ \A i \in Told(c) : answers'[c][i] = answers[c][i]
           /\ \E k : /\ (Told(id)' \subseteq Told(id) \union {k} /\ answers'[id][k] = author)
                          \/ Told(id)' = Told(id)
                    /\ \A i \in Told(id) : answers'[id][i] = answers[id][i]
<1>1. ASSUME NEW c \in Calls, answers'[c] = answers[c]
      PROVE  Told(c)' = Told(c) /\ \A i \in Told(c) : answers'[c][i] = answers[c][i]
  BY <1>1 DEF Told
<1>2. ASSUME answers'[id] = Append(answers[id], author)
      PROVE  /\ \A i \in Told(id) : answers'[id][i] = answers[id][i]
             /\ author = Script => Told(id)' = Told(id)
             /\ Told(id)' \subseteq Told(id) \union {Len(answers[id]) + 1}
             /\ answers'[id][Len(answers[id]) + 1] = author
  <2>1. answers[id] \in Seq(Senders) /\ Len(answers[id]) \in Nat
    BY DEF PlainTypes
  <2> QED BY <1>2, <2>1, AppendFacts DEF Told
<1>3. answers'[id] = answers[id] \/ answers'[id] = Append(answers[id], author)
  BY AnswerAdded
<1> QED BY <1>1, <1>2, <1>3, AnswerAdded

\* A new call leaves its id behind; whoever is under way has met it.
LEMMA ArriveKeeps ==
    ASSUME PlainTypes, LookupTypes, CallsInv, NEW c \in Calls, NEW f \in Functions, Arrive(c, f)
    PROVE  PlainTypes' /\ LookupTypes' /\ CallsInv'
<1>0. LookupTypes'
  BY CallsAssumption DEF LookupTypes, Arrive
<1>1. PlainTypes'
  BY DEF PlainTypes, CallGoes, CallStages, UnderWay, Arrive, AmongOthers
<1>2. PathInv'
  BY DEF CallsInv, CallGoes, PathInv, KeepsId, Arrive
<1>3. LookupInv'
  BY DEF CallsInv, CallGoes, LookupInv, Arrive
<1>4. AloneInv'
  <2>1. callStage[c] = "away" /\ callStage' = [callStage EXCEPT ![c] = "parsed"] /\ online # {}
        /\ UNCHANGED <<online, read, lost>>
    BY DEF Arrive, CallGoes
  <2>2. UnderWay' = UnderWay \union {c} /\ c \notin UnderWay
    BY <2>1 DEF PlainTypes, UnderWay
  <2>3. CASE UnderWay # {} \/ read[Script] # NoId
    <3>1. met' = met \union UnderWay \union {c}
      BY <2>3 DEF Arrive, AmongOthers
    <3> QED BY <2>1, <2>2, <3>1 DEF AloneInv
  <2>4. CASE UnderWay = {} /\ read[Script] = NoId
    BY <2>1, <2>2, <2>4 DEF AloneInv
  <2> QED BY <2>3, <2>4
<1>5. IdInv'
  BY DEF CallsInv, CallGoes, IdInv, UnderWay, Arrive, AmongOthers
<1>6. OwnInv'
  BY DEF CallGoes, OwnInv, UnderWay, Arrive, AmongOthers
<1>7. ResultInv'
  BY DEF CallsInv, CallGoes, ResultInv, KeepsId, OwnResult, Arrive, AmongOthers
<1>8. ToldInv'
  BY DEF CallsInv, CallGoes, ToldInv, ToldOf, Told, Arrive, AmongOthers
<1> QED BY <1>0, <1>1, <1>2, <1>3, <1>4, <1>5, <1>6, <1>7, <1>8 DEF CallsInv

\* A call that is dropped is lost.
LEMMA DropCallKeeps ==
    ASSUME PlainTypes, LookupTypes, CallsInv, NEW c \in Calls, DropCall(c)
    PROVE  PlainTypes' /\ LookupTypes' /\ CallsInv'
<1>0. LookupTypes'
  BY CallsAssumption DEF LookupTypes, DropCall
<1>1. PlainTypes'
  BY DEF PlainTypes, CallGoes, CallStages, DropCall
<1>2. PathInv'
  BY DEF CallsInv, CallGoes, PathInv, KeepsId, DropCall
<1>3. LookupInv'
  BY DEF CallsInv, CallGoes, LookupInv, DropCall
<1>4. AloneInv'
  BY DEF CallsInv, CallGoes, AloneInv, UnderWay, DropCall
<1>5. IdInv'
  BY DEF CallsInv, CallGoes, IdInv, UnderWay, DropCall
<1>6. OwnInv'
  BY DEF CallsInv, CallGoes, OwnInv, DropCall
<1>7. ResultInv'
  BY DEF CallsInv, CallGoes, ResultInv, KeepsId, OwnResult, DropCall
<1>8. ToldInv'
  BY DEF CallsInv, CallGoes, ToldInv, ToldOf, Told, DropCall
<1> QED BY <1>0, <1>1, <1>2, <1>3, <1>4, <1>5, <1>6, <1>7, <1>8 DEF CallsInv

\* One that is refused still has its own id to read.
LEMMA RefuseCallKeeps ==
    ASSUME PlainTypes, LookupTypes, CallsInv, NEW c \in Calls, RefuseCall(c)
    PROVE  PlainTypes' /\ LookupTypes' /\ CallsInv'
<1>0. LookupTypes'
  BY CallsAssumption DEF LookupTypes, RefuseCall
<1>1. PlainTypes'
  BY DEF PlainTypes, CallGoes, CallStages, RefuseCall
<1>2. PathInv'
  BY DEF CallsInv, CallGoes, PathInv, KeepsId, RefuseCall
<1>3. LookupInv'
  BY DEF CallsInv, CallGoes, LookupInv, RefuseCall
<1>4. AloneInv'
  BY DEF CallsInv, CallGoes, AloneInv, UnderWay, RefuseCall
<1>5. IdInv'
  BY DEF CallsInv, CallGoes, IdInv, UnderWay, RefuseCall
<1>6. OwnInv'
  BY DEF CallsInv, CallGoes, OwnInv, RefuseCall
<1>7. ResultInv'
  BY DEF CallsInv, CallGoes, ResultInv, KeepsId, OwnResult, RefuseCall
<1>8. ToldInv'
  BY DEF CallsInv, CallGoes, ToldInv, ToldOf, Told, RefuseCall
<1> QED BY <1>0, <1>1, <1>2, <1>3, <1>4, <1>5, <1>6, <1>7, <1>8 DEF CallsInv

\* So has one whose task is made.
LEMMA StartTaskKeeps ==
    ASSUME PlainTypes, LookupTypes, CallsInv, NEW c \in Calls, StartTask(c)
    PROVE  PlainTypes' /\ LookupTypes' /\ CallsInv'
<1>0. LookupTypes'
  BY CallsAssumption DEF LookupTypes, StartTask
<1>1. PlainTypes'
  BY DEF PlainTypes, CallGoes, CallStages, StartTask
<1>2. PathInv'
  BY DEF CallsInv, CallGoes, PathInv, KeepsId, StartTask
<1>3. LookupInv'
  BY DEF CallsInv, CallGoes, LookupInv, StartTask
<1>4. AloneInv'
  BY DEF CallsInv, CallGoes, AloneInv, UnderWay, StartTask
<1>5. IdInv'
  BY DEF CallsInv, CallGoes, IdInv, UnderWay, StartTask
<1>6. OwnInv'
  BY DEF CallsInv, CallGoes, OwnInv, StartTask
<1>7. ResultInv'
  BY DEF CallsInv, CallGoes, ResultInv, KeepsId, OwnResult, StartTask
<1>8. ToldInv'
  BY DEF CallsInv, CallGoes, ToldInv, ToldOf, Told, StartTask
<1> QED BY <1>0, <1>1, <1>2, <1>3, <1>4, <1>5, <1>6, <1>7, <1>8 DEF CallsInv

\* A lookup waits in the queue, once, or is told at once that the queue is full.
LEMMA QueueLookupKeeps ==
    ASSUME PlainTypes, LookupTypes, CallsInv, NEW c \in Calls, QueueLookup(c)
    PROVE  PlainTypes' /\ LookupTypes' /\ CallsInv'
<1>0. LookupTypes'
  BY CallsAssumption DEF LookupTypes, QueueLookup
<1>1. PlainTypes'
  BY CallsAssumption DEF CallsInv, PlainTypes, Senders, CallGoes, Functions, CallStages,
    KeepsId, UnderWay, QueueLookup
<1>2. PathInv'
  BY DEF CallsInv, PlainTypes, CallGoes, PathInv, KeepsId, QueueLookup
<1>3. LookupInv'
  <2>1. callStage[c] = "parsed" /\ \A i \in 1..Len(lookups) : lookups[i] # c
    BY DEF QueueLookup, CallsInv, LookupInv
  <2>2. CASE Len(lookups) < LookupsLen
    <3>1. lookups' = Append(lookups, c) /\ CallGoes(c, "queued")
      BY <2>2 DEF QueueLookup
    <3>2. /\ \A i \in 1..Len(lookups) : lookups'[i] = lookups[i]
          /\ lookups'[Len(lookups) + 1] = c /\ Len(lookups') = Len(lookups) + 1
          /\ Len(lookups) \in Nat
      BY <3>1 DEF LookupTypes
    <3>3. callStage'[c] = "queued" /\ \A d \in Calls \ {c} : callStage'[d] = callStage[d]
      BY <2>1, <3>1, Moves DEF CallStages
    <3>4. \A i \in 1..Len(lookups) : lookups[i] \in Calls
      BY DEF LookupTypes
    <3> QED BY <2>1, <3>2, <3>3, <3>4 DEF CallsInv, LookupInv
  <2>3. CASE ~(Len(lookups) < LookupsLen)
    <3>1. UNCHANGED lookups /\ CallGoes(c, "busy")
      BY <2>3 DEF QueueLookup
    <3>2. \A d \in Calls \ {c} : callStage'[d] = callStage[d]
      BY <2>1, <3>1, Moves DEF CallStages
    <3> QED BY <2>1, <3>1, <3>2 DEF CallsInv, LookupInv, LookupTypes
  <2> QED BY <2>2, <2>3
<1>4. AloneInv'
  BY CallsAssumption DEF CallsInv, PlainTypes, Senders, CallGoes, AloneInv, UnderWay,
    LookupTypes, LookupInv, QueueLookup
<1>5. IdInv'
  <2>1. PICK s \in {"queued", "busy"} : CallGoes(c, s)
    BY DEF QueueLookup
  <2>2. callStage[c] = "parsed" /\ UNCHANGED <<lastId, read, met>>
    BY DEF QueueLookup
  <2>3. UnderWay' = UnderWay
    BY <2>1, <2>2, Moves DEF CallStages
  <2> QED BY <2>2, <2>3 DEF CallsInv, IdInv
<1>6. OwnInv'
  BY DEF CallsInv, PlainTypes, CallGoes, OwnInv, QueueLookup
<1>7. ResultInv'
  BY DEF CallsInv, PlainTypes, CallGoes, ResultInv, PathInv, KeepsId, OwnResult, QueueLookup
<1>8. ToldInv'
  <2>1. PICK s \in {"queued", "busy"} : CallGoes(c, s)
    BY DEF QueueLookup
  <2>2. callStage[c] = "parsed" /\ UNCHANGED <<function, answers, met>>
    BY DEF QueueLookup
  <2>3. \A d \in Calls : Told(d)' = Told(d)
    BY <2>2 DEF Told
  <2>4. \A d \in Calls \ {c} : callStage'[d] = callStage[d]
    BY <2>1, <2>2, Moves DEF CallStages
  <2>5. c \notin met => Told(c) = {}
    BY <2>2 DEF CallsInv, ToldInv, ToldOf
  <2> QED BY <2>2, <2>3, <2>4 DEF CallsInv, ToldInv, ToldOf
<1> QED BY <1>0, <1>1, <1>2, <1>3, <1>4, <1>5, <1>6, <1>7, <1>8 DEF CallsInv

\* The worker takes the first lookup; the others keep their order.
LEMMA TakeLookupKeeps ==
    ASSUME PlainTypes, LookupTypes, CallsInv, TakeLookup
    PROVE  PlainTypes' /\ LookupTypes' /\ CallsInv'
<1>0. LookupTypes'
  BY CallsAssumption DEF LookupTypes, TakeLookup
<1>1. PlainTypes'
  BY CallsAssumption DEF CallsInv, PlainTypes, Senders, CallGoes, Functions, CallStages,
    KeepsId, UnderWay, TakeLookup
<1>2. PathInv'
  <2> DEFINE c == Head(lookups)
  <2>1. /\ c \in Calls /\ callStage[c] = "queued" /\ CallGoes(c, "fetching")
        /\ UNCHANGED <<online, lastId, function, read, met, lost>>
    BY DEF TakeLookup, LookupTypes, CallsInv, LookupInv
  <2> HIDE DEF c
  <2>2. /\ callStage'[c] = "fetching" /\ \A d \in Calls \ {c} : callStage'[d] = callStage[d]
        /\ UnderWay' = UnderWay
    BY <2>1, Moves DEF CallStages
  <2> QED BY <2>1, <2>2 DEF CallsInv, PathInv, KeepsId
<1>3. LookupInv'
  BY DEF CallsInv, CallGoes, LookupInv, TakeLookup
<1>4. AloneInv'
  <2> DEFINE c == Head(lookups)
  <2>1. /\ c \in Calls /\ callStage[c] = "queued" /\ CallGoes(c, "fetching")
        /\ UNCHANGED <<online, lastId, function, read, met, lost>>
    BY DEF TakeLookup, LookupTypes, CallsInv, LookupInv
  <2> HIDE DEF c
  <2>2. /\ callStage'[c] = "fetching" /\ \A d \in Calls \ {c} : callStage'[d] = callStage[d]
        /\ UnderWay' = UnderWay
    BY <2>1, Moves DEF CallStages
  <2> QED BY <2>1, <2>2 DEF CallsInv, AloneInv
<1>5. IdInv'
  BY CallsAssumption DEF CallsInv, PlainTypes, Senders, CallGoes, IdInv, UnderWay,
    AloneInv, LookupTypes, LookupInv, TakeLookup
<1>6. OwnInv'
  BY DEF CallsInv, CallGoes, OwnInv, TakeLookup
<1>7. ResultInv'
  BY DEF CallsInv, CallGoes, ResultInv, KeepsId, OwnResult, TakeLookup
<1>8. ToldInv'
  BY CallsAssumption DEF CallsInv, PlainTypes, Senders, CallGoes, ToldInv, ToldOf, OwnInv,
    AloneInv, LookupTypes, LookupInv, Told, TakeLookup
<1> QED BY <1>0, <1>1, <1>2, <1>3, <1>4, <1>5, <1>6, <1>7, <1>8 DEF CallsInv

\* Work ends with an answer under the id that was kept or under the last id.
LEMMA WorkDoneKeeps ==
    ASSUME PlainTypes, LookupTypes, CallsInv, NEW c \in Calls, WorkDone(c)
    PROVE  PlainTypes' /\ LookupTypes' /\ CallsInv'
<1>0. LookupTypes'
  BY CallsAssumption DEF LookupTypes, WorkDone
<1>1. PlainTypes'
  <2>1. PICK s \in {"output", "event", "over"} : CallGoes(c, s)
    BY DEF WorkDone, KeepsId
  <2>2. callStage' \in [Calls -> CallStages]
    BY <2>1, Moves DEF WorkDone, CallStages
  <2>3. skills' \in Nat /\ lost' \subseteq Calls
    BY DEF WorkDone, PlainTypes
  <2> QED BY <2>2, <2>3 DEF WorkDone, PlainTypes
<1>2. PathInv'
  BY DEF CallsInv, PlainTypes, CallGoes, PathInv, KeepsId, WorkDone
<1>3. LookupInv'
  BY DEF CallsInv, PlainTypes, CallGoes, LookupTypes, LookupInv, PathInv, WorkDone
<1>4. AloneInv'
  <2>1. PICK s \in {"output", "event", "over"} : CallGoes(c, s)
    BY DEF WorkDone, KeepsId
  <2>2. /\ callStage[c] \notin {"away", "over"}
        /\ UNCHANGED <<online, read, met>> /\ lost \subseteq lost'
    BY DEF WorkDone
  <2>3. UnderWay' \subseteq UnderWay
    BY <2>1, <2>2, Moves DEF CallStages
  <2> QED BY <2>2, <2>3 DEF CallsInv, AloneInv
<1>5. IdInv'
  <2>1. PICK s \in {"output", "event", "over"} : CallGoes(c, s)
    BY DEF WorkDone, KeepsId
  <2>2. callStage[c] \notin {"away", "over"} /\ UNCHANGED <<lastId, read, met>>
    BY DEF WorkDone
  <2>3. UnderWay' \subseteq UnderWay
    BY <2>1, <2>2, Moves DEF CallStages
  <2> QED BY <2>2, <2>3 DEF CallsInv, IdInv
<1>6. OwnInv'
  BY DEF CallsInv, PlainTypes, CallGoes, OwnInv, PathInv, KeepsId, WorkDone
<1>7. ResultInv'
  BY DEF CallsInv, PlainTypes, CallGoes, ResultInv, PathInv, KeepsId, OwnResult, WorkDone
<1>8. ToldInv'
  BY CallsAssumption DEF CallsInv, PlainTypes, Senders, CallGoes, ToldInv, ToldOf,
    OwnInv, AloneInv, IdInv, UnderWay, PathInv, KeepsId, LookupTypes, LookupInv, Told,
    WorkDone
<1> QED BY <1>0, <1>1, <1>2, <1>3, <1>4, <1>5, <1>6, <1>7, <1>8 DEF CallsInv

\* An answer under the call's own id reaches that call; only a refused lookup has
\* answered before.
LEMMA GiveOutputKeeps ==
    ASSUME PlainTypes, LookupTypes, CallsInv, NEW c \in Calls, GiveOutput(c)
    PROVE  PlainTypes' /\ LookupTypes' /\ CallsInv'
<1>0. LookupTypes'
  BY CallsAssumption DEF LookupTypes, GiveOutput
<1>1. PlainTypes'
  BY AnswerAdded DEF PlainTypes, Senders, CallGoes, CallStages, GiveOutput
<1>2. PathInv'
  BY DEF CallsInv, CallGoes, PathInv, KeepsId, GiveOutput
<1>3. LookupInv'
  <2>1. callStage[c] \in {"output", "busy"} /\ lookups' = lookups
    BY DEF GiveOutput
  <2>2. \A d \in Calls \ {c} : callStage'[d] = callStage[d]
    BY DEF GiveOutput, CallGoes, PlainTypes
  <2> QED BY <2>1, <2>2 DEF CallsInv, LookupInv, LookupTypes
<1>4. AloneInv'
  BY DEF CallsInv, CallGoes, AloneInv, UnderWay, GiveOutput
<1>5. IdInv'
  BY DEF CallsInv, CallGoes, IdInv, UnderWay, GiveOutput
<1>6. OwnInv'
  BY DEF CallsInv, CallGoes, OwnInv, GiveOutput
<1>7. ResultInv'
  BY <1>1, CallsAssumption, AnswerAdded, AppendFacts DEF CallsInv, PlainTypes, Senders,
    CallGoes, ResultInv, OwnInv, AloneInv, UnderWay, PathInv, KeepsId, LookupTypes,
    LookupInv, OwnResult, Range, GiveOutput
<1>8. ToldInv'
  <2>1. /\ callStage[c] \in {"output", "busy"} /\ Answered(c, c)
        /\ UNCHANGED <<function, met>>
    BY DEF GiveOutput
  <2>2. PICK s \in {"clearing", "over"} : CallGoes(c, s)
    BY DEF GiveOutput
  <2>3. callStage'[c] = s /\ \A d \in Calls \ {c} : callStage'[d] = callStage[d]
    BY <2>1, <2>2, Moves DEF CallStages
  <2>4. ASSUME NEW d \in Calls \ met, d # c PROVE ToldOf(d)'
    <3>1. Told(d)' = Told(d) /\ \A i \in Told(d) : answers'[d][i] = answers[d][i]
      BY <2>1, <2>4, ToldAfter DEF Senders
    <3> QED BY <2>1, <2>3, <3>1 DEF CallsInv, ToldInv, ToldOf
  <2>5. ASSUME c \notin met PROVE ToldOf(c)'
    <3>1. PICK k : /\ \/ Told(c)' \subseteq Told(c) \union {k} /\ answers'[c][k] = c
                      \/ Told(c)' = Told(c)
                   /\ \A i \in Told(c) : answers'[c][i] = answers[c][i]
      BY <2>1, ToldAfter, CallsAssumption DEF Senders
    <3>2. /\ \A i \in Told(c) : answers[c][i] = c
          /\ Told(c) = {} \/ (function[c] = "lookup" /\ \A i, j \in Told(c) : i = j)
      BY <2>1, <2>5 DEF CallsInv, ToldInv, ToldOf, PathInv
    <3> QED BY <2>1, <2>3, <3>1, <3>2 DEF ToldOf
  <2> QED BY <2>1, <2>4, <2>5 DEF ToldInv
<1> QED BY <1>0, <1>1, <1>2, <1>3, <1>4, <1>5, <1>6, <1>7, <1>8 DEF CallsInv

\* A search takes the last id away from calls it has met.
LEMMA ClearAfterSearchKeeps ==
    ASSUME PlainTypes, LookupTypes, CallsInv, NEW c \in Calls, ClearAfterSearch(c)
    PROVE  PlainTypes' /\ LookupTypes' /\ CallsInv'
<1>0. LookupTypes'
  BY CallsAssumption DEF LookupTypes, ClearAfterSearch
<1>1. PlainTypes'
  BY DEF PlainTypes, CallGoes, CallStages, ClearAfterSearch
<1>2. PathInv'
  BY DEF CallsInv, CallGoes, PathInv, KeepsId, ClearAfterSearch
<1>3. LookupInv'
  BY DEF CallsInv, CallGoes, LookupInv, ClearAfterSearch
<1>4. AloneInv'
  BY DEF CallsInv, CallGoes, AloneInv, UnderWay, ClearAfterSearch
<1>5. IdInv'
  BY CallsAssumption DEF CallsInv, IdInv, ClearAfterSearch
<1>6. OwnInv'
  BY DEF CallsInv, CallGoes, OwnInv, UnderWay, AloneInv, ClearAfterSearch
<1>7. ResultInv'
  BY DEF CallsInv, CallGoes, ResultInv, KeepsId, OwnResult, ClearAfterSearch
<1>8. ToldInv'
  BY DEF CallsInv, CallGoes, ToldInv, ToldOf, Told, ClearAfterSearch
<1> QED BY <1>0, <1>1, <1>2, <1>3, <1>4, <1>5, <1>6, <1>7, <1>8 DEF CallsInv

\* The last id that a call reads is its own if it was alone.
LEMMA ReadIdKeeps ==
    ASSUME PlainTypes, LookupTypes, CallsInv, NEW c \in Calls, ReadId(c)
    PROVE  PlainTypes' /\ LookupTypes' /\ CallsInv'
<1>0. LookupTypes'
  BY CallsAssumption DEF LookupTypes, ReadId
<1>1. PlainTypes'
  <2>1. PICK s \in {"refusing", "attach", "busy", "over"} : CallGoes(c, s)
    BY DEF ReadId, AfterEvent
  <2>2. callStage' \in [Calls -> CallStages]
    BY <2>1, Moves DEF ReadId, CallStages
  <2>3. read' = read \/ (read' = [read EXCEPT ![c] = lastId] /\ lastId \in Calls)
    BY DEF ReadId, PlainTypes
  <2>4. read' \in [Senders -> Calls \union {NoId}]
    BY <2>3 DEF PlainTypes
  <2> QED BY <2>2, <2>4 DEF ReadId, PlainTypes
<1>2. PathInv'
  BY DEF CallsInv, PlainTypes, Senders, CallGoes, PathInv, KeepsId, ReadId, AfterEvent
<1>3. LookupInv'
  BY DEF CallsInv, PlainTypes, CallGoes, LookupTypes, LookupInv, PathInv, ReadId
<1>4. AloneInv'
  <2>1. PICK s \in {"refusing", "attach", "busy", "over"} : CallGoes(c, s)
    BY DEF ReadId, AfterEvent
  <2>2. callStage[c] \notin {"away", "over"} /\ UNCHANGED <<online, lastId, met, lost>>
    BY DEF ReadId
  <2>3. UnderWay' \subseteq UnderWay /\ c \in UnderWay
    BY <2>1, <2>2, Moves DEF CallStages, UnderWay
  <2>4. read' = read \/ (read' = [read EXCEPT ![c] = lastId] /\ lastId \in Calls)
    BY DEF ReadId, PlainTypes
  <2>5. read'[Script] = read[Script]
    BY <2>4, CallsAssumption DEF PlainTypes, Senders
  <2> QED BY <2>2, <2>3, <2>5 DEF CallsInv, AloneInv
<1>5. IdInv'
  <2>1. PICK s \in {"refusing", "attach", "busy", "over"} : CallGoes(c, s)
    BY DEF ReadId, AfterEvent
  <2>2. callStage[c] \notin {"away", "over"} /\ UNCHANGED <<online, lastId, met, lost>>
    BY DEF ReadId
  <2>3. UnderWay' \subseteq UnderWay /\ c \in UnderWay
    BY <2>1, <2>2, Moves DEF CallStages, UnderWay
  <2>4. read' = read \/ (read' = [read EXCEPT ![c] = lastId] /\ lastId \in Calls)
    BY DEF ReadId, PlainTypes
  <2>5. \A d \in Calls : read'[d] = read[d] \/ (d = c /\ read'[d] = lastId /\ lastId \in Calls)
    BY <2>4 DEF PlainTypes, Senders
  <2>6. lastId \in Calls /\ lastId # c => lastId \in met
    BY <2>3 DEF CallsInv, IdInv
  <2> QED BY <2>2, <2>3, <2>5 DEF CallsInv, IdInv
<1>6. OwnInv'
  BY CallsAssumption DEF CallsInv, PlainTypes, Senders, CallGoes, OwnInv, IdInv,
    UnderWay, AloneInv, PathInv, KeepsId, LookupTypes, LookupInv, ReadId, AfterEvent
<1>7. ResultInv'
  BY <1>1, CallsAssumption DEF CallsInv, PlainTypes, Senders, CallGoes, ResultInv, OwnInv,
    AloneInv, UnderWay, PathInv, KeepsId, LookupTypes, LookupInv, OwnResult, Range, ReadId,
    AfterEvent
<1>8. ToldInv'
  <2>1. PICK s \in {"refusing", "attach", "busy", "over"} : CallGoes(c, s)
    BY DEF ReadId, AfterEvent
  <2>2. callStage[c] \in {"event", "refused"} /\ UNCHANGED <<function, answers, met>>
    BY DEF ReadId
  <2>3. \A d \in Calls : Told(d)' = Told(d)
    BY <2>2 DEF Told
  <2>4. \A d \in Calls \ {c} : callStage'[d] = callStage[d]
    BY <2>1, <2>2, Moves DEF CallStages
  <2>5. c \notin met => Told(c) = {}
    BY <2>2 DEF CallsInv, ToldInv, ToldOf
  <2> QED BY <2>2, <2>3, <2>4 DEF CallsInv, ToldInv, ToldOf
<1> QED BY <1>0, <1>1, <1>2, <1>3, <1>4, <1>5, <1>6, <1>7, <1>8 DEF CallsInv

\* What it attaches that id to is its own answer; calls it has met may get it instead.
LEMMA AttachIdKeeps ==
    ASSUME PlainTypes, LookupTypes, CallsInv, NEW c \in Calls, AttachId(c)
    PROVE  PlainTypes' /\ LookupTypes' /\ CallsInv'
<1>0. LookupTypes'
  BY CallsAssumption DEF LookupTypes, AttachId
<1>1. PlainTypes'
  <2>1. read[c] \in Calls /\ Answered(read[c], c)
    BY DEF AttachId, CallsInv, PathInv
  <2>2. answers' \in [Calls -> Seq(Senders)]
    BY <2>1, AnswerAdded DEF Senders
  <2>3. PICK s \in {"busy", "over"} : CallGoes(c, s)
    BY DEF AttachId, AfterEvent
  <2>4. callStage' \in [Calls -> CallStages]
    BY <2>3, Moves DEF AttachId, CallStages
  <2> QED BY <2>2, <2>4 DEF AttachId, PlainTypes, Senders
<1>2. PathInv'
  BY DEF CallsInv, PlainTypes, Senders, CallGoes, PathInv, KeepsId, AttachId, AfterEvent
<1>3. LookupInv'
  BY CallsAssumption, AnswerAdded, AppendFacts DEF CallsInv, PlainTypes, Senders,
    CallGoes, LookupTypes, LookupInv, PathInv, AttachId, AfterEvent
<1>4. AloneInv'
  BY DEF CallsInv, CallGoes, AloneInv, UnderWay, AttachId
<1>5. IdInv'
  BY CallsAssumption DEF CallsInv, IdInv, AttachId
<1>6. OwnInv'
  <2>1. callStage[c] \in {"attach", "refusing"} /\ UNCHANGED met
    BY DEF AttachId
  <2>2. PICK s \in {"busy", "over"} : CallGoes(c, s)
    BY DEF AttachId, AfterEvent
  <2>3. callStage'[c] = s /\ \A d \in Calls \ {c} : callStage'[d] = callStage[d]
    BY <2>1, <2>2, Moves DEF CallStages
  <2>4. c \in UnderWay
    BY <2>1 DEF UnderWay
  <2>5. \A d \in Calls \ ({c} \union met) : d \notin UnderWay
    BY <2>4 DEF CallsInv, AloneInv
  <2> QED BY <2>1, <2>3, <2>5 DEF OwnInv, UnderWay
<1>7. ResultInv'
  <2>1. /\ callStage[c] \in {"attach", "refusing"} /\ read[c] \in Calls /\ Answered(read[c], c)
        /\ UNCHANGED <<online, function, met, lost>>
    BY DEF AttachId, CallsInv, PathInv
  <2>2. \A d \in Calls : OwnResult(d) => OwnResult(d)'
    BY <2>1, <1>1, AnswerKept DEF Senders
  <2>3. PICK s \in {"busy", "over"} : CallGoes(c, s) /\ (s = "over" => function[c] # "lookup")
    BY DEF AttachId, AfterEvent
  <2>4. callStage'[c] = s /\ \A d \in Calls \ {c} : callStage'[d] = callStage[d]
    BY <2>1, <2>3, Moves DEF CallStages
  <2>5. s = "over" => ~KeepsId(c)
    BY <2>1, <2>3 DEF CallsInv, PathInv, KeepsId
  <2>6. c \notin met \union lost => OwnResult(c)'
    <3> SUFFICES ASSUME c \notin met, c \notin lost PROVE OwnResult(c)'
      OBVIOUS
    <3>1. read[c] = c /\ online # {}
      BY <2>1 DEF CallsInv, OwnInv, AloneInv, UnderWay
    <3> QED BY <2>1, <3>1, <1>1, AnswerKept DEF Senders
  <2> QED BY <2>1, <2>2, <2>4, <2>5, <2>6 DEF CallsInv, ResultInv, KeepsId
<1>8. ToldInv'
  <2>1. /\ callStage[c] \in {"attach", "refusing"} /\ read[c] \in Calls /\ Answered(read[c], c)
        /\ UNCHANGED <<function, met>>
    BY DEF AttachId, CallsInv, PathInv
  <2>2. PICK s \in {"busy", "over"} : CallGoes(c, s) /\ (s = "busy" <=> function[c] = "lookup")
    BY DEF AttachId, AfterEvent
  <2>3. callStage'[c] = s /\ \A d \in Calls \ {c} : callStage'[d] = callStage[d]
    BY <2>1, <2>2, Moves DEF CallStages
  <2>4. \A d \in Calls \ (met \union {c}) : read[c] # d
    BY <2>1, CallsAssumption DEF CallsInv, IdInv
  <2>5. ASSUME NEW d \in Calls \ met, d # c PROVE ToldOf(d)'
    <3>1. Told(d)' = Told(d) /\ \A i \in Told(d) : answers'[d][i] = answers[d][i]
      BY <2>1, <2>4, <2>5, ToldAfter DEF Senders
    <3> QED BY <2>1, <2>3, <3>1 DEF CallsInv, ToldInv, ToldOf
  <2>6. ASSUME c \notin met PROVE ToldOf(c)'
    <3>1. read[c] = c /\ Told(c) = {}
      BY <2>1, <2>6 DEF CallsInv, OwnInv, ToldInv, ToldOf
    <3>2. PICK k : Told(c)' \subseteq {k} /\ \A i \in Told(c)' : answers'[c][i] = c
      BY <2>1, <3>1, ToldAfter, CallsAssumption DEF Senders
    <3> QED BY <2>1, <2>2, <2>3, <3>2 DEF ToldOf
  <2> QED BY <2>1, <2>5, <2>6 DEF ToldInv
<1> QED BY <1>0, <1>1, <1>2, <1>3, <1>4, <1>5, <1>6, <1>7, <1>8 DEF CallsInv

\* A skill that speaks has met all who are under way.
LEMMA SkillReadsIdKeeps ==
    ASSUME PlainTypes, LookupTypes, CallsInv, SkillReadsId
    PROVE  PlainTypes' /\ LookupTypes' /\ CallsInv'
<1>0. LookupTypes'
  BY CallsAssumption DEF LookupTypes, SkillReadsId
<1>1. PlainTypes'
  BY DEF PlainTypes, UnderWay, SkillReadsId
<1>2. PathInv'
  BY CallsAssumption DEF CallsInv, PlainTypes, Senders, CallGoes, PathInv, KeepsId,
    Functions, OwnInv, SkillReadsId
<1>3. LookupInv'
  BY DEF CallsInv, CallGoes, LookupInv, SkillReadsId
<1>4. AloneInv'
  BY DEF CallsInv, CallGoes, AloneInv, UnderWay, SkillReadsId
<1>5. IdInv'
  BY CallsAssumption DEF CallsInv, PlainTypes, Senders, CallGoes, IdInv, UnderWay,
    AloneInv, LookupTypes, LookupInv, SkillReadsId
<1>6. OwnInv'
  BY DEF CallsInv, CallGoes, OwnInv, UnderWay, AloneInv, SkillReadsId
<1>7. ResultInv'
  BY DEF CallsInv, CallGoes, ResultInv, KeepsId, OwnResult, SkillReadsId
<1>8. ToldInv'
  BY DEF CallsInv, CallGoes, ToldInv, ToldOf, Told, SkillReadsId
<1> QED BY <1>0, <1>1, <1>2, <1>3, <1>4, <1>5, <1>6, <1>7, <1>8 DEF CallsInv

\* Its words are added to a call's answers, and are not counted.
LEMMA SkillSpeaksKeeps ==
    ASSUME PlainTypes, LookupTypes, CallsInv, SkillSpeaks
    PROVE  PlainTypes' /\ LookupTypes' /\ CallsInv'
<1>0. LookupTypes'
  BY CallsAssumption DEF LookupTypes, SkillSpeaks
<1>1. PlainTypes'
  BY AnswerAdded DEF PlainTypes, Senders, CallGoes, CallStages, SkillSpeaks
<1>2. PathInv'
  BY CallsAssumption DEF CallsInv, PathInv, KeepsId, SkillSpeaks
<1>3. LookupInv'
  BY DEF CallsInv, CallGoes, LookupInv, SkillSpeaks
<1>4. AloneInv'
  BY DEF CallsInv, CallGoes, AloneInv, UnderWay, SkillSpeaks
<1>5. IdInv'
  BY CallsAssumption DEF CallsInv, IdInv, SkillSpeaks
<1>6. OwnInv'
  BY CallsAssumption, AnswerAdded, AppendFacts DEF CallsInv, PlainTypes, Senders,
    CallGoes, OwnInv, IdInv, UnderWay, AloneInv, PathInv, KeepsId, LookupTypes,
    LookupInv, SkillSpeaks
<1>7. ResultInv'
  <2>1. /\ read[Script] \in Calls /\ Answered(read[Script], Script)
        /\ UNCHANGED <<function, callStage, met, lost>>
    BY DEF SkillSpeaks, PlainTypes, Senders
  <2>2. \A d \in Calls : OwnResult(d) => OwnResult(d)'
    BY <2>1, <1>1, AnswerKept DEF Senders
  <2> QED BY <2>1, <2>2 DEF CallsInv, ResultInv, KeepsId
<1>8. ToldInv'
  <2>1. /\ read[Script] \in Calls /\ Answered(read[Script], Script)
        /\ UNCHANGED <<function, callStage, met>>
    BY DEF SkillSpeaks, PlainTypes, Senders
  <2>2. \A d \in Calls : Told(d)' = Told(d) /\ \A i \in Told(d) : answers'[d][i] = answers[d][i]
    BY <2>1, ToldAfter DEF Senders
  <2> QED BY <2>1, <2>2 DEF CallsInv, ToldInv, ToldOf
<1> QED BY <1>0, <1>1, <1>2, <1>3, <1>4, <1>5, <1>6, <1>7, <1>8 DEF CallsInv

\* Who is under way when a session ends is lost.
LEMMA HangUpKeeps ==
    ASSUME PlainTypes, LookupTypes, CallsInv, HangUp
    PROVE  PlainTypes' /\ LookupTypes' /\ CallsInv'
<1>0. LookupTypes'
  BY CallsAssumption DEF LookupTypes, HangUp
<1>1. PlainTypes'
  BY DEF PlainTypes, UnderWay, HangUp
<1>2. PathInv'
  BY DEF CallsInv, CallGoes, PathInv, KeepsId, HangUp
<1>3. LookupInv'
  BY DEF CallsInv, CallGoes, LookupInv, HangUp
<1>4. AloneInv'
  BY DEF CallsInv, CallGoes, AloneInv, UnderWay, HangUp
<1>5. IdInv'
  BY DEF CallsInv, CallGoes, IdInv, UnderWay, HangUp
<1>6. OwnInv'
  BY DEF CallsInv, CallGoes, OwnInv, HangUp
<1>7. ResultInv'
  BY DEF CallsInv, CallGoes, ResultInv, KeepsId, OwnResult, HangUp
<1>8. ToldInv'
  BY DEF CallsInv, CallGoes, ToldInv, ToldOf, Told, HangUp
<1> QED BY <1>0, <1>1, <1>2, <1>3, <1>4, <1>5, <1>6, <1>7, <1>8 DEF CallsInv

\* A new session begins with nobody in process_json.
LEMMA CallAgainKeeps ==
    ASSUME PlainTypes, LookupTypes, CallsInv, CallAgain
    PROVE  PlainTypes' /\ LookupTypes' /\ CallsInv'
<1>0. LookupTypes'
  BY CallsAssumption DEF LookupTypes, CallAgain
<1>1. PlainTypes'
  BY DEF PlainTypes, UnderWay, CallAgain
<1>2. PathInv'
  BY DEF CallsInv, CallGoes, PathInv, KeepsId, CallAgain
<1>3. LookupInv'
  BY DEF CallsInv, CallGoes, LookupInv, CallAgain
<1>4. AloneInv'
  BY DEF CallsInv, CallGoes, AloneInv, UnderWay, CallAgain
<1>5. IdInv'
  BY DEF CallsInv, CallGoes, IdInv, UnderWay, CallAgain
<1>6. OwnInv'
  BY DEF CallsInv, CallGoes, OwnInv, CallAgain
<1>7. ResultInv'
  BY DEF CallsInv, CallGoes, ResultInv, KeepsId, OwnResult, CallAgain
<1>8. ToldInv'
  BY DEF CallsInv, CallGoes, ToldInv, ToldOf, Told, CallAgain
<1> QED BY <1>0, <1>1, <1>2, <1>3, <1>4, <1>5, <1>6, <1>7, <1>8 DEF CallsInv

-----------------------------------------------------------------------------
(* How many skills may be waiting *)

\* A call that has done its work stays among those that have.
LEMMA WorkedGrows ==
    ASSUME PlainTypes, LookupTypes, CallsInv, [CallsNext]_functionVars
    PROVE  Worked \subseteq Worked'
<1> USE DEF PlainTypes, Worked, CallGoes
<1>1. ASSUME NEW c \in Calls, NEW s \in CallStages, CallGoes(c, s),
             callStage[c] \in {"output", "clearing", "event", "attach", "over"}
                 => s \in {"output", "clearing", "event", "attach", "over"}
      PROVE  Worked \subseteq Worked'
  BY <1>1
<1>2. ASSUME NEW c \in Calls, NEW f \in Functions, Arrive(c, f) PROVE Worked \subseteq Worked'
  BY <1>2, <1>1 DEF Arrive, CallStages
<1>3. ASSUME NEW c \in Calls, DropCall(c) \/ RefuseCall(c) \/ StartTask(c)
      PROVE  Worked \subseteq Worked'
  BY <1>3 DEF DropCall, RefuseCall, StartTask
<1>4. ASSUME NEW c \in Calls, QueueLookup(c) PROVE Worked \subseteq Worked'
  BY <1>4 DEF QueueLookup
<1>5. ASSUME TakeLookup PROVE Worked \subseteq Worked'
  <2>1. callStage[Head(lookups)] = "queued" /\ Head(lookups) \in Calls
    BY <1>5 DEF TakeLookup, LookupTypes, CallsInv, LookupInv
  <2> QED BY <1>5, <2>1 DEF TakeLookup
<1>6. ASSUME NEW c \in Calls, WorkDone(c) PROVE Worked \subseteq Worked'
  BY <1>6 DEF WorkDone
<1>7. ASSUME NEW c \in Calls, GiveOutput(c) \/ ClearAfterSearch(c)
      PROVE  Worked \subseteq Worked'
  BY <1>7 DEF GiveOutput, ClearAfterSearch
<1>8. ASSUME NEW c \in Calls, ReadId(c) PROVE Worked \subseteq Worked'
  <2>1. callStage[c] = "event" => function[c] # "lookup"
    BY DEF CallsInv, PathInv, KeepsId
  <2> QED BY <1>8, <2>1 DEF ReadId, AfterEvent
<1>9. ASSUME NEW c \in Calls, AttachId(c) PROVE Worked \subseteq Worked'
  <2>1. callStage[c] = "attach" => function[c] # "lookup"
    BY DEF CallsInv, PathInv, KeepsId
  <2> QED BY <1>9, <2>1 DEF AttachId, AfterEvent
<1>10. ASSUME SkillReadsId \/ SkillSpeaks \/ HangUp \/ CallAgain \/ UNCHANGED functionVars
       PROVE  Worked \subseteq Worked'
  BY <1>10 DEF SkillReadsId, SkillSpeaks, HangUp, CallAgain, functionVars
<1> QED BY <1>2, <1>3, <1>4, <1>5, <1>6, <1>7, <1>8, <1>9, <1>10 DEF CallsNext

\* The calls that have are finitely many.
LEMMA WorkedIsFinite ==
    IsFiniteSet(Worked) /\ Cardinality(Worked) \in Nat /\ Cardinality(Worked) <= Cardinality(Calls)
<1>1. Worked \subseteq Calls /\ IsFiniteSet(Calls)
  BY CallsAssumption DEF Worked
<1> QED BY <1>1, FS_Subset, FS_CardinalityType

\* A skill is let run by a call that does its work, once.
LEMMA SkillsKeep ==
    ASSUME PlainTypes, LookupTypes, CallsInv, PlainTypes', SkillsInv, [CallsNext]_functionVars
    PROVE  SkillsInv'
<1>1. IsFiniteSet(Worked) /\ Cardinality(Worked) \in Nat
  BY WorkedIsFinite
<1>2. IsFiniteSet(Worked)' /\ (Cardinality(Worked) \in Nat)'
  BY WorkedIsFinite, PTL
<1>3. Cardinality(Worked) <= Cardinality(Worked')
  BY <1>2, WorkedGrows, FS_Subset
<1>4. CASE skills' <= skills
  BY <1>1, <1>2, <1>3, <1>4 DEF SkillsInv, PlainTypes
<1>5. CASE ~(skills' <= skills)
  <2>1. PICK c \in Calls : WorkDone(c)
    BY <1>5 DEF CallsNext, PlainTypes, Arrive, DropCall, RefuseCall, StartTask, QueueLookup,
      TakeLookup, GiveOutput, ClearAfterSearch, ReadId, AttachId, SkillReadsId, SkillSpeaks,
      HangUp, CallAgain, functionVars
  <2>2. skills' = skills + 1
    BY <1>5, <2>1 DEF WorkDone, PlainTypes
  <2>3. c \in Worked' \ Worked
    BY <2>1 DEF WorkDone, CallGoes, Worked, PlainTypes
  <2>4. Worked \union {c} \subseteq Worked'
    BY <2>3, WorkedGrows
  <2>5. Cardinality(Worked \union {c}) = Cardinality(Worked) + 1 /\ IsFiniteSet(Worked \union {c})
    BY <1>1, <2>3, FS_AddElement
  <2>6. Cardinality(Worked) + 1 <= Cardinality(Worked')
    BY <1>2, <2>4, <2>5, FS_Subset
  <2> QED BY <1>1, <1>2, <2>2, <2>6 DEF SkillsInv, PlainTypes
<1> QED BY <1>4, <1>5

-----------------------------------------------------------------------------
\* Nobody has called at first.
LEMMA CallsInitInv == ASSUME CallsInit PROVE PlainTypes /\ LookupTypes /\ CallsInv /\ SkillsInv
<1>1. PlainTypes /\ LookupTypes
  BY CallsAssumption DEF CallsInit, PlainTypes, LookupTypes, Functions, CallStages
<1>2. PathInv /\ LookupInv /\ AloneInv /\ IdInv
  BY DEF CallsInit, PathInv, LookupInv, AloneInv, IdInv, UnderWay, Senders
<1>3. OwnInv /\ ResultInv
  BY DEF CallsInit, OwnInv, ResultInv
<1>4. ToldInv
  BY DEF CallsInit, ToldInv, ToldOf, Told
<1>5. SkillsInv
  BY WorkedIsFinite DEF CallsInit, SkillsInv
<1> QED BY <1>1, <1>2, <1>3, <1>4, <1>5 DEF CallsInv

\* Every step of a call, a skill or the session keeps the invariant.
LEMMA CallsStepInv ==
    ASSUME PlainTypes, LookupTypes, CallsInv, [CallsNext]_functionVars
    PROVE  PlainTypes' /\ LookupTypes' /\ CallsInv'
<1>1. CASE UNCHANGED functionVars
  BY <1>1 DEF functionVars, PlainTypes, LookupTypes, CallsInv, PathInv, LookupInv, AloneInv,
    IdInv, OwnInv, ResultInv, ToldInv, ToldOf, Told, UnderWay, KeepsId, OwnResult
<1>2. CASE CallsNext
  BY <1>2, ArriveKeeps, DropCallKeeps, RefuseCallKeeps, StartTaskKeeps, QueueLookupKeeps,
    TakeLookupKeeps, WorkDoneKeeps, GiveOutputKeeps, ClearAfterSearchKeeps, ReadIdKeeps,
    AttachIdKeeps, SkillReadsIdKeeps, SkillSpeaksKeeps, HangUpKeeps, CallAgainKeeps DEF
    CallsNext
<1> QED BY <1>1, <1>2

\* The types and the invariant hold in every reachable state.
THEOREM CallsInvariance == CallsSpec => [](PlainTypes /\ LookupTypes /\ CallsInv /\ SkillsInv)
<1>1. CallsInit => PlainTypes /\ LookupTypes /\ CallsInv /\ SkillsInv
  BY CallsInitInv
<1>2. PlainTypes /\ LookupTypes /\ CallsInv /\ SkillsInv /\ [CallsNext]_functionVars
        => PlainTypes' /\ LookupTypes' /\ CallsInv' /\ SkillsInv'
  BY CallsStepInv, SkillsKeep
<1> QED BY <1>1, <1>2, PTL DEF CallsSpec

\* Every variable has its type in every reachable state; skills are as many as calls
\* that may have let one run.
THEOREM CallsTypeCorrect == CallsSpec => []CallsTypeOK
<1>1. PlainTypes /\ LookupTypes /\ SkillsInv => CallsTypeOK
  <2> SUFFICES ASSUME PlainTypes, LookupTypes, SkillsInv PROVE CallsTypeOK
    OBVIOUS
  <2>1. Cardinality(Calls) \in Nat
    BY CallsAssumption, FS_CardinalityType
  <2>2. skills \in 0..Cardinality(Calls)
    BY <2>1, WorkedIsFinite DEF SkillsInv, PlainTypes
  <2> QED BY <2>2 DEF PlainTypes, LookupTypes, CallsTypeOK
<1> QED BY <1>1, CallsInvariance, PTL

\* Every call that was taken on gets its own result when its handler keeps its id, or
\* when it was alone; one that was alone gets no other call's.
THEOREM EveryCallSettled == CallsSpec => []CallsSettled
<1>1. CallsInv => CallsSettled
  <2> SUFFICES ASSUME CallsInv, NEW c \in Calls
               PROVE  /\ callStage[c] = "over" /\ c \notin lost /\ (KeepsId(c) \/ c \notin met)
                           => OwnResult(c)
                      /\ c \notin met => OnlyOwnResult(c)
    BY DEF CallsSettled
  <2>1. callStage[c] = "over" /\ c \notin lost /\ (KeepsId(c) \/ c \notin met) => OwnResult(c)
    BY DEF CallsInv, ResultInv
  <2>2. c \notin met => OnlyOwnResult(c)
    BY DEF CallsInv, ToldInv, ToldOf, Told, OnlyOwnResult
  <2> QED BY <2>1, <2>2
<1> QED BY <1>1, CallsInvariance, PTL

-----------------------------------------------------------------------------
(* The automation rules *)

-----------------------------------------------------------------------------
(* The inductive invariant. *)

QueueTyped == requests \in Seq(LuaJobs) /\ Len(requests) <= RequestsLen
PlainTyped ==
    /\ engine \in {"starting", "ready", "down"}
    /\ luaStep \in LuaSteps /\ luaJob \in LuaJobs
    /\ lastSave \in {"good", "missed"}
SetsTyped ==
    /\ rulesDb \subseteq Triggers /\ rulesFile \subseteq Triggers
    /\ owed \subseteq Requests
    /\ reported \subseteq Triggers /\ asked \subseteq Triggers

\* Only a ready engine has requests other than skills, and only it saves.
PhaseInv ==
    /\ engine = "starting" => luaStep = "boot"
    /\ luaStep = "boot" => engine = "starting" /\ rulesDb = {} /\ lastSave = "good"
    /\ engine # "ready" => luaStep \in {"boot", "idle", "run"} /\ luaJob = Skill
    /\ luaStep \in {"boot", "idle"} => luaJob = Skill
    /\ luaJob = Skill => luaStep \in {"boot", "idle", "run"}

\* What the change at hand has done to the table, and a good save to the file.
JobInv ==
    /\ luaStep \in {"save", "close"} => luaJob.op \in {"create", "delete"}
    /\ luaStep \in {"save", "close", "answer"} =>
         /\ luaJob.op = "create" => luaJob.trigger \in rulesDb
         /\ luaJob.op = "delete" => luaJob.trigger \notin rulesDb
    /\ luaStep = "answer" /\ lastSave = "good" =>
         /\ luaJob.op = "create" => luaJob.trigger \in rulesFile
         /\ luaJob.op = "delete" => luaJob.trigger \notin rulesFile

\* Unless the last save was missed or is being made, the file is as good as the
\* table: a restart may take its place.
FileInv == (lastSave = "good" /\ luaStep # "close")
             => reported \subseteq rulesFile /\ rulesFile \subseteq asked

RulesInv == PhaseInv /\ JobInv /\ FileInv /\ RulesKept

\* Ids are not shared: an answer to one request is not one to another.
Apart ==
    /\ \A i, j \in 1..Len(requests) :
         requests[i].id = requests[j].id => i = j \/ requests[i].id = Nothing
    /\ luaStep \notin {"boot", "idle"} =>
         \A i \in 1..Len(requests) : requests[i].id = luaJob.id => luaJob.id = Nothing
OnlySkills == engine # "ready" => \A i \in 1..Len(requests) : requests[i] = Skill
RequestsInv == Apart /\ OnlySkills /\ RequestAnswered

RuleInv == QueueTyped /\ PlainTyped /\ SetsTyped /\ RulesInv /\ RequestsInv

-----------------------------------------------------------------------------
(* Jobs and the queue. *)

\* A change is a job with the id of its request.
LEMMA JobFacts ==
    /\ \A r \in Requests, o \in {"create", "delete"}, t \in Triggers :
         /\ Change(r, o, t) \in LuaJobs /\ Change(r, o, t).id = r
    /\ \A r \in Requests : Query(r) \in LuaJobs /\ Query(r).id = r
    /\ Skill \in LuaJobs /\ Skill.id = Nothing /\ Skill.op = "skill"
    /\ \A j \in LuaJobs : /\ j.id \in Requests \union {Nothing}
                          /\ j.op \in {"create", "delete"} => j.trigger \in Triggers
                          /\ j.op = "skill" => j = Skill
                          /\ j.op \in {"create", "delete", "query", "skill"}
                          /\ j.id = Nothing => j = Skill
  BY RequestsAssumption, SMT DEF LuaJobs, Change, Query, Skill

\* A queue with a new job at its end.
LEMMA AppendJob ==
    ASSUME QueueTyped, NEW j \in LuaJobs, Len(requests) < RequestsLen, requests' = Append(requests, j)
    PROVE  /\ QueueTyped'
           /\ Len(requests') = Len(requests) + 1
           /\ \A i \in 1..Len(requests) : requests'[i] = requests[i]
           /\ requests'[Len(requests) + 1] = j
  BY RequestsAssumption, SMT DEF QueueTyped

\* A queue without its first job.
LEMMA TakeJob ==
    ASSUME QueueTyped, requests # <<>>, requests' = Tail(requests)
    PROVE  /\ QueueTyped'
           /\ Len(requests) \in Nat /\ Len(requests) > 0 /\ Len(requests') = Len(requests) - 1
           /\ Head(requests) = requests[1] /\ requests[1] \in LuaJobs
           /\ \A i \in 1..Len(requests') : requests'[i] = requests[i + 1]
  BY RequestsAssumption, SMT DEF QueueTyped

-----------------------------------------------------------------------------
(* Requests. *)

\* A new request is owed and waits in the queue.
LEMMA SendRuleRequests ==
    ASSUME RuleInv, NEW r \in Requests, NEW j \in LuaJobs, j.id = r, SendRule(r, j)
    PROVE  QueueTyped' /\ RequestsInv'
<1>1. /\ QueueTyped'
      /\ Len(requests) \in Nat
      /\ Len(requests') = Len(requests) + 1
      /\ \A i \in 1..Len(requests) : requests'[i] = requests[i]
      /\ requests'[Len(requests) + 1] = j
  BY AppendJob, SMT DEF RuleInv, SendRule, QueueTyped
<1>2. /\ engine' = "ready" /\ luaStep' = luaStep /\ luaJob' = luaJob
      /\ r \notin owed /\ owed' = owed \union {r}
      /\ r # Nothing
  BY RequestsAssumption, SMT DEF SendRule
<1>3. \A i \in 1..Len(requests) : requests[i].id # r
  BY <1>2, SMT DEF RuleInv, RequestsInv, RequestAnswered, InQueue
<1>4. luaStep \notin {"boot", "idle"} => luaJob.id # r
  BY <1>2, SMT DEF RuleInv, RequestsInv, RequestAnswered, OnHand
<1>5. Apart'
  BY <1>1, <1>2, <1>3, <1>4, SMT DEF RuleInv, RequestsInv, Apart
<1>6. InQueue' = InQueue \union {r}
  BY <1>1, SMT DEF InQueue
<1>7. OnHand' = OnHand
  BY <1>2, SMT DEF OnHand
<1>8. RequestAnswered'
  BY <1>2, <1>6, <1>7, SMT DEF RuleInv, RequestsInv, RequestAnswered
<1> QED BY <1>1, <1>2, <1>5, <1>8, SMT DEF RequestsInv, OnlySkills

\* Nobody waits for a skill.
LEMMA RunSkillRequests ==
    ASSUME RuleInv, RunSkill
    PROVE  QueueTyped' /\ RequestsInv'
<1>1. /\ QueueTyped'
      /\ Len(requests) \in Nat
      /\ Len(requests') = Len(requests) + 1
      /\ \A i \in 1..Len(requests) : requests'[i] = requests[i]
      /\ requests'[Len(requests) + 1] = Skill
  BY AppendJob, JobFacts, SMT DEF RuleInv, RunSkill, QueueTyped
<1>2. UNCHANGED <<engine, luaStep, luaJob, owed>> /\ Skill.id = Nothing
  BY JobFacts, SMT DEF RunSkill
<1>3. Apart'
  BY <1>1, <1>2, SMT DEF RuleInv, RequestsInv, Apart
<1>4. OnlySkills'
  BY <1>1, <1>2, SMT DEF RuleInv, RequestsInv, OnlySkills
<1>5. InQueue' = InQueue \union {Nothing}
  BY <1>1, <1>2, SMT DEF InQueue
<1>6. OnHand' = OnHand
  BY <1>2, SMT DEF OnHand
<1>7. RequestAnswered'
  BY <1>2, <1>5, <1>6, SMT DEF RuleInv, RequestsInv, RequestAnswered
<1> QED BY <1>1, <1>3, <1>4, <1>7, SMT DEF RequestsInv

\* The first request goes from the queue into the worker's hands.
LEMMA TakeRequests ==
    ASSUME RuleInv, TakeRequest
    PROVE  QueueTyped' /\ RequestsInv' /\ luaJob' \in LuaJobs /\ (engine # "ready" => luaJob' = Skill)
<1>1. /\ QueueTyped'
      /\ Len(requests) \in Nat /\ Len(requests) > 0 /\ Len(requests') = Len(requests) - 1
      /\ luaJob' = requests[1] /\ requests[1] \in LuaJobs
      /\ \A i \in 1..Len(requests') : requests'[i] = requests[i + 1]
  BY TakeJob, SMT DEF RuleInv, TakeRequest
<1>2. UNCHANGED <<engine, owed>> /\ luaStep = "idle" /\ luaStep' = "run"
  BY SMT DEF TakeRequest
<1>3. Apart'
  <2> DEFINE n == Len(requests)
  <2>1. \A i, j \in 1..n : requests[i].id = requests[j].id => i = j \/ requests[i].id = Nothing
    BY DEF RuleInv, RequestsInv, Apart
  <2>2. n \in Nat /\ n > 0 /\ Len(requests') = n - 1
    BY <1>1
  <2> HIDE DEF n
  <2>3. ASSUME NEW i \in 1..(n - 1), NEW j \in 1..(n - 1), requests'[i].id = requests'[j].id
        PROVE  i = j \/ requests'[i].id = Nothing
    <3>1. requests'[i] = requests[i + 1] /\ requests'[j] = requests[j + 1]
      BY <1>1, <2>2
    <3>2. i + 1 \in 1..n /\ j + 1 \in 1..n /\ (i + 1 = j + 1 => i = j)
      BY <2>2, SMT
    <3> QED BY <2>1, <2>3, <3>1, <3>2
  <2>4. ASSUME NEW i \in 1..(n - 1), requests'[i].id = luaJob'.id
        PROVE  luaJob'.id = Nothing
    <3>1. requests'[i] = requests[i + 1] /\ luaJob' = requests[1]
      BY <1>1, <2>2
    <3>2. i + 1 \in 1..n /\ 1 \in 1..n /\ i + 1 # 1
      BY <2>2, SMT
    <3> QED BY <2>1, <2>4, <3>1, <3>2
  <2> QED BY <2>2, <2>3, <2>4 DEF Apart
<1>4. OnlySkills' /\ (engine # "ready" => luaJob' = Skill)
  BY <1>1, <1>2, SMT DEF RuleInv, RequestsInv, OnlySkills
<1>5. InQueue = InQueue' \union {luaJob'.id}
  <2>1. ASSUME NEW x, x \in InQueue
        PROVE  x \in InQueue' \union {luaJob'.id}
    <3>1. PICK i \in 1..Len(requests) : x = requests[i].id
      BY <2>1 DEF InQueue
    <3>2. CASE i = 1
      BY <1>1, <3>1, <3>2
    <3>3. CASE i # 1
      <4>1. i - 1 \in 1..Len(requests') /\ requests[(i - 1) + 1] = requests[i]
        BY <1>1, <3>3, SMT
      <4>2. requests'[i - 1] = requests[i]
        BY <1>1, <4>1
      <4> QED BY <3>1, <4>1, <4>2 DEF InQueue
    <3> QED BY <3>2, <3>3
  <2>2. \A x : x \in InQueue' \union {luaJob'.id} => x \in InQueue
    BY <1>1, SMT DEF InQueue
  <2> QED BY <2>1, <2>2
<1>6. OnHand = {} /\ OnHand' = {luaJob'.id}
  BY <1>2, SMT DEF OnHand
<1>7. RequestAnswered'
  BY <1>2, <1>5, <1>6, SMT DEF RuleInv, RequestsInv, RequestAnswered
<1> QED BY <1>1, <1>3, <1>4, <1>7, SMT DEF RequestsInv

\* An answer takes the request out of the worker's hands.
LEMMA AnswerRequests ==
    ASSUME RuleInv, luaStep \in {"answer", "fail"}, luaStep' = "idle",
           owed' = owed \ {luaJob.id}, UNCHANGED <<engine, requests>>
    PROVE  QueueTyped' /\ RequestsInv'
<1>1. QueueTyped' /\ OnlySkills' /\ InQueue' = InQueue
  BY SMT DEF RuleInv, QueueTyped, RequestsInv, OnlySkills, InQueue
<1>2. Apart'
  BY SMT DEF RuleInv, RequestsInv, Apart
<1>3. OnHand = {luaJob.id} /\ OnHand' = {}
  BY SMT DEF OnHand
<1>4. luaJob.id \in InQueue => luaJob.id = Nothing
  BY SMT DEF RuleInv, RequestsInv, Apart, InQueue
<1>5. RequestAnswered'
  BY <1>1, <1>3, <1>4, SMT DEF RuleInv, RequestsInv, RequestAnswered
<1> QED BY <1>1, <1>2, <1>5, SMT DEF RequestsInv

\* While the worker goes on with a request, or has none or a skill, nothing changes.
LEMMA OtherRequests ==
    ASSUME RuleInv, UNCHANGED <<requests, owed, luaJob>>,
           \/ luaStep \notin {"boot", "idle"} /\ luaStep' \notin {"boot", "idle"} /\ engine' = engine
           \/ luaJob = Skill /\ engine' = engine
           \/ luaStep = "boot" /\ luaStep' = "idle"
    PROVE  QueueTyped' /\ RequestsInv'
<1>1. QueueTyped' /\ InQueue' = InQueue
  BY SMT DEF RuleInv, QueueTyped, InQueue
<1>2. \/ OnHand' = OnHand
      \/ OnHand \subseteq {Nothing} /\ OnHand' \subseteq {Nothing}
  BY JobFacts, SMT DEF OnHand
<1>3. RequestAnswered'
  BY <1>1, <1>2, SMT DEF RuleInv, RequestsInv, RequestAnswered
<1>4. Apart'
  BY JobFacts, SMT DEF RuleInv, RequestsInv, Apart
<1>5. luaStep = "boot" => engine = "starting"
  BY SMT DEF RuleInv, RulesInv, PhaseInv
<1>6. OnlySkills'
  BY <1>5, SMT DEF RuleInv, RequestsInv, OnlySkills
<1> QED BY <1>1, <1>3, <1>4, <1>6, SMT DEF RequestsInv

\* After a restart nobody waits any more.
LEMMA RestartRequests ==
    ASSUME RestartEngine
    PROVE  QueueTyped' /\ RequestsInv'
<1>1. requests' = <<>> /\ owed' = {} /\ luaStep' = "boot"
  BY SMT DEF RestartEngine
<1>2. QueueTyped'
  BY <1>1, RequestsAssumption, SMT DEF QueueTyped
<1>3. Apart' /\ OnlySkills'
  BY <1>1, SMT DEF Apart, OnlySkills
<1>4. InQueue' = {} /\ OnHand' = {}
  BY <1>1, SMT DEF InQueue, OnHand
<1> QED BY <1>1, <1>2, <1>3, <1>4, SMT DEF RequestsInv, RequestAnswered

-----------------------------------------------------------------------------
(* Rules. *)

RuleFacts == PlainTyped /\ SetsTyped /\ RulesInv

\* A request or a skill that arrives changes no rule.
LEMMA ArrivalRules ==
    ASSUME RuleInv, \/ \E r \in Requests, j \in LuaJobs : SendRule(r, j)
                    \/ RunSkill
    PROVE  RuleFacts'
  BY SMT DEF RuleInv, RuleFacts, SendRule, RunSkill, historyVars, PlainTyped, SetsTyped, RulesInv,
             PhaseInv, JobInv, FileInv, RulesKept

\* The worker starts with the rules of the file, or with none.
LEMMA StartRules ==
    ASSUME RuleInv, StartFails \/ LoadRules \/ LoadNothing
    PROVE  RuleFacts'
<1>1. luaJob = Skill /\ Skill.op = "skill"
  BY JobFacts, SMT DEF RuleInv, RulesInv, PhaseInv, StartFails, LoadRules, LoadNothing
<1>2. CASE StartFails
  BY <1>1, <1>2, SMT DEF RuleInv, RuleFacts, StartFails, historyVars, PlainTyped, SetsTyped, RulesInv,
             PhaseInv, JobInv, FileInv, RulesKept, LuaSteps
<1>3. CASE LoadRules
  BY <1>1, <1>3, SMT DEF RuleInv, RuleFacts, LoadRules, historyVars, PlainTyped, SetsTyped, RulesInv,
             PhaseInv, JobInv, FileInv, RulesKept, LuaSteps
<1>4. CASE LoadNothing
  BY <1>1, <1>4, SMT DEF RuleInv, RuleFacts, LoadNothing, PlainTyped, SetsTyped, RulesInv,
             PhaseInv, JobInv, FileInv, RulesKept, LuaSteps
<1> QED BY <1>2, <1>3, <1>4

\* Taking a request out of the queue changes no rule yet.
LEMMA TakeRules ==
    ASSUME RuleInv, TakeRequest
    PROVE  RuleFacts'
<1>1. luaJob' \in LuaJobs /\ (engine # "ready" => luaJob' = Skill)
  BY TakeRequests
<1> QED
  BY <1>1, SMT DEF RuleInv, RuleFacts, TakeRequest, historyVars, PlainTyped, SetsTyped, RulesInv,
             PhaseInv, JobInv, FileInv, RulesKept, LuaSteps

\* A change of the table, which only a ready engine makes.
LEMMA ChangeRules ==
    ASSUME RuleInv, CreateRule \/ DeleteRule
    PROVE  RuleFacts'
<1>1. luaJob.op # "skill" /\ luaJob.trigger \in Triggers /\ luaJob # Skill
  BY JobFacts, SMT DEF RuleInv, PlainTyped, CreateRule, DeleteRule
<1>2. engine = "ready"
  BY <1>1, SMT DEF RuleInv, RulesInv, PhaseInv
<1>3. CASE CreateRule
  BY <1>1, <1>2, <1>3, SMT DEF RuleInv, RuleFacts, CreateRule, PlainTyped, SetsTyped, RulesInv,
             PhaseInv, JobInv, FileInv, RulesKept, LuaSteps
<1>4. CASE DeleteRule
  BY <1>1, <1>2, <1>4, SMT DEF RuleInv, RuleFacts, DeleteRule, PlainTyped, SetsTyped, RulesInv,
             PhaseInv, JobInv, FileInv, RulesKept, LuaSteps
<1> QED BY <1>3, <1>4

\* Steps that change no rule.
LEMMA IdleRules ==
    ASSUME RuleInv, OnlyAnswer \/ DeleteUnknown \/ SkillEnds \/ ScriptAborts \/ ErrorAnswered
    PROVE  RuleFacts'
<1>1. Skill \in LuaJobs /\ Skill.op = "skill" /\ (luaJob.op = "skill" => luaJob = Skill)
  BY JobFacts, SMT DEF RuleInv, PlainTyped
<1>2. CASE OnlyAnswer
  BY <1>1, <1>2, SMT DEF RuleInv, RuleFacts, OnlyAnswer, historyVars, PlainTyped, SetsTyped, RulesInv,
             PhaseInv, JobInv, FileInv, RulesKept, LuaSteps
<1>3. CASE DeleteUnknown
  BY <1>1, <1>3, SMT DEF RuleInv, RuleFacts, DeleteUnknown, historyVars, PlainTyped, SetsTyped, RulesInv,
             PhaseInv, JobInv, FileInv, RulesKept, LuaSteps
<1>4. CASE SkillEnds
  BY <1>1, <1>4, SMT DEF RuleInv, RuleFacts, SkillEnds, historyVars, PlainTyped, SetsTyped, RulesInv,
             PhaseInv, JobInv, FileInv, RulesKept, LuaSteps
<1>5. CASE ScriptAborts
  BY <1>1, <1>5, SMT DEF RuleInv, RuleFacts, ScriptAborts, historyVars, PlainTyped, SetsTyped, RulesInv,
             PhaseInv, JobInv, FileInv, RulesKept, LuaSteps
<1>6. CASE ErrorAnswered
  <2>1. SetsTyped'
    BY <1>6, SMT DEF RuleInv, SetsTyped, ErrorAnswered, historyVars
  <2> QED
    BY <1>1, <1>6, <2>1, SMT DEF RuleInv, RuleFacts, ErrorAnswered, historyVars, PlainTyped, RulesInv,
             PhaseInv, JobInv, FileInv, RulesKept, LuaSteps
<1> QED BY <1>2, <1>3, <1>4, <1>5, <1>6

\* A save cuts the file, or makes it agree with the table.
LEMMA SaveRules ==
    ASSUME RuleInv, RuleSaveFails \/ RuleSaveSyncs \/ RuleSaveCloses
    PROVE  RuleFacts'
<1>1. engine = "ready"
  BY SMT DEF RuleInv, RulesInv, PhaseInv, RuleSaveFails, RuleSaveSyncs, RuleSaveCloses
<1>2. CASE RuleSaveFails
  BY <1>1, <1>2, SMT DEF RuleInv, RuleFacts, RuleSaveFails, historyVars, PlainTyped, SetsTyped, RulesInv,
             PhaseInv, JobInv, FileInv, RulesKept, LuaSteps
<1>3. CASE RuleSaveSyncs
  BY <1>1, <1>3, SMT DEF RuleInv, RuleFacts, RuleSaveSyncs, historyVars, PlainTyped, SetsTyped, RulesInv,
             PhaseInv, JobInv, FileInv, RulesKept, LuaSteps
<1>4. CASE RuleSaveCloses
  BY <1>1, <1>4, SMT DEF RuleInv, RuleFacts, RuleSaveCloses, historyVars, PlainTyped, SetsTyped, RulesInv,
             PhaseInv, JobInv, FileInv, RulesKept, LuaSteps
<1> QED BY <1>2, <1>3, <1>4

\* What is reported to the user is what table and file say.
LEMMA AnswerRules ==
    ASSUME RuleInv, LuaAnswers
    PROVE  RuleFacts'
<1>1. /\ Skill \in LuaJobs /\ Skill.op = "skill"
      /\ luaJob.op = "create" => luaJob.trigger \in Triggers
  BY JobFacts, SMT DEF RuleInv, PlainTyped
<1>2. SetsTyped'
  BY <1>1, SMT DEF RuleInv, SetsTyped, LuaAnswers
<1>3. engine = "ready"
  BY SMT DEF RuleInv, RulesInv, PhaseInv, LuaAnswers
<1>4. RulesKept'
  BY <1>3, SMT DEF RuleInv, RulesInv, JobInv, RulesKept, LuaAnswers
<1>5. FileInv'
  BY <1>3, SMT DEF RuleInv, RulesInv, JobInv, FileInv, LuaAnswers
<1>6. PlainTyped' /\ PhaseInv' /\ JobInv'
  BY <1>1, <1>3, SMT DEF RuleInv, PlainTyped, RulesInv, PhaseInv, JobInv, LuaAnswers, LuaSteps
<1> QED BY <1>2, <1>4, <1>5, <1>6 DEF RuleFacts, RulesInv

\* After a restart the table is empty and the file is what was left of it.
LEMMA RestartRules ==
    ASSUME RuleInv, RestartEngine
    PROVE  RuleFacts'
<1>1. Skill \in LuaJobs /\ Skill.op = "skill"
  BY JobFacts
<1> QED
  BY <1>1, SMT DEF RuleInv, RuleFacts, RestartEngine, historyVars, PlainTyped, SetsTyped, RulesInv,
             PhaseInv, JobInv, FileInv, RulesKept, LuaSteps

-----------------------------------------------------------------------------
(* The theorems. *)

\* The invariant holds when the engine has not started ...
LEMMA RuleInitInv == RuleInit => RuleInv
<1> SUFFICES ASSUME RuleInit PROVE RuleInv
  OBVIOUS
<1>1. QueueTyped /\ Apart /\ OnlySkills
  BY RequestsAssumption, SMT DEF RuleInit, QueueTyped, Apart, OnlySkills
<1>2. InQueue = {} /\ OnHand = {}
  BY SMT DEF RuleInit, InQueue, OnHand
<1>3. RequestAnswered
  BY <1>2, SMT DEF RuleInit, RequestAnswered
<1>4. PlainTyped /\ SetsTyped /\ RulesInv
  BY JobFacts, SMT DEF RuleInit, PlainTyped, SetsTyped, RulesInv, PhaseInv, JobInv, FileInv,
             RulesKept, LuaSteps
<1> QED BY <1>1, <1>3, <1>4 DEF RuleInv, RequestsInv

\* ... through every step ...
LEMMA RuleNextInv == RuleInv /\ [RuleNext]_ruleVars => RuleInv'
<1> SUFFICES ASSUME RuleInv, [RuleNext]_ruleVars PROVE RuleInv'
  OBVIOUS
<1> USE DEF RuleInv, RuleFacts
<1>1. ASSUME NEW r \in Requests, NEW o \in {"create", "delete"}, NEW t \in Triggers, SendChange(r, o, t)
      PROVE  RuleInv'
  <2>1. Change(r, o, t) \in LuaJobs /\ Change(r, o, t).id = r
    BY JobFacts
  <2> QED BY <1>1, <2>1, SendRuleRequests, ArrivalRules DEF SendChange
<1>2. ASSUME NEW r \in Requests, SendQuery(r)
      PROVE  RuleInv'
  <2>1. Query(r) \in LuaJobs /\ Query(r).id = r
    BY JobFacts
  <2> QED BY <1>2, <2>1, SendRuleRequests, ArrivalRules DEF SendQuery
<1>3. CASE RunSkill
  BY <1>3, RunSkillRequests, ArrivalRules
<1>4. CASE StartFails \/ LoadRules \/ LoadNothing
  <2>1. UNCHANGED <<requests, owed, luaJob>> /\ luaStep = "boot" /\ luaStep' = "idle"
    BY <1>4 DEF StartFails, LoadRules, LoadNothing
  <2> QED BY <1>4, <2>1, OtherRequests, StartRules
<1>5. CASE TakeRequest
  BY <1>5, TakeRequests, TakeRules
<1>6. CASE CreateRule \/ DeleteRule
  <2>1. /\ UNCHANGED <<requests, owed, luaJob, engine>>
        /\ luaStep \notin {"boot", "idle"} /\ luaStep' \notin {"boot", "idle"}
    BY <1>6, SMT DEF CreateRule, DeleteRule
  <2> QED BY <1>6, <2>1, OtherRequests, ChangeRules
<1>7. CASE OnlyAnswer \/ DeleteUnknown \/ ScriptAborts
  <2>1. /\ UNCHANGED <<requests, owed, luaJob, engine>>
        /\ luaStep \notin {"boot", "idle"} /\ luaStep' \notin {"boot", "idle"}
    BY <1>7, SMT DEF OnlyAnswer, DeleteUnknown, ScriptAborts
  <2> QED BY <1>7, <2>1, OtherRequests, IdleRules
<1>8. CASE SkillEnds
  <2>1. UNCHANGED <<requests, owed, luaJob, engine>> /\ luaJob = Skill
    BY <1>8, JobFacts, SMT DEF SkillEnds, PlainTyped
  <2> QED BY <1>8, <2>1, OtherRequests, IdleRules
<1>9. CASE RuleSaveFails \/ RuleSaveSyncs \/ RuleSaveCloses
  <2>1. /\ UNCHANGED <<requests, owed, luaJob, engine>>
        /\ luaStep \notin {"boot", "idle"} /\ luaStep' \notin {"boot", "idle"}
    BY <1>9, SMT DEF RuleSaveFails, RuleSaveSyncs, RuleSaveCloses
  <2> QED BY <1>9, <2>1, OtherRequests, SaveRules
<1>10. CASE LuaAnswers
  <2>1. /\ luaStep \in {"answer", "fail"} /\ luaStep' = "idle"
        /\ owed' = owed \ {luaJob.id} /\ UNCHANGED <<engine, requests>>
    BY <1>10, SMT DEF LuaAnswers
  <2> QED BY <1>10, <2>1, AnswerRequests, AnswerRules
<1>11. CASE ErrorAnswered
  <2>1. /\ luaStep \in {"answer", "fail"} /\ luaStep' = "idle"
        /\ owed' = owed \ {luaJob.id} /\ UNCHANGED <<engine, requests>>
    BY <1>11, SMT DEF ErrorAnswered
  <2> QED BY <1>11, <2>1, AnswerRequests, IdleRules
<1>12. CASE RestartEngine
  BY <1>12, RestartRequests, RestartRules
<1>13. CASE UNCHANGED ruleVars
  BY <1>13, SMT DEF ruleVars, QueueTyped, PlainTyped, SetsTyped, RulesInv, PhaseInv, JobInv, FileInv,
             RulesKept, RequestsInv, Apart, OnlySkills, RequestAnswered, InQueue, OnHand
<1> QED
  BY <1>1, <1>2, <1>3, <1>4, <1>5, <1>6, <1>7, <1>8, <1>9, <1>10, <1>11, <1>12, <1>13 DEF RuleNext

\* ... and so in every reachable state.
LEMMA AlwaysRuleInv == RuleSpec => []RuleInv
  BY RuleInitInv, RuleNextInv, PTL DEF RuleSpec

\* Every variable of the engine keeps its type.
THEOREM RulesTypeCorrect == RuleSpec => []RuleTypeOK
<1>1. RuleInv => RuleTypeOK
  BY DEF RuleInv, QueueTyped, PlainTyped, SetsTyped, RuleTypeOK
<1> QED BY <1>1, AlwaysRuleInv, PTL

\* The active rules are the reported ones, over any number of restarts.
THEOREM ReportedRulesStay == RuleSpec => []RulesKept
<1>1. RuleInv => RulesKept
  BY DEF RuleInv, RulesInv
<1> QED BY <1>1, AlwaysRuleInv, PTL

\* Every request of the agent is in the queue, at work, or answered.
THEOREM NoRequestForgotten == RuleSpec => []RequestAnswered
<1>1. RuleInv => RequestAnswered
  BY DEF RuleInv, RequestsInv
<1> QED BY <1>1, AlwaysRuleInv, PTL
=============================================================================
