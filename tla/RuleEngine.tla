----------------------------- MODULE RuleEngine -----------------------------
(***************************************************************************)
(* ESP-Claw, the automation engine: lua_worker_task of esp_claw_init.c and *)
(* register_rule of data/init.lua.                                         *)
(*                                                                         *)
(* Handler tasks put requests into a queue; the worker runs them one by    *)
(* one in a Lua state.  The rules live in Lua's table rules_db and are     *)
(* written to rules.json as a whole after each change.  A script may be    *)
(* aborted where Lua allocates memory or counts instructions; then the     *)
(* worker, not Lua, answers the request.  Power may be lost at any step.   *)
(*                                                                         *)
(* A rule is its trigger: conditions and actions are carried along only.   *)
(* LittleFS commits a file on fsync and on close; the text is still in the *)
(* C library's buffer when fsync is called, so what fsync commits is the   *)
(* file that "w" has emptied, or the text cut short, and neither is        *)
(* readable as rules.                                                      *)
(***************************************************************************)
EXTENDS Naturals, Sequences

CONSTANTS Triggers,       \* triggers of rules
          Requests,       \* call ids of requests that may be under way
          Nothing,        \* the empty call id and trigger
          RequestsLen     \* depth of s_test_queue

ASSUME RequestsAssumption ==
    /\ RequestsLen \in Nat \ {0} /\ Nothing \notin Requests

VARIABLES
    engine,      \* "starting", "ready" once LUA_ENGINE_READY_BIT is set, or "down"
    requests,    \* s_test_queue
    luaStep,     \* where lua_worker_task is
    luaJob,      \* the request it works on
    rulesDb,     \* rules_db, the table in RAM
    rulesFile,   \* the rules that rules.json holds
    lastSave,    \* whether the last save was written
    owed,        \* history: the requests taken on and not answered
    reported,    \* history: rules whose creation was reported, less those deleted since
    asked        \* history: rules ever created, less those whose deletion was reported

ruleVars == <<engine, requests, luaStep, luaJob, rulesDb, rulesFile, lastSave, owed,
              reported, asked>>
historyVars == <<reported, asked>>

\* A query is a list of the rules or a trigger to execute, which is a stub; a
\* skill, a script of its own, carries no call id.
Change(r, op, t) == [id |-> r, op |-> op, trigger |-> t]
Query(r) == [id |-> r, op |-> "query", trigger |-> Nothing]
Skill == [id |-> Nothing, op |-> "skill", trigger |-> Nothing]
LuaJobs == [id : Requests, op : {"create", "delete"}, trigger : Triggers]
             \union {Query(r) : r \in Requests} \union {Skill}
LuaSteps == {"boot", "idle", "run", "save", "close", "answer", "fail"}

RuleInit ==
    /\ engine = "starting" /\ requests = <<>>
    /\ luaStep = "boot" /\ luaJob = Skill
    /\ rulesDb = {} /\ rulesFile = {} /\ lastSave = "good"
    /\ owed = {} /\ reported = {} /\ asked = {}

-----------------------------------------------------------------------------
(* The handler tasks. *)

\* automation_handler_task: with the engine offline or the queue full the task
\* answers by itself.
SendRule(r, job) ==
    /\ engine = "ready" /\ r \notin owed /\ Len(requests) < RequestsLen
    /\ requests' = Append(requests, job)
    /\ owed' = owed \union {r}
    /\ UNCHANGED <<engine, luaStep, luaJob, rulesDb, rulesFile, lastSave, historyVars>>

SendChange(r, op, t) == SendRule(r, Change(r, op, t))
SendQuery(r) == SendRule(r, Query(r))

\* esp_claw_run_skill does not ask whether the engine is ready; its caller
\* answers the call.
RunSkill ==
    /\ Len(requests) < RequestsLen
    /\ requests' = Append(requests, Skill)
    /\ UNCHANGED <<engine, luaStep, luaJob, rulesDb, rulesFile, lastSave, owed, historyVars>>

-----------------------------------------------------------------------------
(* Start-up of the worker. *)

\* No file system, a failing init.lua or one without register_rule.
StartFails ==
    /\ luaStep = "boot"
    /\ engine' = "down" /\ luaStep' = "idle"
    /\ UNCHANGED <<requests, luaJob, rulesDb, rulesFile, lastSave, owed, historyVars>>

LoadRules ==
    /\ luaStep = "boot"
    /\ engine' = "ready" /\ luaStep' = "idle"
    /\ rulesDb' = rulesFile
    /\ UNCHANGED <<requests, luaJob, rulesFile, lastSave, owed, historyVars>>

\* Without memory for the text the engine comes up with no rules, and the next
\* save replaces those of the file.
LoadNothing ==
    /\ luaStep = "boot"
    /\ engine' = "ready" /\ luaStep' = "idle"
    /\ reported' = {} /\ asked' = asked \union rulesFile
    /\ UNCHANGED <<requests, luaJob, rulesDb, rulesFile, lastSave, owed>>

-----------------------------------------------------------------------------
(* One request. *)

TakeRequest ==
    /\ luaStep = "idle" /\ requests # <<>>
    /\ luaJob' = Head(requests) /\ requests' = Tail(requests)
    /\ luaStep' = "run"
    /\ UNCHANGED <<engine, rulesDb, rulesFile, lastSave, owed, historyVars>>

CreateRule ==
    /\ luaStep = "run" /\ luaJob.op = "create"
    /\ rulesDb' = rulesDb \union {luaJob.trigger}
    /\ asked' = asked \union {luaJob.trigger}
    /\ luaStep' = "save"
    /\ UNCHANGED <<engine, requests, luaJob, rulesFile, lastSave, owed, reported>>

\* Mutant: the deletion is not saved.
DeleteInRam ==
    /\ luaStep = "run" /\ luaJob.op = "delete" /\ luaJob.trigger \in rulesDb
    /\ rulesDb' = rulesDb \ {luaJob.trigger}
    /\ reported' = reported \ {luaJob.trigger}
    /\ luaStep' = "answer"
    /\ UNCHANGED <<engine, requests, luaJob, rulesFile, lastSave, owed, asked>>

DeleteRule ==
    /\ luaStep = "run" /\ luaJob.op = "delete" /\ luaJob.trigger \in rulesDb
    /\ rulesDb' = rulesDb \ {luaJob.trigger}
    /\ reported' = reported \ {luaJob.trigger}
    /\ luaStep' = "save"
    /\ UNCHANGED <<engine, requests, luaJob, rulesFile, lastSave, owed, asked>>

OnlyAnswer ==
    /\ luaStep = "run" /\ luaJob.op = "query"
    /\ luaStep' = "answer"
    /\ UNCHANGED <<engine, requests, luaJob, rulesDb, rulesFile, lastSave, owed, historyVars>>

\* A skill drives the robot and is not answered here.
SkillEnds ==
    /\ luaStep = "run" /\ luaJob.op = "skill"
    /\ luaStep' = "idle"
    /\ UNCHANGED <<engine, requests, luaJob, rulesDb, rulesFile, lastSave, owed, historyVars>>

\* Nothing to delete.
DeleteUnknown ==
    /\ luaStep = "run" /\ luaJob.op = "delete" /\ luaJob.trigger \notin rulesDb
    /\ luaStep' = "fail"
    /\ UNCHANGED <<engine, requests, luaJob, rulesDb, rulesFile, lastSave, owed, historyVars>>

\* Lua is out of memory before it has changed a rule.
ScriptAborts ==
    /\ luaStep = "run" /\ luaJob.op # "skill"
    /\ luaStep' = "fail"
    /\ UNCHANGED <<engine, requests, luaJob, rulesDb, rulesFile, lastSave, owed, historyVars>>

-----------------------------------------------------------------------------
(* c_save_rules. *)

\* No memory for the text or no file: only logged, or Lua aborts the save.
RuleSaveFails ==
    /\ luaStep = "save"
    /\ lastSave' = "missed"
    /\ luaStep' \in {"answer", "fail"}
    /\ UNCHANGED <<engine, requests, luaJob, rulesDb, rulesFile, owed, historyVars>>

RuleSaveSyncs ==
    /\ luaStep = "save"
    /\ rulesFile' = {}
    /\ luaStep' = "close"
    /\ UNCHANGED <<engine, requests, luaJob, rulesDb, lastSave, owed, historyVars>>

\* fclose writes the buffer, unless the flash is full or fails.
RuleSaveCloses ==
    /\ luaStep = "close"
    /\ \/ rulesFile' = rulesDb /\ lastSave' = "good"
       \/ lastSave' = "missed" /\ UNCHANGED rulesFile
    /\ luaStep' = "answer"
    /\ UNCHANGED <<engine, requests, luaJob, rulesDb, owed, historyVars>>

-----------------------------------------------------------------------------
(* The answer. *)

\* c_send_webrtc_response: "created and saved" whether it was saved or not.
LuaAnswers ==
    /\ luaStep = "answer"
    /\ owed' = owed \ {luaJob.id}
    /\ reported' = IF luaJob.op = "create" THEN reported \union {luaJob.trigger} ELSE reported
    /\ asked' = IF luaJob.op = "delete" THEN asked \ {luaJob.trigger} ELSE asked
    /\ luaStep' = "idle" /\ luaJob' = Skill
    /\ UNCHANGED <<engine, requests, rulesDb, rulesFile, lastSave>>

\* Mutant: nobody answers.
ErrorUnanswered ==
    /\ luaStep = "fail"
    /\ luaStep' = "idle" /\ luaJob' = Skill
    /\ UNCHANGED <<engine, requests, rulesDb, rulesFile, lastSave, owed, historyVars>>

\* An error is answered: by Lua for an unknown rule, and by the worker, in C, for
\* a script that was aborted.
ErrorAnswered ==
    /\ luaStep = "fail"
    /\ owed' = owed \ {luaJob.id}
    /\ luaStep' = "idle" /\ luaJob' = Skill
    /\ UNCHANGED <<engine, requests, rulesDb, rulesFile, lastSave, historyVars>>

-----------------------------------------------------------------------------
\* What a save that was missed or cut has left is all that counts from then on.
RestartEngine ==
    /\ engine' = "starting" /\ requests' = <<>> /\ luaStep' = "boot"
    /\ luaJob' = Skill /\ rulesDb' = {} /\ lastSave' = "good" /\ owed' = {}
    /\ IF lastSave = "missed" \/ luaStep = "close"
       THEN reported' = reported \intersect rulesFile /\ asked' = asked \union rulesFile
       ELSE UNCHANGED historyVars
    /\ UNCHANGED rulesFile

RuleNext ==
    \/ \E r \in Requests, op \in {"create", "delete"}, t \in Triggers : SendChange(r, op, t)
    \/ \E r \in Requests : SendQuery(r)
    \/ RunSkill
    \/ StartFails \/ LoadRules \/ LoadNothing
    \/ TakeRequest
    \/ CreateRule \/ DeleteRule \/ OnlyAnswer \/ DeleteUnknown \/ SkillEnds \/ ScriptAborts
    \/ RuleSaveFails \/ RuleSaveSyncs \/ RuleSaveCloses
    \/ LuaAnswers \/ ErrorAnswered
    \/ RestartEngine

RuleSpec == RuleInit /\ [][RuleNext]_ruleVars

-----------------------------------------------------------------------------
\* Every variable has its type.
RuleTypeOK ==
    /\ engine \in {"starting", "ready", "down"}
    /\ requests \in Seq(LuaJobs) /\ Len(requests) <= RequestsLen
    /\ luaStep \in LuaSteps /\ luaJob \in LuaJobs
    /\ rulesDb \subseteq Triggers /\ rulesFile \subseteq Triggers
    /\ lastSave \in {"good", "missed"}
    /\ owed \subseteq Requests
    /\ reported \subseteq Triggers /\ asked \subseteq Triggers

\* The rules that are active are those Camila's user was told of, over any
\* number of restarts: every rule reported as created is there until it is
\* deleted, and none comes back whose deletion was reported - except that a
\* restart after a save that was missed or cut keeps what the file holds.
RulesKept == engine = "ready" => reported \subseteq rulesDb /\ rulesDb \subseteq asked

InQueue == {requests[i].id : i \in 1..Len(requests)}
OnHand == IF luaStep \in {"boot", "idle"} THEN {} ELSE {luaJob.id}

\* The requests that still wait for an answer are exactly those in the queue and
\* in the worker's hands: an aborted script, a refused deletion or a save that
\* failed leaves no call of the Realtime agent without an answer.
RequestAnswered == owed = (InQueue \union OnHand) \ {Nothing}
=============================================================================
