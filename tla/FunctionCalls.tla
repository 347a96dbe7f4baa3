--------------------------- MODULE FunctionCalls ---------------------------
(***************************************************************************)
(* The model's function calls, from process_json of webrtc.c to the answer.*)
(*                                                                         *)
(* The pc_task takes the calls one by one and gives the work to a task of  *)
(* its own (the robot's tools, automation, web search, switches) or to the *)
(* worker of the product lookups.  Some of them keep the call's id and     *)
(* answer with send_function_output; others answer with sendEvent, which   *)
(* uses g_last_call_id: the id of the last call that came, until it is     *)
(* cleared.  So does camila.notify of a skill.  Reading this id and        *)
(* clearing it are two critical sections.                                  *)
(*                                                                         *)
(* What a task does before it answers is not modelled here.  A call of     *)
(* automation that is queued for Lua is answered by module RuleEngine; here*)
(* this is one more task.  What is sent while no session is open is lost;  *)
(* how sessions open and close is module WebrtcSession's subject.          *)
(***************************************************************************)
EXTENDS Naturals, Sequences, FiniteSets, SequencesExt

CONSTANTS Calls,        \* function calls, named by their ids
          NoId,         \* no call id is kept
          Script,       \* the author of what a skill says
          LookupsLen    \* depth of s_http_queue

ASSUME CallsAssumption ==
    /\ IsFiniteSet(Calls) /\ LookupsLen \in Nat \ {0}
    /\ NoId \notin Calls /\ Script \notin Calls /\ NoId # Script

VARIABLES
    online,     \* {"online"} while a session is open
    lastId,     \* g_last_call_id
    function,   \* the function of each call
    callStage,      \* how far each call is
    read,       \* the id that a sender has read from lastId and not yet cleared
    lookups,    \* s_http_queue
    skills,     \* skills that Lua has yet to run
    answers,    \* who has answered under each id, in this order
    met,        \* history: calls that were not alone
    lost        \* history: calls that cannot be answered

functionVars == <<online, lastId, function, callStage, read, lookups, skills, answers, met, lost>>

\* "tool": robot tools and automation; "skill": run_skill; "search": web_search;
\* "lookup": lookup_product_info; "switch": activate_mute and delete_credentials;
\* "quiet": control_display and delete_api_key, which do not report that their
\* task cannot be made, and a web_search without its argument.
Functions == {"tool", "skill", "search", "lookup", "switch", "quiet"}
KeepsId(c) == function[c] \in {"tool", "skill", "search", "lookup"}
CallStages == {"away", "parsed", "refused", "busy", "working", "queued", "fetching",
           "output", "clearing", "event", "attach", "refusing", "over"}
Senders == Calls \union {Script}

CallsInit ==
    /\ online = {"online"} /\ lastId = NoId
    /\ function = [c \in Calls |-> "tool"] /\ callStage = [c \in Calls |-> "away"]
    /\ read = [s \in Senders |-> NoId]
    /\ lookups = <<>> /\ skills = 0
    /\ answers = [c \in Calls |-> <<>>]
    /\ met = {} /\ lost = {}

UnderWay == {c \in Calls : callStage[c] \notin {"away", "over"}}
CallGoes(c, s) == callStage' = [callStage EXCEPT ![c] = s]
\* The pc_task is in process_json.
Parsing == \E c \in Calls : callStage[c] \in {"parsed", "refused", "refusing", "busy"}

-----------------------------------------------------------------------------
(* process_json. *)

AmongOthers(c) ==
    met' = IF UnderWay # {} \/ read[Script] # NoId THEN met \union UnderWay \union {c} ELSE met

\* Mutant: an id that is still kept is not replaced.
ArriveBehind(c, f) ==
    /\ online # {} /\ callStage[c] = "away" /\ ~Parsing
    /\ lastId' = IF lastId = NoId THEN c ELSE lastId
    /\ function' = [function EXCEPT ![c] = f]
    /\ CallGoes(c, "parsed") /\ AmongOthers(c)
    /\ UNCHANGED <<online, read, lookups, skills, answers, lost>>

\* set_call_id.
Arrive(c, f) ==
    /\ online # {} /\ callStage[c] = "away" /\ ~Parsing
    /\ lastId' = c
    /\ function' = [function EXCEPT ![c] = f]
    /\ CallGoes(c, "parsed") /\ AmongOthers(c)
    /\ UNCHANGED <<online, read, lookups, skills, answers, lost>>

\* An unknown function, malformed arguments, or no memory for the task of one
\* that does not say so: the call is dropped.
DropCall(c) ==
    /\ callStage[c] = "parsed"
    /\ CallGoes(c, "over")
    /\ lost' = lost \union {c}
    /\ UNCHANGED <<online, lastId, function, read, lookups, skills, answers, met>>

\* An argument is missing, or the task of a switch cannot be made.
RefuseCall(c) ==
    /\ callStage[c] = "parsed" /\ function[c] \in {"lookup", "quiet", "switch"}
    /\ CallGoes(c, "refused")
    /\ UNCHANGED <<online, lastId, function, read, lookups, skills, answers, met, lost>>

StartTask(c) ==
    /\ callStage[c] = "parsed" /\ function[c] # "lookup"
    /\ CallGoes(c, "working")
    /\ UNCHANGED <<online, lastId, function, read, lookups, skills, answers, met, lost>>

QueueLookup(c) ==
    /\ callStage[c] = "parsed" /\ function[c] = "lookup"
    /\ IF Len(lookups) < LookupsLen
       THEN lookups' = Append(lookups, c) /\ CallGoes(c, "queued")
       ELSE CallGoes(c, "busy") /\ UNCHANGED lookups
    /\ UNCHANGED <<online, lastId, function, read, skills, answers, met, lost>>

-----------------------------------------------------------------------------
(* The tasks' work. *)

TakeLookup ==
    /\ lookups # <<>>
    /\ \A c \in Calls : function[c] = "lookup" => callStage[c] \notin {"fetching", "output"}
    /\ CallGoes(Head(lookups), "fetching") /\ lookups' = Tail(lookups)
    /\ UNCHANGED <<online, lastId, function, read, skills, answers, met, lost>>

\* A tool and a search end with a result or with an error to report; a search
\* without memory for its text reports nothing.
WorkDone(c) ==
    /\ callStage[c] \in {"working", "fetching"}
    /\ \/ CallGoes(c, IF KeepsId(c) THEN "output" ELSE "event")
          /\ UNCHANGED lost
       \/ function[c] = "search" /\ CallGoes(c, "over") /\ lost' = lost \union {c}
    /\ skills' \in {skills} \union (IF function[c] = "skill" THEN {skills + 1} ELSE {})
    /\ UNCHANGED <<online, lastId, function, read, lookups, answers, met>>

-----------------------------------------------------------------------------
(* Answers under the call's own id: send_function_output. *)

Answered(id, author) ==
    IF online # {} THEN answers' = [answers EXCEPT ![id] = Append(@, author)] ELSE UNCHANGED answers

GiveOutput(c) ==
    /\ callStage[c] \in {"output", "busy"}
    /\ Answered(c, c)
    /\ CallGoes(c, IF function[c] = "search" THEN "clearing" ELSE "over")
    /\ UNCHANGED <<online, lastId, function, read, lookups, skills, met, lost>>

\* A search clears the last id, whosever it is.
ClearAfterSearch(c) ==
    /\ callStage[c] = "clearing"
    /\ lastId' = NoId
    /\ CallGoes(c, "over")
    /\ UNCHANGED <<online, function, read, lookups, skills, answers, met, lost>>

-----------------------------------------------------------------------------
(* Answers under the last id: sendEvent("conversation.item.create"). *)

\* A refused lookup is answered by send_function_output as well.
AfterEvent(c) == IF function[c] = "lookup" THEN "busy" ELSE "over"

\* Without a session nothing is sent, nor without an id.
ReadId(c) ==
    /\ callStage[c] \in {"event", "refused"}
    /\ IF online # {} /\ lastId # NoId
       THEN /\ read' = [read EXCEPT ![c] = lastId]
            /\ CallGoes(c, IF callStage[c] = "refused" THEN "refusing" ELSE "attach")
       ELSE CallGoes(c, AfterEvent(c)) /\ UNCHANGED read
    /\ UNCHANGED <<online, lastId, function, lookups, skills, answers, met, lost>>

AttachId(c) ==
    /\ callStage[c] \in {"attach", "refusing"}
    /\ lastId' = NoId
    /\ Answered(read[c], c)
    /\ read' = [read EXCEPT ![c] = NoId]
    /\ CallGoes(c, AfterEvent(c))
    /\ UNCHANGED <<online, function, lookups, skills, met, lost>>

\* camila.notify of a skill, or the end of one that says nothing.
SkillReadsId ==
    /\ skills > 0 /\ read[Script] = NoId
    /\ skills' = skills - 1
    /\ \/ UNCHANGED <<read, met>>
       \/ /\ online # {} /\ lastId # NoId
          /\ read' = [read EXCEPT ![Script] = lastId]
          /\ met' = met \union UnderWay
    /\ UNCHANGED <<online, lastId, function, callStage, lookups, answers, lost>>

SkillSpeaks ==
    /\ read[Script] # NoId
    /\ lastId' = NoId
    /\ Answered(read[Script], Script)
    /\ read' = [read EXCEPT ![Script] = NoId]
    /\ UNCHANGED <<online, function, callStage, lookups, skills, met, lost>>

-----------------------------------------------------------------------------
\* A session ends, with what was asked in it.
HangUp ==
    /\ online # {}
    /\ online' = {}
    /\ lost' = lost \union UnderWay
    /\ UNCHANGED <<lastId, function, callStage, read, lookups, skills, answers, met>>

\* The next one begins; tasks of the last one may still run.
CallAgain ==
    /\ online = {} /\ ~Parsing
    /\ online' = {"online"}
    /\ UNCHANGED <<lastId, function, callStage, read, lookups, skills, answers, met, lost>>

CallsNext ==
    \/ \E c \in Calls, f \in Functions : Arrive(c, f)
    \/ \E c \in Calls : DropCall(c) \/ RefuseCall(c) \/ StartTask(c) \/ QueueLookup(c)
    \/ TakeLookup
    \/ \E c \in Calls :
         WorkDone(c) \/ GiveOutput(c) \/ ClearAfterSearch(c) \/ ReadId(c) \/ AttachId(c)
    \/ SkillReadsId \/ SkillSpeaks
    \/ HangUp \/ CallAgain

CallsSpec == CallsInit /\ [][CallsNext]_functionVars

-----------------------------------------------------------------------------
\* Every variable has its type.
CallsTypeOK ==
    /\ online \subseteq {"online"} /\ lastId \in Calls \union {NoId}
    /\ function \in [Calls -> Functions] /\ callStage \in [Calls -> CallStages]
    /\ read \in [Senders -> Calls \union {NoId}]
    /\ lookups \in Seq(Calls) /\ Len(lookups) <= LookupsLen
    /\ skills \in 0..Cardinality(Calls)
    /\ answers \in [Calls -> Seq(Senders)]
    /\ met \subseteq Calls /\ lost \subseteq Calls

OwnResult(c) == c \in Range(answers[c])
OnlyOwnResult(c) ==
    LET told == {i \in 1..Len(answers[c]) : answers[c][i] # Script}
    IN  /\ \A i \in told : answers[c][i] = c
        /\ \A i, j \in told : i # j => function[c] = "lookup" /\ told = {i, j}

\* Every call that was taken on gets its own result: one whose handler keeps its
\* id always does, however many calls, skills and lookups overlap.  The others
\* answer under the last id, and one that was alone gets its own result, once,
\* and no other call's, whatever ids earlier calls and skills have left behind.
\* (A refused lookup is answered twice, and a skill that speaks later may add
\* its words.)
CallsSettled ==
    \A c \in Calls :
      /\ callStage[c] = "over" /\ c \notin lost /\ (KeepsId(c) \/ c \notin met) => OwnResult(c)
      /\ c \notin met => OnlyOwnResult(c)
=============================================================================
