------------------------------- MODULE ChatTurn -------------------------------
(***************************************************************************)
(* One chat session: the page sends a message (ChatPage.tsx), chat_send    *)
(* (api/chat.py) streams an answer from the first provider of a chain that *)
(* does not fail, runs the tools the model asks for in threads, and        *)
(* persists the turn as a question that is already answered or as a task   *)
(* with a pipeline.  When the page leaves, the generator is cancelled and  *)
(* the thread it waits for goes on.                                        *)
(***************************************************************************)
EXTENDS Integers, FiniteSets

CONSTANTS
    Chain,          \* length of the provider chain; its last element is mock
    MaxIterations,  \* _CHAT_TOOL_USE_MAX_ITERATIONS
    MaxSends        \* bound: messages

ASSUME ChatAssumption == Chain \in Nat \ {0} /\ MaxIterations \in Nat /\ MaxSends \in Nat

VARIABLES
    chatSends,   \* messages sent so far
    chatTurn,    \* the request of each message
    chatThread,  \* the thread each request runs: a tool, or the persistence of the turn
    chatRows,    \* committed tasks
    chatPage     \* what the page shows of the last message

chatVars == <<chatSends, chatTurn, chatThread, chatRows, chatPage>>

Sends == 1..MaxSends
Providers == 1..Chain
Intents == {"continuation", "develop_task", "other"}

ChatRow == [send : Sends, pipeline : BOOLEAN, text : SUBSET Providers, job : BOOLEAN]

ChatTypeOK ==
    /\ chatSends \in 0..MaxSends
    /\ chatTurn \in [Sends -> [phase : {"none", "stream", "tool", "persist", "ended", "cancelled"},
                               intent : Intents, provider : Providers,
                               full_text : SUBSET Providers, marker : BOOLEAN,
                               iteration : 0..MaxIterations]]
    /\ chatThread \in [Sends -> {"none", "tool", "insert", "submit"}]
    /\ chatRows \subseteq ChatRow
    /\ chatPage \in [status : {"idle", "pending", "created", "failed", "aborted"},
                     shown : SUBSET Providers]

ChatInit ==
    /\ chatSends = 0 /\ chatRows = {}
    /\ chatTurn = [s \in Sends |-> [phase |-> "none", intent |-> "other", provider |-> 1,
                                    full_text |-> {}, marker |-> FALSE, iteration |-> 0]]
    /\ chatThread = [s \in Sends |-> "none"]
    /\ chatPage = [status |-> "idle", shown |-> {}]

-----------------------------------------------------------------------------
Open(s) == chatTurn[s].phase \in {"stream", "tool", "persist"}

(* The page sends one message at a time.  classify_intent is a function of its text. *)
SendMessage(intent) ==
    /\ chatPage.status # "pending" /\ chatSends < MaxSends
    /\ chatSends' = chatSends + 1
    /\ chatTurn' = [chatTurn EXCEPT ![chatSends'].phase = "stream",
                                    ![chatSends'].intent = intent]
    /\ chatPage' = [status |-> "pending", shown |-> {}]
    /\ UNCHANGED <<chatThread, chatRows>>

(* A chunk of text, which may hold the TASK_INTENT line. *)
Token(s, marker) ==
    /\ chatTurn[s].phase = "stream"
    /\ LET p == chatTurn[s].provider IN
       /\ chatTurn' = [chatTurn EXCEPT ![s].full_text = @ \cup {p},
                                       ![s].marker = @ \/ marker]
       /\ chatPage' = [chatPage EXCEPT !.shown = @ \cup {p}]
    /\ UNCHANGED <<chatSends, chatThread, chatRows>>

(* Mutant: the next provider adds to the text there is. *)
NextProviderAdds(t) == [t EXCEPT !.provider = @ + 1, !.marker = FALSE, !.iteration = 0]

(* The next provider starts over, its tool calls included.  The text of the one that *)
(* failed stays on the page.  mock has nothing that fails.                            *)
NextProvider(t) == [t EXCEPT !.provider = @ + 1, !.full_text = {}, !.marker = FALSE,
                             !.iteration = 0]

ProviderFails(s) ==
    /\ chatTurn[s].phase = "stream" /\ chatTurn[s].provider < Chain
    /\ chatTurn' = [chatTurn EXCEPT ![s] = NextProvider(@)]
    /\ UNCHANGED <<chatSends, chatThread, chatRows, chatPage>>

(* Mutant: one iteration more than the limit. *)
CallsToolOnceMore(s) ==
    /\ chatTurn[s].phase = "stream" /\ chatTurn[s].provider < Chain
    /\ chatTurn[s].iteration <= MaxIterations
    /\ chatTurn' = [chatTurn EXCEPT ![s].phase = "tool", ![s].iteration = @ + 1]
    /\ chatThread' = [chatThread EXCEPT ![s] = "tool"]
    /\ UNCHANGED <<chatSends, chatRows, chatPage>>

(* Mutant: the iterations are not counted. *)
CallsToolForEver(s) ==
    /\ chatTurn[s].phase = "stream" /\ chatTurn[s].provider < Chain
    /\ chatTurn' = [chatTurn EXCEPT ![s].phase = "tool"]
    /\ chatThread' = [chatThread EXCEPT ![s] = "tool"]
    /\ UNCHANGED <<chatSends, chatRows, chatPage>>

(* A tool call, with a task row of its own.  The row says how the tool ended; when that    *)
(* cannot be committed it stays RUNNING and the model is told of an error.                 *)
CallsTool(s) ==
    /\ chatTurn[s].phase = "stream" /\ chatTurn[s].provider < Chain
    /\ chatTurn[s].iteration < MaxIterations
    /\ chatTurn' = [chatTurn EXCEPT ![s].phase = "tool", ![s].iteration = @ + 1]
    /\ chatThread' = [chatThread EXCEPT ![s] = "tool"]
    /\ UNCHANGED <<chatSends, chatRows, chatPage>>

ToolEnds(s) ==
    /\ chatThread[s] = "tool"
    /\ chatThread' = [chatThread EXCEPT ![s] = "none"]
    /\ chatTurn' = [chatTurn EXCEPT ![s].phase = IF @ = "tool" THEN "stream" ELSE @]
    /\ UNCHANGED <<chatSends, chatRows, chatPage>>

(* `done`: the model stopped, or asked for tools once too often. *)
AnswerDone(s) ==
    /\ chatTurn[s].phase = "stream"
    /\ chatTurn' = [chatTurn EXCEPT ![s].phase = "persist"]
    /\ chatThread' = [chatThread EXCEPT ![s] = "insert"]
    /\ UNCHANGED <<chatSends, chatRows, chatPage>>

(* Mutant: the marker of the model decides, whatever was said. *)
StartsIfMarked(t) == t.marker \/ t.intent = "develop_task"

(* persistence_intent: an acknowledgement never starts a pipeline; else the marker of *)
(* the model does, or the rule for a clear develop request.                            *)
StartsPipeline(t) == t.intent # "continuation" /\ (t.marker \/ t.intent = "develop_task")

Told(s, status) ==
    /\ chatThread' = [chatThread EXCEPT ![s] = "none"]
    /\ chatTurn' = [chatTurn EXCEPT ![s].phase = IF @ = "persist" THEN "ended" ELSE @]
    /\ chatPage' = IF Open(s) THEN [chatPage EXCEPT !.status = status] ELSE chatPage

(* A question is one commit.  A task is committed with its first event; the second   *)
(* event and the job come after.                                                     *)
InsertTask(s) ==
    /\ chatThread[s] = "insert"
    /\ LET t == chatTurn[s]
       IN chatRows' = chatRows \cup {[send |-> s, pipeline |-> StartsPipeline(t),
                                      text |-> t.full_text, job |-> FALSE]}
    /\ IF StartsPipeline(chatTurn[s])
       THEN chatThread' = [chatThread EXCEPT ![s] = "submit"] /\ UNCHANGED <<chatTurn, chatPage>>
       ELSE Told(s, "created")
    /\ UNCHANGED chatSends

(* Mutant: a job that is not accepted is passed over. *)
SubmitTaskLost(s) ==
    /\ chatThread[s] = "submit"
    /\ Told(s, "created")
    /\ UNCHANGED <<chatSends, chatRows>>

SubmitTask(s) ==
    /\ chatThread[s] = "submit"
    /\ chatRows' = {[r EXCEPT !.job = @ \/ r.send = s] : r \in chatRows}
    /\ Told(s, "created")
    /\ UNCHANGED chatSends

(* The database is locked, or the executor is shut down: task_create_failed. *)
PersistFails(s) ==
    /\ chatThread[s] \in {"insert", "submit"}
    /\ Told(s, "failed")
    /\ UNCHANGED <<chatSends, chatRows>>

(* The user stops, or 30 seconds pass without an event. *)
Abort ==
    /\ chatPage.status = "pending"
    /\ chatPage' = [chatPage EXCEPT !.status = "aborted"]
    /\ chatTurn' = [chatTurn EXCEPT ![chatSends].phase = "cancelled"]
    /\ UNCHANGED <<chatSends, chatThread, chatRows>>

-----------------------------------------------------------------------------
TurnSteps(s) == ProviderFails(s) \/ CallsTool(s) \/ ToolEnds(s) \/ AnswerDone(s)
                \/ InsertTask(s) \/ SubmitTask(s) \/ PersistFails(s)

ChatNext ==
    \/ \E intent \in Intents : SendMessage(intent)
    \/ \E s \in Sends : \/ \E marker \in BOOLEAN : Token(s, marker)
                        \/ ProviderFails(s) \/ CallsTool(s) \/ ToolEnds(s) \/ AnswerDone(s)
                        \/ InsertTask(s) \/ SubmitTask(s) \/ PersistFails(s)
    \/ Abort

(* A provider's stream ends or fails and a thread ends: the http client and the MCP  *)
(* client have timeouts.  Nobody is assumed to abort.                                 *)
ChatFairness == \A s \in Sends : WF_chatVars(TurnSteps(s))

ChatSpec == ChatInit /\ [][ChatNext]_chatVars /\ ChatFairness

-----------------------------------------------------------------------------
(* A message makes one task at most, whoever hears of it; an acknowledgement never makes *)
(* one with a pipeline, whatever the model wrote.                                         *)
OneTaskPerMessage ==
    \A r \in chatRows :
        /\ \A q \in chatRows : q.send = r.send => q = r
        /\ chatTurn[r.send].intent = "continuation" => ~r.pipeline

(* A stored answer is the text of one provider, also when others failed after a part of *)
(* theirs had been streamed.                                                             *)
AnswerOfOneProvider == \A r \in chatRows : Cardinality(r.text) <= 1

(* "Created" is said of a task that exists and, if it has a pipeline, was submitted; no *)
(* task that "was not created" ever has its pipeline run.                                *)
PageIsRight ==
    LET own == {r \in chatRows : r.send = chatSends} IN
    /\ chatPage.status = "created" => own # {} /\ \A r \in own : r.pipeline => r.job
    /\ chatPage.status = "failed" => \A r \in own : ~r.job

(* What a message makes, and what its sender is told of it. *)
ChatKeepsItsWord == OneTaskPerMessage /\ AnswerOfOneProvider /\ PageIsRight

(* Every message is answered, though providers fail and models go on asking for tools. *)
MessageIsOver == chatPage.status # "pending"
=============================================================================
