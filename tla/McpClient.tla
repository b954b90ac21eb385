------------------------------- MODULE McpClient -------------------------------
(***************************************************************************)
(* services/mcp_client.py: threads call the tools of an MCP server through *)
(* an event loop of its own thread.  The server has one task, which takes  *)
(* requests from a queue one at a time.  A caller that times out leaves    *)
(* its request in the queue; stop puts a sentinel into the queue and stops *)
(* the loop under a lock that callers do not take.                         *)
(*                                                                         *)
(* Every start makes a new loop; loops and the state of the server on them *)
(* are numbered by the start that made them, 0 being None.                 *)
(***************************************************************************)
EXTENDS Integers, Sequences, FiniteSets

CONSTANTS
    McpCalls,    \* calls made in the life of the process
    MaxStarts    \* bound: starts

ASSUME McpAssumption == MaxStarts \in Nat /\ 0 \notin McpCalls

VARIABLES
    mcpStarted,   \* _started
    mcpLoop,      \* _loop
    mcpStarts,    \* starts so far
    mcpRunning,   \* loops whose thread runs
    mcpStopping,  \* stop holds the lock, its sentinel is in the queue
    mcpServer,    \* _ServerState of each start
    mcpCall,      \* the calls, as their threads see them
    mcpSent       \* how often each call was sent to the server

mcpVars == <<mcpStarted, mcpLoop, mcpStarts, mcpRunning, mcpStopping, mcpServer,
             mcpCall, mcpSent>>

Starts == 1..MaxStarts
Shutdown == 0

McpServer == [phase : {"none", "starting", "ready", "failed", "crashed", "left"},
              connected : BOOLEAN,
              queue : Seq(McpCalls \cup {Shutdown}), serving : McpCalls \cup {Shutdown}]

McpCall == [phase : {"idle", "checked", "waiting", "answered", "raised", "refused", "timedOut"},
            state : 0..MaxStarts,       \* the server state call_tool looked up
            on : 0..MaxStarts,          \* the loop its coroutine was given to
            put : BOOLEAN,              \* _call_async has put the request
            answer : McpCalls \cup {Shutdown}]

McpTypeOK ==
    /\ mcpStarted \in BOOLEAN /\ mcpStopping \in BOOLEAN
    /\ mcpLoop \in 0..MaxStarts /\ mcpStarts \in 0..MaxStarts /\ mcpRunning \subseteq Starts
    /\ mcpServer \in [Starts -> McpServer]
    /\ mcpCall \in [McpCalls -> McpCall]
    /\ mcpSent \in [McpCalls -> Nat]

McpInit ==
    /\ mcpStarted = FALSE /\ mcpStopping = FALSE
    /\ mcpLoop = 0 /\ mcpStarts = 0 /\ mcpRunning = {}
    /\ mcpServer = [s \in Starts |-> [phase |-> "none", connected |-> FALSE,
                                      queue |-> <<>>, serving |-> Shutdown]]
    /\ mcpCall = [c \in McpCalls |-> [phase |-> "idle", state |-> 0, on |-> 0,
                                      put |-> FALSE, answer |-> Shutdown]]
    /\ mcpSent = [c \in McpCalls |-> 0]

-----------------------------------------------------------------------------
(* start and stop. *)

(* The first wait for the spawned task may time out: start raises, _started stays *)
(* FALSE, and the loop is left running.                                           *)
McpStart(ok) ==
    /\ ~mcpStarted /\ mcpStarts < MaxStarts
    /\ mcpStarts' = mcpStarts + 1 /\ mcpLoop' = mcpStarts'
    /\ mcpRunning' = mcpRunning \cup {mcpStarts'}
    /\ mcpServer' = [mcpServer EXCEPT ![mcpStarts'].phase = "starting"]
    /\ mcpStarted' = ok
    /\ UNCHANGED <<mcpStopping, mcpCall, mcpSent>>

(* No server configured: started, without a loop. *)
McpStartEmpty ==
    /\ ~mcpStarted /\ mcpStarts < MaxStarts
    /\ mcpStarted' = TRUE /\ mcpStarts' = mcpStarts + 1
    /\ UNCHANGED <<mcpLoop, mcpRunning, mcpStopping, mcpServer, mcpCall, mcpSent>>

(* Mutant: stop puts the number of the loop in place of the sentinel. *)
McpStopBeginsNumbered ==
    /\ mcpStarted /\ mcpLoop # 0 /\ ~mcpStopping
    /\ mcpServer' = [mcpServer EXCEPT ![mcpLoop].queue = Append(@, mcpLoop)]
    /\ mcpStopping' = TRUE
    /\ UNCHANGED <<mcpStarted, mcpLoop, mcpStarts, mcpRunning, mcpCall, mcpSent>>

McpStopBegins ==
    /\ mcpStarted /\ mcpLoop # 0 /\ ~mcpStopping
    /\ mcpServer' = [mcpServer EXCEPT ![mcpLoop].queue = Append(@, Shutdown)]
    /\ mcpStopping' = TRUE
    /\ UNCHANGED <<mcpStarted, mcpLoop, mcpStarts, mcpRunning, mcpCall, mcpSent>>

(* Mutant: stop forgets the loop and leaves it running. *)
McpStopEndsRunning ==
    /\ mcpStopping
    /\ mcpLoop' = 0 /\ mcpStarted' = FALSE /\ mcpStopping' = FALSE
    /\ UNCHANGED <<mcpRunning, mcpStarts, mcpServer, mcpCall, mcpSent>>

(* The loop is stopped whatever its tasks are doing. *)
McpStopEnds ==
    /\ mcpStopping
    /\ mcpRunning' = mcpRunning \ {mcpLoop}
    /\ mcpLoop' = 0 /\ mcpStarted' = FALSE /\ mcpStopping' = FALSE
    /\ UNCHANGED <<mcpStarts, mcpServer, mcpCall, mcpSent>>

-----------------------------------------------------------------------------
(* _run_server, on the loop. *)

(* The session is initialised and its tools are listed, or not in time. *)
McpConnects(s, ok) ==
    /\ s \in mcpRunning /\ mcpServer[s].phase = "starting"
    /\ mcpServer' = [mcpServer EXCEPT
           ![s] = [@ EXCEPT !.phase = IF ok THEN "ready" ELSE "failed", !.connected = ok]]
    /\ UNCHANGED <<mcpStarted, mcpLoop, mcpStarts, mcpRunning, mcpStopping, mcpCall, mcpSent>>

(* Mutant: a request stays in the queue until the next one is put. *)
McpTakesAndKeeps(s) ==
    /\ s \in mcpRunning /\ mcpServer[s].phase = "ready"
    /\ mcpServer[s].serving = Shutdown /\ mcpServer[s].queue # <<>>
    /\ LET r == Head(mcpServer[s].queue) IN
       /\ mcpServer' = [mcpServer EXCEPT
              ![s] = [@ EXCEPT !.serving = r, !.phase = IF r = Shutdown THEN "left" ELSE @]]
       /\ mcpSent' = IF r = Shutdown THEN mcpSent ELSE [mcpSent EXCEPT ![r] = @ + 1]
    /\ UNCHANGED <<mcpStarted, mcpLoop, mcpStarts, mcpRunning, mcpStopping, mcpCall>>

(* The next request is sent to the server.  The sentinel ends the task and leaves *)
(* `connected` as it is.                                                           *)
McpTakes(s) ==
    /\ s \in mcpRunning /\ mcpServer[s].phase = "ready"
    /\ mcpServer[s].serving = Shutdown /\ mcpServer[s].queue # <<>>
    /\ LET r == Head(mcpServer[s].queue) IN
       /\ mcpServer' = [mcpServer EXCEPT
              ![s] = [mcpServer[s] EXCEPT !.queue = Tail(@), !.serving = r,
                                          !.phase = IF r = Shutdown THEN "left" ELSE @]]
       /\ mcpSent' = IF r = Shutdown THEN mcpSent ELSE [mcpSent EXCEPT ![r] = @ + 1]
    /\ UNCHANGED <<mcpStarted, mcpLoop, mcpStarts, mcpRunning, mcpStopping, mcpCall>>

(* The future is set, with a result or an exception; the caller may have left.  *)
(* An answer that never comes holds up every request behind it.                 *)
McpAnswers(s) ==
    /\ s \in mcpRunning /\ mcpServer[s].phase = "ready"
    /\ LET c == mcpServer[s].serving IN
       /\ c # Shutdown
       /\ mcpCall' = IF mcpCall[c].phase = "waiting"
                     THEN [mcpCall EXCEPT ![c] = [@ EXCEPT !.phase = "answered", !.answer = c]]
                     ELSE mcpCall
       /\ mcpServer' = [mcpServer EXCEPT ![s].serving = Shutdown]
    /\ UNCHANGED <<mcpStarted, mcpLoop, mcpStarts, mcpRunning, mcpStopping, mcpSent>>

(* The process of the server dies: the queue and the request that was sent stay *)
(* unanswered.                                                                   *)
McpCrashes(s) ==
    /\ s \in mcpRunning /\ mcpServer[s].phase = "ready"
    /\ mcpServer' = [mcpServer EXCEPT
           ![s] = [@ EXCEPT !.phase = "crashed", !.connected = FALSE, !.serving = Shutdown]]
    /\ UNCHANGED <<mcpStarted, mcpLoop, mcpStarts, mcpRunning, mcpStopping, mcpCall, mcpSent>>

-----------------------------------------------------------------------------
(* call_tool, in the thread of the caller, without the lock. *)

McpChecks(c) ==
    /\ mcpCall[c].phase = "idle"
    /\ mcpCall' = IF mcpStarted /\ mcpLoop # 0 /\ mcpServer[mcpLoop].connected
                  THEN [mcpCall EXCEPT ![c] = [@ EXCEPT !.phase = "checked", !.state = mcpLoop]]
                  ELSE [mcpCall EXCEPT ![c].phase = "refused"]
    /\ UNCHANGED <<mcpStarted, mcpLoop, mcpStarts, mcpRunning, mcpStopping, mcpServer, mcpSent>>

(* _loop is read again: stop may have set it to None, a start to another loop. *)
McpSubmits(c) ==
    /\ mcpCall[c].phase = "checked"
    /\ mcpCall' = IF mcpLoop = 0 THEN [mcpCall EXCEPT ![c].phase = "raised"]
                  ELSE [mcpCall EXCEPT ![c] = [@ EXCEPT !.phase = "waiting", !.on = mcpLoop]]
    /\ UNCHANGED <<mcpStarted, mcpLoop, mcpStarts, mcpRunning, mcpStopping, mcpServer, mcpSent>>

(* _call_async, on the loop, even when the caller has timed out before. *)
McpPuts(c) ==
    /\ mcpCall[c].on \in mcpRunning /\ ~mcpCall[c].put
    /\ mcpCall' = [mcpCall EXCEPT ![c].put = TRUE]
    /\ mcpServer' = [mcpServer EXCEPT ![mcpCall[c].state].queue = Append(@, c)]
    /\ UNCHANGED <<mcpStarted, mcpLoop, mcpStarts, mcpRunning, mcpStopping, mcpSent>>

(* Mutant: the timeout starts when the loop has put the request. *)
McpTimesOutOncePut(c) ==
    /\ mcpCall[c].phase = "waiting" /\ mcpCall[c].put
    /\ mcpCall' = [mcpCall EXCEPT ![c].phase = "timedOut"]
    /\ UNCHANGED <<mcpStarted, mcpLoop, mcpStarts, mcpRunning, mcpStopping, mcpServer, mcpSent>>

McpTimesOut(c) ==
    /\ mcpCall[c].phase = "waiting"
    /\ mcpCall' = [mcpCall EXCEPT ![c].phase = "timedOut"]
    /\ UNCHANGED <<mcpStarted, mcpLoop, mcpStarts, mcpRunning, mcpStopping, mcpServer, mcpSent>>

-----------------------------------------------------------------------------
McpCaller(c) == McpSubmits(c) \/ McpTimesOut(c)

McpNext ==
    \/ (\E ok \in BOOLEAN : McpStart(ok)) \/ McpStartEmpty
    \/ McpStopBegins \/ McpStopEnds
    \/ \E s \in Starts : \/ \E ok \in BOOLEAN : McpConnects(s, ok)
                         \/ McpTakes(s) \/ McpAnswers(s) \/ McpCrashes(s)
    \/ \E c \in McpCalls : McpChecks(c) \/ McpSubmits(c) \/ McpPuts(c) \/ McpTimesOut(c)

(* A thread that called goes on, and its wait has a timeout.  Nothing is assumed *)
(* of the server or the loop.                                                    *)
McpFairness == \A c \in McpCalls : WF_mcpVars(McpCaller(c))

McpSpec == McpInit /\ [][McpNext]_mcpVars /\ McpFairness

-----------------------------------------------------------------------------
(* No call is sent to the server twice, late answers and restarts included, and none that *)
(* was refused or raised; an answer is that of the caller's own request.                   *)
McpSentOnce ==
    \A c \in McpCalls :
        /\ mcpSent[c] <= 1
        /\ mcpCall[c].phase \in {"idle", "checked", "refused", "raised"} => mcpSent[c] = 0
        /\ mcpCall[c].phase = "answered" => mcpCall[c].answer = c /\ mcpSent[c] = 1

(* Requests whose callers gave up are still sent, but none once stop has returned. *)
McpStopIsFinal == [][mcpSent' # mcpSent => mcpStarted]_mcpVars

(* Every call returns or raises, though the server hang, die or be stopped. *)
McpCallIsOver(c) == mcpCall[c].phase \in {"idle", "answered", "raised", "refused", "timedOut"}
=============================================================================
