--------------------------- MODULE McpClientProofs ---------------------------
(***************************************************************************)
(* The client of an MCP server, for any number of calls and of starts: no  *)
(* call is sent twice, an answer is that of the caller's own request, and  *)
(* nothing is sent once stop has returned.                                 *)
(*                                                                         *)
(* A call is sent once because it is at one place at most: not yet put,    *)
(* at one place of one queue, or sent.  Nothing is sent after stop because *)
(* a queue with something in it belongs to the loop the client is on, or   *)
(* to one that has been stopped for good.                                  *)
(***************************************************************************)
EXTENDS McpClient, TLAPS

Queue(s) == mcpServer[s].queue
Serving(s) == mcpServer[s].serving
In(c, s, i) == i \in DOMAIN Queue(s) /\ Queue(s)[i] = c

-----------------------------------------------------------------------------
(* Types. *)

\* What the type says of the parts.
LEMMA McpFacts ==
    ASSUME McpTypeOK
    PROVE /\ \A s \in Starts : mcpServer[s] \in McpServer
          /\ \A c \in McpCalls : mcpCall[c] \in McpCall /\ mcpSent[c] \in Nat
          /\ mcpLoop # 0 => mcpLoop \in Starts
BY McpAssumption DEF McpTypeOK, Starts

\* What each step makes of the state of a server, and of its queue and what it serves.
Connects(r, ok) == [r EXCEPT !.phase = IF ok THEN "ready" ELSE "failed", !.connected = ok]
Takes(r, x) ==
    [r EXCEPT !.queue = Tail(@), !.serving = x, !.phase = IF x = Shutdown THEN "left" ELSE @]
Crashed(r) == [r EXCEPT !.phase = "crashed", !.connected = FALSE, !.serving = Shutdown]
Puts(r, x) == [r EXCEPT !.queue = Append(@, x)]
Frees(r) == [r EXCEPT !.serving = Shutdown]
Spawned(r) == [r EXCEPT !.phase = "starting"]

LEMMA ServerMoves ==
    ASSUME NEW r \in McpServer
    PROVE /\ r.queue \in Seq(McpCalls \cup {Shutdown}) /\ r.serving \in McpCalls \cup {Shutdown}
          /\ Spawned(r) \in McpServer
          /\ Spawned(r).queue = r.queue /\ Spawned(r).serving = r.serving
          /\ \A ok \in BOOLEAN : /\ Connects(r, ok) \in McpServer
                                 /\ Connects(r, ok).queue = r.queue
                                 /\ Connects(r, ok).serving = r.serving
          /\ Crashed(r) \in McpServer
          /\ Crashed(r).queue = r.queue /\ Crashed(r).serving = Shutdown
          /\ Frees(r) \in McpServer
          /\ Frees(r).queue = r.queue /\ Frees(r).serving = Shutdown
BY DEF McpServer, Spawned, Connects, Crashed, Frees

LEMMA QueueMoves ==
    ASSUME NEW r \in McpServer, NEW x \in McpCalls \cup {Shutdown}
    PROVE /\ Puts(r, x) \in McpServer
          /\ Puts(r, x).queue = Append(r.queue, x) /\ Puts(r, x).serving = r.serving
          /\ r.queue # <<>> => /\ Takes(r, x) \in McpServer
                               /\ Takes(r, x).queue = Tail(r.queue) /\ Takes(r, x).serving = x
                               /\ Head(r.queue) \in McpCalls \cup {Shutdown}
<1>1. r.queue \in Seq(McpCalls \cup {Shutdown})
  BY DEF McpServer
<1>2. Append(r.queue, x) \in Seq(McpCalls \cup {Shutdown})
  BY <1>1
<1>3. Puts(r, x) \in McpServer /\ Puts(r, x).queue = Append(r.queue, x)
      /\ Puts(r, x).serving = r.serving
  BY <1>2 DEF McpServer, Puts
<1>4. ASSUME r.queue # <<>>
      PROVE /\ Takes(r, x) \in McpServer
            /\ Takes(r, x).queue = Tail(r.queue) /\ Takes(r, x).serving = x
            /\ Head(r.queue) \in McpCalls \cup {Shutdown}
  <2>1. /\ Tail(r.queue) \in Seq(McpCalls \cup {Shutdown})
        /\ Head(r.queue) \in McpCalls \cup {Shutdown}
    BY <1>1, <1>4
  <2> QED
    BY <2>1 DEF McpServer, Takes
<1> QED
  BY <1>3, <1>4

\* The same for calls.
Checks(k, s) == [k EXCEPT !.phase = "checked", !.state = s]
Submits(k, s) == [k EXCEPT !.phase = "waiting", !.on = s]
Answered(k, c) == [k EXCEPT !.phase = "answered", !.answer = c]
EndsAs(k, p) == [k EXCEPT !.phase = p]
Placed(k) == [k EXCEPT !.put = TRUE]

LEMMA CallMovesTyped ==
    ASSUME NEW k \in McpCall
    PROVE /\ \A s \in 0..MaxStarts : Checks(k, s) \in McpCall /\ Submits(k, s) \in McpCall
          /\ \A c \in McpCalls : Answered(k, c) \in McpCall
          /\ \A p \in {"raised", "refused", "timedOut"} : EndsAs(k, p) \in McpCall
          /\ Placed(k) \in McpCall
BY DEF McpCall, Checks, Submits, Answered, EndsAs, Placed

LEMMA ChecksFields ==
    ASSUME NEW k \in McpCall, NEW s
    PROVE /\ Checks(k, s).put = k.put /\ Checks(k, s).on = k.on
          /\ Checks(k, s).phase = "checked" /\ Checks(k, s).state = s
BY DEF McpCall, Checks

LEMMA SubmitsFields ==
    ASSUME NEW k \in McpCall, NEW s
    PROVE /\ Submits(k, s).put = k.put /\ Submits(k, s).on = s
          /\ Submits(k, s).phase = "waiting" /\ Submits(k, s).state = k.state
BY DEF McpCall, Submits

LEMMA AnsweredFields ==
    ASSUME NEW k \in McpCall, NEW c
    PROVE /\ Answered(k, c).put = k.put /\ Answered(k, c).on = k.on
          /\ Answered(k, c).phase = "answered" /\ Answered(k, c).answer = c
          /\ Answered(k, c).state = k.state
BY DEF McpCall, Answered

LEMMA EndsFields ==
    ASSUME NEW k \in McpCall, NEW p
    PROVE /\ EndsAs(k, p).put = k.put /\ EndsAs(k, p).on = k.on
          /\ EndsAs(k, p).phase = p /\ EndsAs(k, p).state = k.state
BY DEF McpCall, EndsAs

LEMMA PlacedFields ==
    ASSUME NEW k \in McpCall
    PROVE /\ Placed(k).put = TRUE /\ Placed(k).phase = k.phase
          /\ Placed(k).on = k.on /\ Placed(k).answer = k.answer /\ Placed(k).state = k.state
BY DEF McpCall, Placed

LEMMA ServerSet ==
    ASSUME McpTypeOK, NEW s \in Starts, NEW r \in McpServer,
           mcpServer' = [mcpServer EXCEPT ![s] = r]
    PROVE /\ mcpServer' \in [Starts -> McpServer]
          /\ mcpServer'[s] = r /\ \A t \in Starts \ {s} : mcpServer'[t] = mcpServer[t]
BY DEF McpTypeOK

LEMMA CallSet ==
    ASSUME McpTypeOK, NEW c \in McpCalls, NEW k \in McpCall,
           mcpCall' = [mcpCall EXCEPT ![c] = k]
    PROVE /\ mcpCall' \in [McpCalls -> McpCall]
          /\ mcpCall'[c] = k /\ \A d \in McpCalls \ {c} : mcpCall'[d] = mcpCall[d]
BY DEF McpTypeOK

-----------------------------------------------------------------------------
(* What each action does, in these terms. *)

LEMMA StartDoes ==
    ASSUME McpTypeOK, NEW ok \in BOOLEAN, McpStart(ok)
    PROVE /\ mcpStarts' = mcpStarts + 1 /\ mcpStarts' \in Starts
          /\ mcpServer' = [mcpServer EXCEPT ![mcpStarts'] = Spawned(mcpServer[mcpStarts'])]
<1>1. mcpStarts \in Nat /\ mcpStarts < MaxStarts /\ mcpStarts' = mcpStarts + 1
  BY McpAssumption DEF McpTypeOK, McpStart
<1>2. mcpStarts' \in Starts
  BY <1>1, McpAssumption DEF Starts
<1>3. mcpServer' = [mcpServer EXCEPT ![mcpStarts'] = Spawned(mcpServer[mcpStarts'])]
  BY DEF McpStart, Spawned
<1> QED
  BY <1>1, <1>2, <1>3

LEMMA ServerDoes ==
    ASSUME McpTypeOK, NEW s \in Starts
    PROVE /\ \A ok \in BOOLEAN : McpConnects(s, ok) =>
                 mcpServer' = [mcpServer EXCEPT ![s] = Connects(mcpServer[s], ok)]
          /\ McpTakes(s) =>
                 mcpServer' = [mcpServer EXCEPT ![s] =
                                  Takes(mcpServer[s], Head(mcpServer[s].queue))]
          /\ McpAnswers(s) => mcpServer' = [mcpServer EXCEPT ![s] = Frees(mcpServer[s])]
          /\ McpCrashes(s) => mcpServer' = [mcpServer EXCEPT ![s] = Crashed(mcpServer[s])]
<1>1. ASSUME NEW ok \in BOOLEAN, McpConnects(s, ok)
      PROVE mcpServer' = [mcpServer EXCEPT ![s] = Connects(mcpServer[s], ok)]
  BY <1>1 DEF McpConnects, Connects
<1>2. ASSUME McpTakes(s)
      PROVE mcpServer' = [mcpServer EXCEPT ![s] =
                             Takes(mcpServer[s], Head(mcpServer[s].queue))]
  BY <1>2 DEF McpTakes, Takes
<1>3. ASSUME McpAnswers(s) PROVE mcpServer' = [mcpServer EXCEPT ![s] = Frees(mcpServer[s])]
  BY <1>3 DEF McpAnswers, Frees
<1>4. ASSUME McpCrashes(s) PROVE mcpServer' = [mcpServer EXCEPT ![s] = Crashed(mcpServer[s])]
  BY <1>4 DEF McpCrashes, Crashed
<1> QED
  BY <1>1, <1>2, <1>3, <1>4

LEMMA CallerDoes ==
    ASSUME McpTypeOK, NEW c \in McpCalls
    PROVE /\ McpChecks(c) => \/ mcpCall' = [mcpCall EXCEPT ![c] = Checks(mcpCall[c], mcpLoop)]
                             \/ mcpCall' = [mcpCall EXCEPT ![c] = EndsAs(mcpCall[c], "refused")]
          /\ McpSubmits(c) => \/ mcpCall' = [mcpCall EXCEPT ![c] = Submits(mcpCall[c], mcpLoop)]
                              \/ mcpCall' = [mcpCall EXCEPT ![c] = EndsAs(mcpCall[c], "raised")]
          /\ McpTimesOut(c) => mcpCall' = [mcpCall EXCEPT ![c] = EndsAs(mcpCall[c], "timedOut")]
          /\ McpPuts(c) =>
                 /\ mcpCall' = [mcpCall EXCEPT ![c] = Placed(mcpCall[c])]
                 /\ mcpServer' = [mcpServer EXCEPT ![mcpCall[c].state] =
                                     Puts(mcpServer[mcpCall[c].state], c)]
BY DEF McpChecks, McpSubmits, McpTimesOut, McpPuts, Checks, Submits, EndsAs, Placed, Puts

\* What is taken is a call or the sentinel.
LEMMA TakesHead ==
    ASSUME McpTypeOK, NEW s \in Starts, McpTakes(s)
    PROVE /\ Head(mcpServer[s].queue) \in McpCalls \cup {Shutdown}
          /\ Head(mcpServer[s].queue) # Shutdown =>
                 mcpSent' = [mcpSent EXCEPT ![Head(mcpServer[s].queue)] = @ + 1]
          /\ Head(mcpServer[s].queue) = Shutdown => mcpSent' = mcpSent
<1>1. mcpServer[s].queue # <<>> /\ mcpServer[s] \in McpServer
  BY McpFacts DEF McpTakes
<1>2. Head(mcpServer[s].queue) \in McpCalls \cup {Shutdown}
  BY <1>1, ServerMoves
<1> QED
  BY <1>2 DEF McpTakes

LEMMA StopDoes ==
    ASSUME McpTypeOK, McpStopBegins
    PROVE /\ mcpLoop \in Starts
          /\ mcpServer' = [mcpServer EXCEPT ![mcpLoop] = Puts(mcpServer[mcpLoop], Shutdown)]
BY McpFacts DEF McpStopBegins, Puts

\* The server that answers serves a call; that call is told, if it still waits.
LEMMA AnswerDoes ==
    ASSUME McpTypeOK, NEW s \in Starts, McpAnswers(s)
    PROVE LET c == Serving(s) IN
          /\ c \in McpCalls
          /\ \/ mcpCall' = mcpCall
             \/ /\ mcpCall[c].phase = "waiting"
                /\ mcpCall' = [mcpCall EXCEPT ![c] = Answered(mcpCall[c], c)]
BY McpFacts, ServerMoves DEF McpAnswers, Answered, Serving, Shutdown

-----------------------------------------------------------------------------
\* Every step of the client keeps its type.
LEMMA McpTypeKept ==
    ASSUME McpTypeOK, [McpNext]_mcpVars
    PROVE McpTypeOK'
<1>1. CASE \E ok \in BOOLEAN : McpStart(ok)
  <2>1. mcpServer' \in [Starts -> McpServer] /\ mcpStarts' \in Starts
    BY <1>1, StartDoes, McpFacts, ServerMoves, ServerSet
  <2> QED
    BY <1>1, <2>1, McpAssumption DEF McpTypeOK, McpStart, Starts
<1>2. CASE McpStartEmpty
  BY <1>2, McpAssumption DEF McpTypeOK, McpStartEmpty
<1>3. CASE McpStopBegins
  <2>1. mcpServer' \in [Starts -> McpServer]
    BY <1>3, StopDoes, McpFacts, QueueMoves, ServerSet
  <2> QED
    BY <1>3, <2>1 DEF McpTypeOK, McpStopBegins
<1>4. CASE McpStopEnds
  <2>1. 0 \in 0..MaxStarts /\ mcpRunning \ {mcpLoop} \subseteq Starts
    BY McpAssumption DEF McpTypeOK
  <2> QED
    BY <1>4, <2>1 DEF McpTypeOK, McpStopEnds
<1>5. ASSUME NEW s \in Starts, NEW ok \in BOOLEAN, McpConnects(s, ok) PROVE McpTypeOK'
  <2>1. mcpServer' \in [Starts -> McpServer]
    BY <1>5, ServerDoes, McpFacts, ServerMoves, ServerSet
  <2> QED
    BY <1>5, <2>1 DEF McpTypeOK, McpConnects
<1>6. ASSUME NEW s \in Starts, McpTakes(s) PROVE McpTypeOK'
  <2>1. mcpServer' \in [Starts -> McpServer]
    <3>1. mcpServer[s].queue # <<>>
      BY <1>6 DEF McpTakes
    <3> QED
      BY <1>6, <3>1, ServerDoes, McpFacts, QueueMoves, ServerSet
  <2>2. mcpSent' \in [McpCalls -> Nat]
    <3>1. mcpSent \in [McpCalls -> Nat]
      BY DEF McpTypeOK
    <3>2. \/ mcpSent' = mcpSent
          \/ \E r \in McpCalls : mcpSent' = [mcpSent EXCEPT ![r] = mcpSent[r] + 1]
      BY <1>6, TakesHead DEF McpTakes
    <3> QED
      BY <3>1, <3>2
  <2> QED
    BY <1>6, <2>1, <2>2 DEF McpTypeOK, McpTakes
<1>7. ASSUME NEW s \in Starts, McpAnswers(s) PROVE McpTypeOK'
  <2>1. mcpServer' \in [Starts -> McpServer]
    BY <1>7, ServerDoes, McpFacts, ServerMoves, ServerSet
  <2>2. mcpCall' \in [McpCalls -> McpCall]
    <3>1. CASE mcpCall' = mcpCall
      BY <3>1 DEF McpTypeOK
    <3>2. CASE mcpCall' = [mcpCall EXCEPT ![Serving(s)] = Answered(mcpCall[Serving(s)], Serving(s))]
      <4>1. Serving(s) \in McpCalls
        BY <1>7, AnswerDoes
      <4>2. Answered(mcpCall[Serving(s)], Serving(s)) \in McpCall
        BY <4>1, McpFacts, CallMovesTyped
      <4> QED
        BY <3>2, <4>1, <4>2, CallSet
    <3> QED
      BY <1>7, <3>1, <3>2, AnswerDoes
  <2> QED
    BY <1>7, <2>1, <2>2 DEF McpTypeOK, McpAnswers
<1>8. ASSUME NEW s \in Starts, McpCrashes(s) PROVE McpTypeOK'
  <2>1. mcpServer' \in [Starts -> McpServer]
    BY <1>8, ServerDoes, McpFacts, ServerMoves, ServerSet
  <2> QED
    BY <1>8, <2>1 DEF McpTypeOK, McpCrashes
<1>9. ASSUME NEW c \in McpCalls, McpChecks(c) \/ McpSubmits(c) \/ McpTimesOut(c)
      PROVE McpTypeOK'
  <2>1. mcpCall' \in [McpCalls -> McpCall]
    <3>1. mcpLoop \in 0..MaxStarts
      BY DEF McpTypeOK
    <3>2. PICK k \in McpCall : mcpCall' = [mcpCall EXCEPT ![c] = k]
      BY <1>9, <3>1, CallerDoes, McpFacts, CallMovesTyped
    <3> QED
      BY <3>2, CallSet
  <2> QED
    BY <1>9, <2>1 DEF McpTypeOK, McpChecks, McpSubmits, McpTimesOut
<1>10. ASSUME NEW c \in McpCalls, McpPuts(c) PROVE McpTypeOK'
  <2>1. mcpCall' \in [McpCalls -> McpCall]
    BY <1>10, CallerDoes, McpFacts, CallMovesTyped, CallSet
  <2>2. mcpServer' \in [Starts -> McpServer]
    <3>1. CASE mcpCall[c].state \in Starts
      BY <1>10, <3>1, CallerDoes, McpFacts, QueueMoves, ServerSet
    <3>2. CASE mcpCall[c].state \notin Starts
      BY <1>10, <3>2, CallerDoes DEF McpTypeOK
    <3> QED
      BY <3>1, <3>2
  <2> QED
    BY <1>10, <2>1, <2>2 DEF McpTypeOK, McpPuts
<1>11. CASE UNCHANGED mcpVars
  BY <1>11 DEF McpTypeOK, mcpVars
<1> QED
  BY <1>1, <1>2, <1>3, <1>4, <1>5, <1>6, <1>7, <1>8, <1>9, <1>10, <1>11 DEF McpNext

LEMMA McpTypeAlways == McpInit /\ [][McpNext]_mcpVars => []McpTypeOK
<1>1. McpInit => McpTypeOK
  <2>1. [phase |-> "none", connected |-> FALSE, queue |-> <<>>, serving |-> Shutdown] \in McpServer
    BY DEF McpServer
  <2>2. [phase |-> "idle", state |-> 0, on |-> 0, put |-> FALSE, answer |-> Shutdown] \in McpCall
    BY McpAssumption DEF McpCall
  <2>3. McpInit => mcpServer \in [Starts -> McpServer] /\ mcpCall \in [McpCalls -> McpCall]
    BY <2>1, <2>2 DEF McpInit
  <2>4. McpInit => mcpSent \in [McpCalls -> Nat]
    BY DEF McpInit
  <2>5. 0 \in 0..MaxStarts
    BY McpAssumption
  <2>6. McpInit => /\ mcpStarted \in BOOLEAN /\ mcpStopping \in BOOLEAN
                   /\ mcpLoop \in 0..MaxStarts /\ mcpStarts \in 0..MaxStarts
                   /\ mcpRunning \subseteq Starts
    BY <2>5 DEF McpInit
  <2> QED
    BY <2>3, <2>4, <2>6 DEF McpTypeOK
<1> QED
  BY <1>1, McpTypeKept, PTL

\* The variables of the client keep their types, the bounds on starts and requests included.
THEOREM McpTypeCorrect == McpSpec => []McpTypeOK
BY McpTypeAlways, PTL DEF McpSpec

-----------------------------------------------------------------------------
(* A call is at one place at most. *)

InNext(c, s, i) == i \in DOMAIN mcpServer'[s].queue /\ mcpServer'[s].queue[i] = c

OnePlace(c) ==
    \A s, t \in Starts, i, j \in Nat : In(c, s, i) /\ In(c, t, j) => s = t /\ i = j

QueuedIsUnsent(c) ==
    \A s \in Starts, i \in Nat : In(c, s, i) => mcpSent[c] = 0 /\ mcpCall[c].put = TRUE

ServedIsSent(c) == \A s \in Starts : Serving(s) = c => mcpSent[c] = 1

CallFits(c) ==
    /\ mcpSent[c] \in {0, 1}
    /\ mcpSent[c] = 1 => mcpCall[c].put = TRUE
    /\ mcpCall[c].put = TRUE => mcpCall[c].on # 0
    /\ mcpCall[c].phase \in {"idle", "checked", "refused", "raised"} => mcpCall[c].on = 0
    /\ mcpCall[c].phase = "answered" => mcpCall[c].answer = c /\ mcpSent[c] = 1

Sound(c) == OnePlace(c) /\ QueuedIsUnsent(c) /\ ServedIsSent(c) /\ CallFits(c)

\* Where a call can be after a queue has got one entry more, or has given its first one.
LEMMA QueueGets ==
    ASSUME McpTypeOK, NEW s \in Starts, NEW x \in McpCalls \cup {Shutdown},
           mcpServer'[s].queue = Append(Queue(s), x), NEW c, NEW i \in Nat
    PROVE InNext(c, s, i) => In(c, s, i) \/ (x = c /\ i = Len(Queue(s)) + 1)
<1>1. Queue(s) \in Seq(McpCalls \cup {Shutdown})
  BY McpFacts, ServerMoves DEF Queue
<1> QED
  BY <1>1 DEF InNext, In

LEMMA QueueGives ==
    ASSUME McpTypeOK, NEW s \in Starts, Queue(s) # <<>>, mcpServer'[s].queue = Tail(Queue(s)),
           NEW c, NEW i \in Nat
    PROVE InNext(c, s, i) => In(c, s, i + 1) /\ i > 0
<1>1. Queue(s) \in Seq(McpCalls \cup {Shutdown})
  BY McpFacts, ServerMoves DEF Queue
<1> QED
  BY <1>1 DEF InNext, In

\* A call that no queue gets and no server takes.
LEMMA StaysSound ==
    ASSUME NEW c \in McpCalls, Sound(c),
           \A s \in Starts, i \in Nat : InNext(c, s, i) => In(c, s, i),
           \A s \in Starts : mcpServer'[s].serving = c => Serving(s) = c,
           mcpSent'[c] = mcpSent[c], mcpCall'[c].put = mcpCall[c].put, CallFits(c)'
    PROVE Sound(c)'
<1>1. OnePlace(c)'
  BY DEF Sound, OnePlace, In, InNext, Queue
<1>2. QueuedIsUnsent(c)'
  BY DEF Sound, QueuedIsUnsent, In, InNext, Queue
<1>3. ServedIsSent(c)'
  BY DEF Sound, ServedIsSent, Serving
<1> QED
  BY <1>1, <1>2, <1>3 DEF Sound

\* A step of a server, or of stop, that sends nothing.
LEMMA ServersSound ==
    ASSUME McpTypeOK, NEW c \in McpCalls, Sound(c), UNCHANGED mcpSent, CallFits(c)',
           mcpCall'[c].put = mcpCall[c].put,
           NEW s \in Starts, NEW r \in McpServer, mcpServer' = [mcpServer EXCEPT ![s] = r],
           r.queue = Queue(s) \/ r.queue = Append(Queue(s), Shutdown),
           r.serving = Serving(s) \/ r.serving = Shutdown
    PROVE Sound(c)'
<1>1. mcpServer'[s] = r /\ \A t \in Starts \ {s} : mcpServer'[t] = mcpServer[t]
  BY ServerSet
<1>2. c # Shutdown
  BY McpAssumption DEF Shutdown
<1>3. ASSUME NEW t \in Starts, NEW i \in Nat, InNext(c, t, i) PROVE In(c, t, i)
  <2>1. CASE t # s \/ r.queue = Queue(s)
    BY <1>1, <1>3, <2>1 DEF InNext, In, Queue
  <2>2. CASE t = s /\ r.queue = Append(Queue(s), Shutdown)
    <3>1. mcpServer'[s].queue = Append(Queue(s), Shutdown) /\ InNext(c, s, i)
      BY <1>1, <1>3, <2>2
    <3>2. Shutdown \in McpCalls \cup {Shutdown}
      OBVIOUS
    <3>3. In(c, s, i) \/ Shutdown = c
      BY <3>1, <3>2, QueueGets
    <3> QED
      BY <1>2, <2>2, <3>3
  <2> QED
    BY <2>1, <2>2
<1>4. ASSUME NEW t \in Starts, mcpServer'[t].serving = c PROVE Serving(t) = c
  BY <1>1, <1>2, <1>4 DEF Serving
<1> QED
  BY <1>3, <1>4, StaysSound

\* The call that is taken was at the head of one queue, so it is in none now.
LEMMA TakesSound ==
    ASSUME McpTypeOK, NEW s \in Starts, McpTakes(s), NEW c \in McpCalls, Sound(c)
    PROVE Sound(c)'
<1> DEFINE r == Head(mcpServer[s].queue)
<1>1. /\ Queue(s) \in Seq(McpCalls \cup {Shutdown}) /\ Queue(s) # <<>>
      /\ r \in McpCalls \cup {Shutdown} /\ mcpServer[s] \in McpServer /\ UNCHANGED mcpCall
  BY McpFacts, ServerMoves, TakesHead DEF McpTakes, Queue
<1>2. /\ mcpServer'[s].queue = Tail(Queue(s)) /\ mcpServer'[s].serving = r
      /\ \A t \in Starts \ {s} : mcpServer'[t] = mcpServer[t]
  <2>1. Takes(mcpServer[s], r) \in McpServer /\ Takes(mcpServer[s], r).serving = r
        /\ Takes(mcpServer[s], r).queue = Tail(mcpServer[s].queue)
    BY <1>1, QueueMoves DEF Queue
  <2> QED
    BY <2>1, ServerDoes, ServerSet DEF Queue
<1>3. In(r, s, 1)
  BY <1>1 DEF In, Queue
<1>4. c # Shutdown
  BY McpAssumption DEF Shutdown
<1>5. ASSUME NEW t \in Starts, NEW i \in Nat, InNext(c, t, i)
      PROVE /\ t = s => In(c, s, i + 1) /\ i > 0
            /\ t # s => In(c, t, i)
  BY <1>1, <1>2, <1>5, QueueGives DEF InNext, In, Queue
<1>6. CASE c = r
  <2>1. mcpSent[c] = 0 /\ mcpCall[c].put = TRUE
    BY <1>3, <1>6 DEF Sound, QueuedIsUnsent
  <2>2. mcpSent'[c] = 1
    BY <1>4, <1>6, <2>1, TakesHead DEF McpTypeOK
  <2>3. \A t \in Starts, i \in Nat : ~InNext(c, t, i)
    <3> SUFFICES ASSUME NEW t \in Starts, NEW i \in Nat, InNext(c, t, i) PROVE FALSE
      OBVIOUS
    <3>1. CASE t = s
      <4>1. In(c, s, i + 1) /\ i > 0 /\ i + 1 \in Nat
        BY <1>5, <3>1
      <4> QED
        BY <4>1, <1>3, <1>6 DEF Sound, OnePlace
    <3>2. CASE t # s
      BY <1>3, <1>5, <1>6, <3>2 DEF Sound, OnePlace
    <3> QED
      BY <3>1, <3>2
  <2>4. OnePlace(c)' /\ QueuedIsUnsent(c)'
    BY <2>3 DEF OnePlace, QueuedIsUnsent, In, InNext, Queue
  <2>5. CallFits(c)'
    BY <1>1, <2>1, <2>2 DEF Sound, CallFits
  <2> QED
    BY <2>2, <2>4, <2>5 DEF Sound, ServedIsSent
<1>7. CASE c # r
  <2>1. mcpSent'[c] = mcpSent[c]
    BY <1>1, <1>7, TakesHead DEF McpTypeOK
  <2>2. OnePlace(c)'
    <3> SUFFICES ASSUME NEW t \in Starts, NEW u \in Starts, NEW i \in Nat, NEW j \in Nat,
                        InNext(c, t, i), InNext(c, u, j)
                 PROVE t = u /\ i = j
      BY DEF OnePlace, In, InNext, Queue
    <3>1. i + 1 \in Nat /\ j + 1 \in Nat
      OBVIOUS
    <3> QED
      BY <1>5, <3>1 DEF Sound, OnePlace
  <2>3. QueuedIsUnsent(c)'
    <3> SUFFICES ASSUME NEW t \in Starts, NEW i \in Nat, InNext(c, t, i)
                 PROVE mcpSent'[c] = 0 /\ mcpCall'[c].put = TRUE
      BY DEF QueuedIsUnsent, In, InNext, Queue
    <3>1. i + 1 \in Nat
      OBVIOUS
    <3> QED
      BY <1>1, <1>5, <2>1, <3>1 DEF Sound, QueuedIsUnsent
  <2>4. ServedIsSent(c)'
    BY <1>2, <1>7, <2>1 DEF Sound, ServedIsSent, Serving
  <2>5. CallFits(c)'
    BY <1>1, <2>1 DEF Sound, CallFits
  <2> QED
    BY <2>2, <2>3, <2>4, <2>5 DEF Sound
<1> QED
  BY <1>6, <1>7

\* The call that is put was in no queue before.
LEMMA PutsSound ==
    ASSUME McpTypeOK, NEW d \in McpCalls, McpPuts(d), NEW c \in McpCalls, Sound(c)
    PROVE Sound(c)'
<1>1. /\ mcpCall[d] \in McpCall /\ mcpCall[d].on # 0 /\ mcpCall[d].put # TRUE
      /\ UNCHANGED mcpSent
  <2>1. mcpRunning \subseteq Starts /\ 0 \notin Starts
    BY DEF McpTypeOK, Starts
  <2> QED
    BY <2>1, McpFacts DEF McpPuts
<1>2. /\ mcpCall'[d] = Placed(mcpCall[d])
      /\ \A e \in McpCalls \ {d} : mcpCall'[e] = mcpCall[e]
  BY <1>1, CallerDoes, CallMovesTyped, CallSet
<1>3. CallFits(c)'
  <2>1. CASE c = d
    <3>1. /\ mcpCall'[c].put = TRUE /\ mcpCall'[c].phase = mcpCall[c].phase
          /\ mcpCall'[c].on = mcpCall[c].on /\ mcpCall'[c].answer = mcpCall[c].answer
      BY <1>1, <1>2, <2>1, PlacedFields
    <3> QED
      BY <1>1, <2>1, <3>1 DEF Sound, CallFits
  <2>2. CASE c # d
    BY <1>1, <1>2, <2>2 DEF Sound, CallFits
  <2> QED
    BY <2>1, <2>2
<1>4. CASE mcpCall[d].state \notin Starts
  <2>1. mcpServer' = mcpServer
    BY <1>4, CallerDoes DEF McpTypeOK
  <2>2. \A s \in Starts, i \in Nat : InNext(c, s, i) => In(c, s, i)
    BY <2>1 DEF InNext, In, Queue
  <2>3. c = d => \A s \in Starts, i \in Nat : ~In(c, s, i)
    BY <1>1 DEF Sound, QueuedIsUnsent
  <2>4. CASE c = d
    BY <1>1, <1>3, <2>1, <2>2, <2>3, <2>4
       DEF Sound, OnePlace, QueuedIsUnsent, ServedIsSent, In, InNext, Queue, Serving
  <2>5. CASE c # d
    BY <1>1, <1>2, <1>3, <2>1, <2>2, <2>5, StaysSound DEF Serving
  <2> QED
    BY <2>4, <2>5
<1>5. CASE mcpCall[d].state \in Starts
  <2>1. PICK s \in Starts : s = mcpCall[d].state
    BY <1>5
  <2>2. /\ mcpServer'[s].queue = Append(Queue(s), d) /\ mcpServer'[s].serving = Serving(s)
        /\ \A t \in Starts \ {s} : mcpServer'[t] = mcpServer[t]
    <3>1. mcpServer' = [mcpServer EXCEPT ![s] = Puts(mcpServer[s], d)]
      BY <2>1, CallerDoes
    <3>2. /\ Puts(mcpServer[s], d) \in McpServer /\ Puts(mcpServer[s], d).serving = Serving(s)
          /\ Puts(mcpServer[s], d).queue = Append(Queue(s), d)
      BY McpFacts, QueueMoves DEF Queue, Serving
    <3> QED
      BY <3>1, <3>2, ServerSet
  <2>3. ASSUME NEW t \in Starts, NEW i \in Nat, InNext(c, t, i)
        PROVE In(c, t, i) \/ (c = d /\ t = s /\ i = Len(Queue(s)) + 1)
    <3>1. CASE t = s
      <4>1. mcpServer'[s].queue = Append(Queue(s), d) /\ InNext(c, s, i)
        BY <2>2, <2>3, <3>1
      <4>2. In(c, s, i) \/ (d = c /\ i = Len(Queue(s)) + 1)
        BY <4>1, QueueGets
      <4> QED
        BY <3>1, <4>2
    <3>2. CASE t # s
      BY <2>2, <2>3, <3>2 DEF InNext, In, Queue
    <3> QED
      BY <3>1, <3>2
  <2>4. ServedIsSent(c)'
    BY <1>1, <2>2 DEF Sound, ServedIsSent, Serving
  <2>5. CASE c = d
    <3>1. \A t \in Starts, i \in Nat : ~In(c, t, i)
      BY <1>1, <2>5 DEF Sound, QueuedIsUnsent
    <3>2. OnePlace(c)'
      BY <2>3, <3>1 DEF OnePlace, In, InNext, Queue
    <3>3. mcpSent'[c] = 0 /\ mcpCall'[c].put = TRUE
      BY <1>1, <1>2, <2>5, PlacedFields DEF Sound, CallFits
    <3> QED
      BY <1>3, <2>4, <3>2, <3>3 DEF Sound, QueuedIsUnsent
  <2>6. CASE c # d
    BY <1>1, <1>2, <1>3, <2>2, <2>3, <2>6, StaysSound DEF Serving
  <2> QED
    BY <2>5, <2>6
<1> QED
  BY <1>4, <1>5

\* A caller's own steps touch neither queues nor servers.
LEMMA CallersSound ==
    ASSUME McpTypeOK, NEW d \in McpCalls, McpChecks(d) \/ McpSubmits(d) \/ McpTimesOut(d),
           NEW c \in McpCalls, Sound(c)
    PROVE Sound(c)'
<1>1. UNCHANGED <<mcpServer, mcpSent>>
  BY DEF McpChecks, McpSubmits, McpTimesOut
<1>2. mcpLoop \in 0..MaxStarts
  BY DEF McpTypeOK
<1>3. CASE c # d
  <2>1. mcpCall'[c] = mcpCall[c]
    BY <1>2, <1>3, CallerDoes, McpFacts, CallMovesTyped, CallSet
  <2> QED
    BY <1>1, <2>1, StaysSound DEF Sound, CallFits, In, InNext, Queue, Serving
<1>4. CASE c = d
  <2>1. mcpCall[c] \in McpCall
    BY McpFacts
  <2>2. CASE McpChecks(c)
    <3>1. mcpCall'[c] = Checks(mcpCall[c], mcpLoop) \/ mcpCall'[c] = EndsAs(mcpCall[c], "refused")
      BY <1>2, <2>1, <2>2, CallerDoes, CallMovesTyped, CallSet
    <3>2. mcpCall[c].phase = "idle"
      BY <2>2 DEF McpChecks
    <3>3. /\ mcpCall'[c].put = mcpCall[c].put /\ mcpCall'[c].on = mcpCall[c].on
          /\ mcpCall'[c].phase \in {"checked", "refused"}
      BY <2>1, <3>1, ChecksFields, EndsFields
    <3>4. CallFits(c)'
      BY <1>1, <3>2, <3>3 DEF Sound, CallFits
    <3> QED
      BY <1>1, <3>3, <3>4, StaysSound DEF In, InNext, Queue, Serving
  <2>3. CASE McpSubmits(c)
    <3>1. mcpCall[c].phase = "checked"
      BY <2>3 DEF McpSubmits
    <3>2. \/ mcpLoop # 0 /\ mcpCall'[c] = Submits(mcpCall[c], mcpLoop)
          \/ mcpCall'[c] = EndsAs(mcpCall[c], "raised")
      <4>1. CASE mcpLoop = 0
        <5>1. mcpCall' = [mcpCall EXCEPT ![c] = EndsAs(mcpCall[c], "raised")]
          BY <2>3, <4>1 DEF McpSubmits, EndsAs
        <5> QED
          BY <2>1, <5>1, CallMovesTyped, CallSet
      <4>2. CASE mcpLoop # 0
        <5>1. mcpCall' = [mcpCall EXCEPT ![c] = Submits(mcpCall[c], mcpLoop)]
          BY <2>3, <4>2 DEF McpSubmits, Submits
        <5> QED
          BY <1>2, <2>1, <4>2, <5>1, CallMovesTyped, CallSet
      <4> QED
        BY <4>1, <4>2
    <3>3. /\ mcpCall'[c].put = mcpCall[c].put
          /\ \/ mcpCall'[c].phase = "waiting" /\ mcpCall'[c].on # 0
             \/ mcpCall'[c].phase = "raised" /\ mcpCall'[c].on = mcpCall[c].on
      BY <2>1, <3>2, SubmitsFields, EndsFields
    <3>4. CallFits(c)'
      BY <1>1, <3>1, <3>3 DEF Sound, CallFits
    <3> QED
      BY <1>1, <3>3, <3>4, StaysSound DEF In, InNext, Queue, Serving
  <2>4. CASE McpTimesOut(c)
    <3>1. mcpCall'[c] = EndsAs(mcpCall[c], "timedOut")
      BY <2>1, <2>4, CallerDoes, CallMovesTyped, CallSet
    <3>2. /\ mcpCall'[c].put = mcpCall[c].put /\ mcpCall'[c].on = mcpCall[c].on
          /\ mcpCall'[c].phase = "timedOut"
      BY <2>1, <3>1, EndsFields
    <3>3. CallFits(c)'
      BY <1>1, <3>2 DEF Sound, CallFits
    <3> QED
      BY <1>1, <3>2, <3>3, StaysSound DEF In, InNext, Queue, Serving
  <2> QED
    BY <1>4, <2>2, <2>3, <2>4
<1> QED
  BY <1>3, <1>4

\* The future of the call that was served is set; it was sent.
LEMMA AnswersSound ==
    ASSUME McpTypeOK, NEW s \in Starts, McpAnswers(s), NEW c \in McpCalls, Sound(c)
    PROVE Sound(c)'
<1>1. /\ mcpServer' = [mcpServer EXCEPT ![s] = Frees(mcpServer[s])] /\ UNCHANGED mcpSent
      /\ Frees(mcpServer[s]) \in McpServer
      /\ Frees(mcpServer[s]).queue = Queue(s) /\ Frees(mcpServer[s]).serving = Shutdown
  BY McpFacts, ServerDoes, ServerMoves DEF McpAnswers, Queue
<1>2. PICK k \in McpCalls :
         /\ k = Serving(s)
         /\ \/ mcpCall' = mcpCall
            \/ /\ mcpCall[k].phase = "waiting"
               /\ mcpCall' = [mcpCall EXCEPT ![k] = Answered(mcpCall[k], k)]
  BY AnswerDoes
<1>3. CASE mcpCall'[c] = mcpCall[c]
  BY <1>1, <1>3, ServersSound DEF Sound, CallFits
<1>4. CASE mcpCall'[c] # mcpCall[c]
  <2>1. mcpCall' = [mcpCall EXCEPT ![k] = Answered(mcpCall[k], k)] /\ mcpCall[k] \in McpCall
    BY <1>2, <1>4, McpFacts
  <2>2. c = k /\ mcpCall'[c] = Answered(mcpCall[c], c)
    BY <1>4, <2>1, CallMovesTyped, CallSet
  <2>3. /\ mcpCall'[c].phase = "answered" /\ mcpCall'[c].answer = c
        /\ mcpCall'[c].on = mcpCall[c].on /\ mcpCall'[c].put = mcpCall[c].put
    BY <2>1, <2>2, AnsweredFields
  <2>4. mcpSent[c] = 1
    BY <1>2, <2>2 DEF Sound, ServedIsSent
  <2>5. CallFits(c)'
    BY <1>1, <2>3, <2>4 DEF Sound, CallFits
  <2> QED
    BY <1>1, <2>3, <2>5, ServersSound
<1> QED
  BY <1>3, <1>4

LEMMA SoundKept ==
    ASSUME McpTypeOK, [McpNext]_mcpVars, NEW c \in McpCalls, Sound(c)
    PROVE Sound(c)'
<1>q. UNCHANGED <<mcpCall, mcpSent>> => CallFits(c)' /\ mcpCall'[c].put = mcpCall[c].put
  BY DEF Sound, CallFits
<1>1. CASE \E ok \in BOOLEAN : McpStart(ok)
  <2>1. PICK s \in Starts : mcpServer' = [mcpServer EXCEPT ![s] = Spawned(mcpServer[s])]
    BY <1>1, StartDoes
  <2>2. /\ Spawned(mcpServer[s]) \in McpServer
        /\ Spawned(mcpServer[s]).queue = Queue(s) /\ Spawned(mcpServer[s]).serving = Serving(s)
    BY McpFacts, ServerMoves DEF Queue, Serving
  <2> QED
    BY <1>1, <1>q, <2>1, <2>2, ServersSound DEF McpStart
<1>2. CASE McpStartEmpty \/ McpStopEnds \/ UNCHANGED mcpVars
  <2>1. UNCHANGED <<mcpServer, mcpCall, mcpSent>>
    BY <1>2 DEF McpStartEmpty, McpStopEnds, mcpVars
  <2> QED
    BY <1>q, <2>1, StaysSound DEF In, InNext, Queue, Serving
<1>3. CASE McpStopBegins
  <2>1. PICK s \in Starts : mcpServer' = [mcpServer EXCEPT ![s] = Puts(mcpServer[s], Shutdown)]
    BY <1>3, StopDoes
  <2>2. /\ Puts(mcpServer[s], Shutdown) \in McpServer
        /\ Puts(mcpServer[s], Shutdown).queue = Append(Queue(s), Shutdown)
        /\ Puts(mcpServer[s], Shutdown).serving = Serving(s)
    BY McpFacts, QueueMoves DEF Queue, Serving
  <2> QED
    BY <1>3, <1>q, <2>1, <2>2, ServersSound DEF McpStopBegins
<1>4. ASSUME NEW s \in Starts, NEW ok \in BOOLEAN, McpConnects(s, ok) PROVE Sound(c)'
  <2>1. /\ mcpServer' = [mcpServer EXCEPT ![s] = Connects(mcpServer[s], ok)]
        /\ Connects(mcpServer[s], ok) \in McpServer
        /\ Connects(mcpServer[s], ok).queue = Queue(s)
        /\ Connects(mcpServer[s], ok).serving = Serving(s)
    BY <1>4, McpFacts, ServerDoes, ServerMoves DEF Queue, Serving
  <2> QED
    BY <1>4, <1>q, <2>1, ServersSound DEF McpConnects
<1>5. ASSUME NEW s \in Starts, McpCrashes(s) PROVE Sound(c)'
  <2>1. /\ mcpServer' = [mcpServer EXCEPT ![s] = Crashed(mcpServer[s])]
        /\ Crashed(mcpServer[s]) \in McpServer
        /\ Crashed(mcpServer[s]).queue = Queue(s) /\ Crashed(mcpServer[s]).serving = Shutdown
    BY <1>5, McpFacts, ServerDoes, ServerMoves DEF Queue
  <2> QED
    BY <1>5, <1>q, <2>1, ServersSound DEF McpCrashes
<1> QED
  BY <1>1, <1>2, <1>3, <1>4, <1>5, TakesSound, AnswersSound, CallersSound, PutsSound DEF McpNext

LEMMA McpCallsAlways == McpInit /\ [][McpNext]_mcpVars => []McpSentOnce
<1>1. McpInit => \A c \in McpCalls : Sound(c)
  BY McpAssumption DEF McpInit, Sound, OnePlace, QueuedIsUnsent, ServedIsSent, CallFits, In, Queue,
     Serving, Shutdown
<1>2. McpTypeOK /\ (\A c \in McpCalls : Sound(c)) /\ [McpNext]_mcpVars
        => (\A c \in McpCalls : Sound(c))'
  BY SoundKept
<1>3. (\A c \in McpCalls : Sound(c)) => McpSentOnce
  BY DEF Sound, CallFits, McpSentOnce
<1> QED
  BY <1>1, <1>2, <1>3, McpTypeAlways, PTL

\* No call is sent twice, whatever times out, dies or is started again; what was refused or
\* raised is never sent, and what is answered is the caller's own request.
THEOREM McpCallsCorrect == McpSpec => []McpSentOnce
BY McpCallsAlways, PTL DEF McpSpec

-----------------------------------------------------------------------------
(* A queue with something in it, and the state a caller looked up, belong to the loop the client *)
(* is on, unless that loop has been stopped; and stopped loops never run again.                  *)

Current(s) == s <= mcpStarts /\ (s \in mcpRunning => s = mcpLoop /\ mcpStarted = TRUE)

Final ==
    /\ mcpLoop <= mcpStarts
    /\ mcpStopping = TRUE => mcpStarted = TRUE
    /\ \A c \in McpCalls : mcpCall[c].state # 0 => Current(mcpCall[c].state)
    /\ \A s \in Starts : Queue(s) # <<>> => Current(s)

\* What is current stays current through starts and stops.
LEMMA StaysCurrent ==
    ASSUME McpTypeOK, Final, NEW s \in 0..MaxStarts, Current(s), [McpNext]_mcpVars
    PROVE Current(s)'
<1> USE McpAssumption DEF McpTypeOK, Current
<1>1. CASE \E ok \in BOOLEAN : McpStart(ok)
  BY <1>1 DEF McpStart, Starts
<1>2. CASE McpStartEmpty
  BY <1>2 DEF McpStartEmpty, Starts
<1>3. CASE McpStopEnds
  BY <1>3 DEF McpStopEnds, Starts
<1>4. CASE UNCHANGED <<mcpStarts, mcpRunning, mcpLoop, mcpStarted>>
  BY <1>4
<1> QED
  BY <1>1, <1>2, <1>3, <1>4
     DEF McpNext, mcpVars, McpStopBegins, McpConnects, McpTakes, McpAnswers, McpCrashes,
         McpChecks, McpSubmits, McpPuts, McpTimesOut

\* A step puts only into queues that are current, and looks up only what is.
LEMMA FinalParts ==
    ASSUME McpTypeOK, Final, [McpNext]_mcpVars
    PROVE /\ \A c \in McpCalls : \/ mcpCall'[c].state = mcpCall[c].state
                                 \/ mcpCall'[c].state \in 0..MaxStarts /\ Current(mcpCall'[c].state)
          /\ \A s \in Starts : mcpServer'[s].queue # <<>> => Queue(s) # <<>> \/ Current(s)
<1>s. ASSUME UNCHANGED mcpServer
      PROVE \A s \in Starts : mcpServer'[s].queue # <<>> => Queue(s) # <<>> \/ Current(s)
  BY <1>s DEF Queue
<1>c. ASSUME UNCHANGED mcpCall
      PROVE \A c \in McpCalls : mcpCall'[c].state = mcpCall[c].state
  BY <1>c
<1>w. ASSUME NEW s \in Starts, NEW r \in McpServer, mcpServer' = [mcpServer EXCEPT ![s] = r],
             r.queue # <<>> => Queue(s) # <<>> \/ Current(s)
      PROVE \A t \in Starts : mcpServer'[t].queue # <<>> => Queue(t) # <<>> \/ Current(t)
  BY <1>w, ServerSet DEF Queue
<1>1. CASE \E ok \in BOOLEAN : McpStart(ok)
  <2>1. PICK s \in Starts : mcpServer' = [mcpServer EXCEPT ![s] = Spawned(mcpServer[s])]
    BY <1>1, StartDoes
  <2>2. Spawned(mcpServer[s]) \in McpServer /\ Spawned(mcpServer[s]).queue = Queue(s)
    BY McpFacts, ServerMoves DEF Queue
  <2> QED
    BY <1>1, <1>c, <1>w, <2>1, <2>2 DEF McpStart
<1>2. CASE McpStartEmpty \/ McpStopEnds \/ UNCHANGED mcpVars
  BY <1>2, <1>s, <1>c DEF McpStartEmpty, McpStopEnds, mcpVars
<1>3. CASE McpStopBegins
  <2>1. PICK s \in Starts : s = mcpLoop
    BY <1>3, StopDoes
  <2>2. /\ mcpServer' = [mcpServer EXCEPT ![s] = Puts(mcpServer[s], Shutdown)]
        /\ Puts(mcpServer[s], Shutdown) \in McpServer
    BY <1>3, <2>1, StopDoes, McpFacts, QueueMoves
  <2>3. Current(s)
    BY <1>3, <2>1 DEF McpStopBegins, Current, Final
  <2> QED
    BY <1>3, <1>c, <1>w, <2>2, <2>3 DEF McpStopBegins
<1>4. ASSUME NEW s \in Starts,
             (\E ok \in BOOLEAN : McpConnects(s, ok)) \/ McpCrashes(s) \/ McpTakes(s)
      PROVE /\ UNCHANGED mcpCall
            /\ \A t \in Starts : mcpServer'[t].queue # <<>> => Queue(t) # <<>> \/ Current(t)
  <2>1. UNCHANGED mcpCall
    BY <1>4 DEF McpConnects, McpCrashes, McpTakes
  <2>2. CASE \E ok \in BOOLEAN : McpConnects(s, ok)
    <3>1. PICK ok \in BOOLEAN : mcpServer' = [mcpServer EXCEPT ![s] = Connects(mcpServer[s], ok)]
      BY <2>2, ServerDoes
    <3>2. Connects(mcpServer[s], ok) \in McpServer /\ Connects(mcpServer[s], ok).queue = Queue(s)
      BY McpFacts, ServerMoves DEF Queue
    <3>3. \A t \in Starts : mcpServer'[t].queue # <<>> => Queue(t) # <<>> \/ Current(t)
      BY <1>w, <3>1, <3>2
    <3> QED
      BY <2>1, <3>3
  <2>3. CASE McpCrashes(s)
    <3>1. /\ mcpServer' = [mcpServer EXCEPT ![s] = Crashed(mcpServer[s])]
          /\ Crashed(mcpServer[s]) \in McpServer /\ Crashed(mcpServer[s]).queue = Queue(s)
      BY <2>3, McpFacts, ServerDoes, ServerMoves DEF Queue
    <3>2. \A t \in Starts : mcpServer'[t].queue # <<>> => Queue(t) # <<>> \/ Current(t)
      BY <1>w, <3>1
    <3> QED
      BY <2>1, <3>2
  <2>4. CASE McpTakes(s)
    <3>1. Queue(s) # <<>> /\ Takes(mcpServer[s], Head(mcpServer[s].queue)) \in McpServer
      BY <2>4, McpFacts, TakesHead, QueueMoves DEF McpTakes, Queue
    <3>2. mcpServer' = [mcpServer EXCEPT ![s] =
                             Takes(mcpServer[s], Head(mcpServer[s].queue))]
      BY <2>4, ServerDoes
    <3>3. \A t \in Starts : mcpServer'[t].queue # <<>> => Queue(t) # <<>> \/ Current(t)
      BY <1>w, <3>1, <3>2
    <3> QED
      BY <2>1, <3>3
  <2> QED
    BY <1>4, <2>1, <2>2, <2>3, <2>4
<1>5. ASSUME NEW s \in Starts, McpAnswers(s)
      PROVE /\ \A c \in McpCalls : mcpCall'[c].state = mcpCall[c].state
            /\ \A t \in Starts : mcpServer'[t].queue # <<>> => Queue(t) # <<>> \/ Current(t)
  <2>1. \A t \in Starts : mcpServer'[t].queue # <<>> => Queue(t) # <<>> \/ Current(t)
    BY <1>5, <1>w, McpFacts, ServerDoes, ServerMoves DEF Queue
  <2>2. PICK k \in McpCalls :
           mcpCall' = mcpCall \/ mcpCall' = [mcpCall EXCEPT ![k] = Answered(mcpCall[k], k)]
    BY <1>5, AnswerDoes
  <2>3. CASE mcpCall' = [mcpCall EXCEPT ![k] = Answered(mcpCall[k], k)]
    <3>1. mcpCall[k] \in McpCall /\ Answered(mcpCall[k], k) \in McpCall
      BY McpFacts, CallMovesTyped
    <3>2. Answered(mcpCall[k], k).state = mcpCall[k].state
      BY <3>1, AnsweredFields
    <3> QED
      BY <2>1, <2>3, <3>1, <3>2, CallSet
  <2> QED
    BY <1>c, <2>1, <2>2, <2>3
<1>6. ASSUME NEW d \in McpCalls, McpChecks(d) \/ McpSubmits(d) \/ McpTimesOut(d)
      PROVE /\ UNCHANGED mcpServer
            /\ \A c \in McpCalls :
                  \/ mcpCall'[c].state = mcpCall[c].state
                  \/ mcpCall'[c].state \in 0..MaxStarts /\ Current(mcpCall'[c].state)
  <2>1. UNCHANGED mcpServer
    BY <1>6 DEF McpChecks, McpSubmits, McpTimesOut
  <2>2. mcpCall[d] \in McpCall /\ mcpLoop \in 0..MaxStarts
    BY McpFacts DEF McpTypeOK
  <2>3. PICK k \in McpCall :
           /\ mcpCall' = [mcpCall EXCEPT ![d] = k]
           /\ k.state = mcpCall[d].state \/ (k.state = mcpLoop /\ Current(mcpLoop))
    <3>1. CASE McpChecks(d)
      <4>1. CASE mcpStarted /\ mcpLoop # 0 /\ mcpServer[mcpLoop].connected
        <5>1. mcpCall' = [mcpCall EXCEPT ![d] = Checks(mcpCall[d], mcpLoop)]
          BY <3>1, <4>1 DEF McpChecks, Checks
        <5>2. Current(mcpLoop)
          BY <4>1 DEF Current, Final, McpTypeOK
        <5> QED
          <6>1. Checks(mcpCall[d], mcpLoop) \in McpCall
            BY <2>2, CallMovesTyped
          <6>2. Checks(mcpCall[d], mcpLoop).state = mcpLoop
            BY <2>2, ChecksFields
          <6> QED
            BY <5>1, <5>2, <6>1, <6>2
      <4>2. CASE ~(mcpStarted /\ mcpLoop # 0 /\ mcpServer[mcpLoop].connected)
        <5>1. mcpCall' = [mcpCall EXCEPT ![d] = EndsAs(mcpCall[d], "refused")]
          BY <3>1, <4>2 DEF McpChecks, EndsAs
        <5> QED
          BY <2>2, <5>1, CallMovesTyped, EndsFields
      <4> QED
        BY <4>1, <4>2
    <3>2. CASE McpSubmits(d)
      BY <2>2, <3>2, CallerDoes, CallMovesTyped, SubmitsFields, EndsFields
    <3>3. CASE McpTimesOut(d)
      BY <2>2, <3>3, CallerDoes, CallMovesTyped, EndsFields
    <3> QED
      BY <1>6, <3>1, <3>2, <3>3
  <2> QED
    BY <2>1, <2>2, <2>3, CallSet
<1>7. ASSUME NEW d \in McpCalls, McpPuts(d)
      PROVE /\ \A c \in McpCalls : mcpCall'[c].state = mcpCall[c].state
            /\ \A t \in Starts : mcpServer'[t].queue # <<>> => Queue(t) # <<>> \/ Current(t)
  <2>1. \A c \in McpCalls : mcpCall'[c].state = mcpCall[c].state
    <3>1. mcpCall[d] \in McpCall /\ Placed(mcpCall[d]) \in McpCall
      BY McpFacts, CallMovesTyped
    <3>2. Placed(mcpCall[d]).state = mcpCall[d].state
      BY <3>1, PlacedFields
    <3> QED
      BY <1>7, <3>1, <3>2, CallerDoes, CallSet
  <2>2. CASE mcpCall[d].state \notin Starts
    <3>1. mcpServer' = mcpServer
      BY <1>7, <2>2, CallerDoes DEF McpTypeOK
    <3> QED
      BY <1>s, <2>1, <3>1
  <2>3. CASE mcpCall[d].state \in Starts
    <3>1. PICK s \in Starts : s = mcpCall[d].state
      BY <2>3
    <3>2. s # 0
      BY DEF Starts
    <3>3. Current(s)
      BY <3>1, <3>2 DEF Final
    <3>4. /\ mcpServer' = [mcpServer EXCEPT ![s] = Puts(mcpServer[s], d)]
          /\ Puts(mcpServer[s], d) \in McpServer
      BY <1>7, <3>1, CallerDoes, McpFacts, QueueMoves
    <3> QED
      BY <1>w, <2>1, <3>3, <3>4
  <2> QED
    BY <2>2, <2>3
<1> QED
  BY <1>1, <1>2, <1>3, <1>4, <1>5, <1>6, <1>7, <1>s, <1>c DEF McpNext

LEMMA McpStopAlways == McpInit /\ [][McpNext]_mcpVars => McpStopIsFinal
<1>1. McpInit => Final
  BY DEF McpInit, Final, Queue
<1>2. McpTypeOK /\ Final /\ [McpNext]_mcpVars => Final'
  <2> SUFFICES ASSUME McpTypeOK, Final, [McpNext]_mcpVars PROVE Final'
    OBVIOUS
  <2>1. mcpLoop' <= mcpStarts' /\ (mcpStopping' = TRUE => mcpStarted' = TRUE)
    <3>1. mcpStarts \in Nat /\ mcpLoop \in Nat /\ mcpLoop <= mcpStarts
          /\ mcpStopping \in BOOLEAN /\ mcpStarted \in BOOLEAN
      BY McpAssumption DEF McpTypeOK, Final
    <3>2. CASE (\E ok \in BOOLEAN : McpStart(ok)) \/ McpStartEmpty
      BY <3>1, <3>2 DEF McpStart, McpStartEmpty, Final
    <3>3. CASE McpStopBegins \/ McpStopEnds
      BY <3>1, <3>3 DEF McpStopBegins, McpStopEnds
    <3>4. CASE UNCHANGED <<mcpStarts, mcpLoop, mcpStopping, mcpStarted>>
      BY <3>1, <3>4 DEF Final
    <3> QED
      BY <3>2, <3>3, <3>4
         DEF McpNext, mcpVars, McpConnects, McpTakes, McpAnswers, McpCrashes, McpChecks,
             McpSubmits, McpPuts, McpTimesOut
  <2>2. ASSUME NEW c \in McpCalls, mcpCall'[c].state # 0 PROVE Current(mcpCall[c].state)'
    <3>1. mcpCall'[c].state \in 0..MaxStarts /\ Current(mcpCall'[c].state)
      <4>1. mcpCall[c].state \in 0..MaxStarts
        BY McpFacts DEF McpCall
      <4> QED
        BY <2>2, <4>1, FinalParts DEF Final
    <3> QED
      BY <3>1, StaysCurrent DEF Current
  <2>3. ASSUME NEW s \in Starts, mcpServer'[s].queue # <<>> PROVE Current(s)'
    <3>1. Current(s)
      BY <2>3, FinalParts DEF Final
    <3>2. s \in 0..MaxStarts
      BY McpAssumption DEF Starts
    <3> QED
      BY <3>1, <3>2, StaysCurrent
  <2> QED
    BY <2>1, <2>2, <2>3 DEF Final, Queue
<1>3. McpTypeOK /\ Final /\ [McpNext]_mcpVars => [mcpSent' # mcpSent => mcpStarted]_mcpVars
  <2> SUFFICES ASSUME McpTypeOK, Final, [McpNext]_mcpVars, mcpSent' # mcpSent
               PROVE mcpStarted
    OBVIOUS
  <2>1. \E s \in Starts : McpTakes(s)
    BY DEF McpNext, mcpVars, McpStart, McpStartEmpty, McpStopBegins, McpStopEnds, McpConnects,
           McpAnswers, McpCrashes, McpChecks, McpSubmits, McpPuts, McpTimesOut
  <2> QED
    BY <2>1 DEF McpTakes, Final, Current, Queue
<1> QED
  BY <1>1, <1>2, <1>3, McpTypeAlways, PTL DEF McpStopIsFinal

\* Requests whose callers gave up are still sent, but none once stop has returned.
THEOREM McpStopCorrect == McpSpec => McpStopIsFinal
BY McpStopAlways, PTL DEF McpSpec
=============================================================================
