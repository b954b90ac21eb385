------------------------------ MODULE EventStream ------------------------------
(***************************************************************************)
(* The live timeline of a task: record_event and set_task_status           *)
(* (services/events.py) write event rows, _task_event_stream               *)
(* (api/tasks.py) polls them for a connection, and useTaskStream           *)
(* (web/src/lib/useTaskStream.ts) refetches the task when it is told.      *)
(*                                                                         *)
(* An event is its created_at, taken when the row is flushed, not when it  *)
(* is committed, and the place of its id, a random uuid, among those of    *)
(* one time.  Of two writers the one that waits for the lock of the        *)
(* database commits an event older than one that can be read already; and  *)
(* of two events with one time the second may have the smaller id.         *)
(***************************************************************************)
EXTENDS Integers, Sequences, FiniteSets

CONSTANTS
    Writers,      \* sessions that write: pipeline, operators, watchdog
    MaxTimes,     \* bound: times at which rows are flushed
    MaxIds,       \* bound: ids of one time
    MaxEvents,    \* bound: rows
    MaxDrops      \* bound: broken connections

ASSUME StreamAssumption ==
    /\ MaxTimes \in Nat /\ MaxIds \in Nat
    /\ MaxEvents \in Nat /\ MaxDrops \in Nat

VARIABLES
    clock,      \* the latest created_at
    flushed,    \* the row a writer has flushed: the event, the status with it
    rows,       \* committed events
    late,       \* events committed after one that is ordered behind them
    state,      \* committed task.status
    conn,       \* the connection on the server
    hook,       \* the state of useTaskStream and of the queries it invalidates
    drops

streamVars == <<clock, flushed, rows, late, state, conn, hook, drops>>

TERMINAL_STATUSES == {"completed"}          \* FAILED and ROLLED_BACK alike
PAUSED_STATUSES == {"awaiting_approval"}
States == {"executing", "stale_failed"} \cup TERMINAL_STATUSES \cup PAUSED_STATUSES
Same == "same"                              \* record_event without a status

Events == [at : 1..MaxTimes, id : 1..MaxIds]
NoEvent == [at |-> 0, id |-> 0]
Cursors == Events \cup {NoEvent}

StreamTypeOK ==
    /\ clock \in 0..MaxTimes
    /\ flushed \in [Writers -> [event : Cursors, status : States \cup {Same}]]
    /\ rows \subseteq Events /\ late \subseteq rows
    /\ state \in States
    /\ conn \in [phase : {"none", "sleep", "read", "closing", "closed"},
                 cursor : Cursors, status : States, sent : Seq(SUBSET Events),
                 reason : {"none", "terminal", "stream_timeout"}]
    /\ hook \in [view : States, fetch : BOOLEAN, paused : BOOLEAN, done : BOOLEAN]
    /\ drops \in 0..MaxDrops

StreamInit ==
    /\ clock = 0 /\ flushed = [w \in Writers |-> [event |-> NoEvent, status |-> Same]]
    /\ rows = {} /\ late = {} /\ state = "executing"
    /\ conn = [phase |-> "none", cursor |-> NoEvent, status |-> state, sent |-> <<>>,
               reason |-> "none"]
    /\ hook = [view |-> state, fetch |-> FALSE, paused |-> FALSE, done |-> FALSE]
    /\ drops = 0

-----------------------------------------------------------------------------
(* Writers. *)

(* ORDER BY created_at, id. *)
Before(e, f) == e.at < f.at \/ (e.at = f.at /\ e.id < f.id)

Pending == {flushed[w].event : w \in Writers} \ {NoEvent}

(* A new row of the time it is, or of a later one; no row has the id of another. *)
IsNew(e) ==
    /\ e \in Events /\ e.at \in {clock, clock + 1}
    /\ e \notin rows \cup Pending

Flush(w, e, s) ==
    /\ flushed[w].event = NoEvent /\ IsNew(e)
    /\ Cardinality(rows) + Cardinality(Pending) < MaxEvents
    /\ clock' = e.at
    /\ flushed' = [flushed EXCEPT ![w] = [event |-> e, status |-> s]]
    /\ UNCHANGED <<rows, late, state, conn, hook, drops>>

CommitEvent(w) ==
    /\ flushed[w].event # NoEvent
    /\ rows' = rows \cup {flushed[w].event}
    /\ late' = IF \E r \in rows : Before(flushed[w].event, r)
               THEN late \cup {flushed[w].event} ELSE late
    /\ state' = IF flushed[w].status = Same THEN state ELSE flushed[w].status
    /\ flushed' = [flushed EXCEPT ![w].event = NoEvent]
    /\ UNCHANGED <<clock, conn, hook, drops>>

(* The lock is lost: the event is made anew, with the time of the retry and another id; the *)
(* status the session had pending went with the rollback.                                     *)
FlushAgain(w, e) ==
    /\ flushed[w].event # NoEvent /\ IsNew(e)
    /\ clock' = e.at
    /\ flushed' = [flushed EXCEPT ![w] = [event |-> e, status |-> Same]]
    /\ UNCHANGED <<rows, late, state, conn, hook, drops>>

-----------------------------------------------------------------------------
(* The connection. *)

(* Mutant: the time alone is compared. *)
AboveTime(S, c) == {e \in S : e.at > c.at}

(* The rows behind the cursor: later ones, and of its time those with a greater id. *)
Above(S, c) == {e \in S : e.at > c.at \/ (e.at = c.at /\ e.id > c.id)}

(* The rows of one query are sent in their order: what a connection was sent is a sequence of *)
(* queries, each the set it sent.                                                              *)
Sent(queries, new) == IF new = {} THEN queries ELSE Append(queries, new)

Newest(S, c) == CHOOSE m \in S \cup {c} : \A e \in S \cup {c} : ~Before(m, e)

Refetched(h) == [h EXCEPT !.fetch = TRUE]

(* The snapshot: the task and all its events; a reconnect starts over from it. *)
Connect ==
    /\ conn.phase = "none" /\ ~hook.done
    /\ conn' = [phase |-> "sleep", cursor |-> Newest(rows, NoEvent), status |-> state,
                sent |-> Sent(<<>>, Above(rows, NoEvent)), reason |-> "none"]
    /\ hook' = Refetched(hook)
    /\ UNCHANGED <<clock, flushed, rows, late, state, drops>>

(* A tick reads the task, and says so when its status is another than before. *)
ReadTask ==
    /\ conn.phase = "sleep"
    /\ conn' = [conn EXCEPT !.phase = "read", !.status = state]
    /\ hook' = IF state # conn.status THEN Refetched(hook) ELSE hook
    /\ UNCHANGED <<clock, flushed, rows, late, state, drops>>

(* Mutant: only a change of status that a tick sees makes the page fetch. *)
ReadEventsSilently ==
    /\ conn.phase = "read"
    /\ conn' = [conn EXCEPT !.sent = Sent(@, Above(rows, conn.cursor)),
                            !.cursor = Newest(rows, @),
                            !.phase = IF conn.status \in TERMINAL_STATUSES
                                      THEN "closing" ELSE "sleep",
                            !.reason = IF conn.status \in TERMINAL_STATUSES
                                       THEN "terminal" ELSE "none"]
    /\ hook' = [hook EXCEPT !.paused = @ \/ conn.status \in PAUSED_STATUSES]
    /\ UNCHANGED <<clock, flushed, rows, late, state, drops>>

(* Then the events, by a query of their own.  The status that ends or pauses the stream *)
(* is the one read before.                                                               *)
ReadEvents ==
    /\ conn.phase = "read"
    /\ LET new == Above(rows, conn.cursor) IN
       /\ conn' = [conn EXCEPT !.sent = Sent(@, new), !.cursor = Newest(rows, @),
                               !.phase = IF conn.status \in TERMINAL_STATUSES
                                         THEN "closing" ELSE "sleep",
                               !.reason = IF conn.status \in TERMINAL_STATUSES
                                          THEN "terminal" ELSE "none"]
       /\ hook' = [hook EXCEPT
                      !.fetch = @ \/ new # {} \/ conn.status \in PAUSED_STATUSES,
                      !.paused = @ \/ conn.status \in PAUSED_STATUSES]
    /\ UNCHANGED <<clock, flushed, rows, late, state, drops>>

(* The hard timeout is looked at before each tick. *)
StreamTimeout ==
    /\ conn.phase = "sleep"
    /\ conn' = [conn EXCEPT !.phase = "closing", !.reason = "stream_timeout"]
    /\ UNCHANGED <<clock, flushed, rows, late, state, hook, drops>>

(* `done`, for either reason: the hook is done and closes its EventSource. *)
SendDone ==
    /\ conn.phase = "closing"
    /\ conn' = [conn EXCEPT !.phase = "closed"]
    /\ hook' = [Refetched(hook) EXCEPT !.done = TRUE, !.paused = FALSE]
    /\ UNCHANGED <<clock, flushed, rows, late, state, drops>>

(* The browser connects again by itself. *)
Drop ==
    /\ conn.phase \in {"sleep", "read", "closing"} /\ drops < MaxDrops
    /\ drops' = drops + 1
    /\ conn' = [conn EXCEPT !.phase = "none", !.reason = "none"]
    /\ UNCHANGED <<clock, flushed, rows, late, state, hook>>

Refetch ==
    /\ hook.fetch
    /\ hook' = [hook EXCEPT !.view = state, !.fetch = FALSE]
    /\ UNCHANGED <<clock, flushed, rows, late, state, conn, drops>>

-----------------------------------------------------------------------------
StreamNext ==
    \/ \E w \in Writers : \/ \E e \in Events, s \in States \cup {Same} : Flush(w, e, s)
                          \/ CommitEvent(w)
                          \/ \E e \in Events : FlushAgain(w, e)
    \/ Connect \/ ReadTask \/ ReadEvents \/ StreamTimeout \/ SendDone \/ Drop \/ Refetch

(* The generator ticks, its clock reaches the timeout, the browser reconnects and fetches. *)
StreamFairness ==
    /\ WF_streamVars(Connect \/ ReadTask \/ ReadEvents \/ SendDone)
    /\ SF_streamVars(StreamTimeout)
    /\ WF_streamVars(Refetch)

StreamSpec == StreamInit /\ [][StreamNext]_streamVars /\ StreamFairness

-----------------------------------------------------------------------------
(* A connection is sent no event twice, and events in their order. *)
SentInOrder ==
    \A i, j \in DOMAIN conn.sent :
        i < j => \A e \in conn.sent[i], f \in conn.sent[j] : Before(e, f)

(* What a stream that has read the events has not sent was committed after a later event, or    *)
(* after one of its own time with a greater id: the cursor passes over nothing else, reconnects  *)
(* and two readings per tick included, and no event of the cursor's time that is ordered behind  *)
(* it.                                                                                            *)
SkipsOnlyLate ==
    [][conn.phase = "read" /\ conn'.phase \in {"sleep", "closing"} =>
          \A r \in rows : r \in late \/ \E k \in DOMAIN conn'.sent : r \in conn'.sent[k]]_streamVars

(* What the stream has seen is shown: when it has read the status as it is and the event of   *)
(* every change, the page shows that status or is about to fetch it, though the page may have  *)
(* fetched between two changes that the stream saw as none.  A late event is passed over.       *)
SeenIsShown ==
    conn.phase = "sleep" /\ conn.status = state /\ Newest(rows, conn.cursor) = conn.cursor
    /\ late = {} => hook.fetch \/ hook.view = state

(* The page is told of the events in their order, and shows what the stream has seen. *)
PageFollowsTask == SentInOrder /\ SeenIsShown

(* A stream ends, also for a status that does not end it by itself (STALE_FAILED). *)
StreamIsOver == conn.phase \in {"closed", "none"}
=============================================================================
