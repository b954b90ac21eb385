------------------------------ MODULE AgentMemory ------------------------------
(***************************************************************************)
(* The learning loop (services/memory.py and its hooks in                  *)
(* orchestrator/service.py): the event of a failed gate becomes a pending  *)
(* memory of the task, and the memories of a task are promoted when it     *)
(* reaches COMPLETED or AWAITING_APPROVAL.  Memories are flushed, not      *)
(* committed: the next event of the same session commits them, and a dying *)
(* job takes them with it.                                                 *)
(*                                                                         *)
(* SQLite has one writer: a session that has flushed keeps the others out  *)
(* until it commits.                                                       *)
(***************************************************************************)
EXTENDS Integers, FiniteSets

CONSTANTS
    MemTasks,   \* tasks, each with its job and session
    NoTask,     \* no session has flushed
    Mishaps,    \* what an observation is about; two of one kind may be near duplicates
    MemIds,     \* ids of agent_memory rows; bounds their number
    MaxDeaths   \* bound: jobs that die

ASSUME MemAssumption == MemIds \subseteq Nat /\ NoTask \notin MemTasks /\ MaxDeaths \in Nat

NoMishap == "no mishap"

VARIABLES
    memDisk,    \* committed tables: agent_memory and agent_memory_fts
    memSeen,    \* the tables as the writer sees them
    memWriter,  \* the session that has flushed
    memTask,    \* the tasks and their jobs
    memDeaths

memVars == <<memDisk, memSeen, memWriter, memTask, memDeaths>>

MemRow == [kind : {"none", "success", "failure"}, about : Mishaps \cup {NoMishap}, task : MemTasks \cup {NoTask},
           resolution : {"pending", "diagnosed", "blocked", "completed"},
           usable : BOOLEAN,      \* last_used_at is set
           old : BOOLEAN]         \* created more than 24 hours ago
MemTables == [rows : [MemIds -> MemRow],
              fts : SUBSET MemIds,     \* rows the index holds
              torn : SUBSET MemIds]    \* rows taken out of it by a failed rewrite

MemTask == [status : {"running", "awaiting", "completed", "failed"},
            phase : {"works", "judges", "found", "hook", "events", "idle", "dead"},
            about : Mishaps \cup {NoMishap}, resolution : {"pending", "diagnosed"},
            similar : SUBSET MemIds,   \* the near duplicate it has loaded
            saw : BOOLEAN]             \* which had no resolution yet

MemTypeOK ==
    /\ memDisk \in MemTables /\ memSeen \in MemTables
    /\ memWriter \in MemTasks \cup {NoTask}
    /\ memTask \in [MemTasks -> MemTask]
    /\ memDeaths \in 0..MaxDeaths

NoRow == [kind |-> "none", about |-> NoMishap, task |-> NoTask, resolution |-> "pending",
          usable |-> FALSE, old |-> FALSE]

JobIn(s, p) == [status |-> s, phase |-> p, about |-> NoMishap, resolution |-> "pending",
                similar |-> {}, saw |-> FALSE]

MemInit ==
    /\ memDisk = [rows |-> [m \in MemIds |-> NoRow], fts |-> {}, torn |-> {}]
    /\ memTask = [t \in MemTasks |-> JobIn("running", "works")]
    /\ memSeen = memDisk /\ memWriter = NoTask /\ memDeaths = 0

-----------------------------------------------------------------------------
(* Flushing and committing. *)

MayWrite(t) == memWriter \in {NoTask, t}

MemView(t) == IF memWriter = t THEN memSeen ELSE memDisk

MemFlush(t, tables) == memSeen' = tables /\ memWriter' = t /\ memDisk' = memDisk

(* record_event and set_task_status commit what the session has flushed. *)
MemCommit(t) ==
    /\ MayWrite(t)
    /\ memDisk' = MemView(t) /\ memSeen' = MemView(t) /\ memWriter' = NoTask

(* _upsert_fts deletes the entry of a row and inserts a new one; when the insertion fails the *)
(* error is swallowed and the deletion stays.                                                   *)
UpsertFts(T, ms, torn) ==
    [T EXCEPT !.fts = (@ \cup ms) \ torn, !.torn = (@ \ ms) \cup torn]

MemKept == UNCHANGED <<memDisk, memSeen, memWriter>>

JobAt(t, p) == memTask' = [memTask EXCEPT ![t] = JobIn(@.status, p)]

-----------------------------------------------------------------------------
(* The failure of a gate. *)

GateFailed(t, f, r) ==
    /\ memTask[t].phase = "works"
    /\ MemCommit(t)
    /\ memTask' = [memTask EXCEPT ![t].phase = "judges", ![t].about = f, ![t].resolution = r]
    /\ UNCHANGED memDeaths

(* The prefilter or the judge turns it down, or the hook raises: the pipeline goes on. *)
NotStored(t) ==
    /\ memTask[t].phase = "judges"
    /\ JobAt(t, "works") /\ MemKept /\ UNCHANGED memDeaths

MemInsert(T, m, row) == [T EXCEPT !.rows[m] = row]

(* The id of the next row. *)
Unused(T) == {m \in MemIds : \A n \in MemIds : T.rows[n].kind = "none" <=> m <= n}

Observed(t, k) == [kind |-> k, about |-> memTask[t].about, task |-> t,
                   resolution |-> memTask[t].resolution, usable |-> k = "failure", old |-> FALSE]

StoreNew(t, m) ==
    /\ memTask[t].phase = "judges" /\ MayWrite(t) /\ m \in Unused(MemView(t))
    /\ \E torn \in SUBSET {m} :
          MemFlush(t, UpsertFts(MemInsert(MemView(t), m, Observed(t, "success")), {m}, torn))
    /\ JobAt(t, "works") /\ UNCHANGED memDeaths

(* A near duplicate that the index finds is loaded... *)
FindSimilar(t, m) ==
    /\ memTask[t].phase = "judges"
    /\ m \in MemView(t).fts /\ MemView(t).rows[m].about = memTask[t].about
    /\ memTask' = [memTask EXCEPT ![t].phase = "found", ![t].similar = {m},
                                  ![t].saw = MemView(t).rows[m].resolution = "pending"]
    /\ MemKept /\ UNCHANGED memDeaths

(* ... and written: it takes the new resolution, if there is one, when it had none as it *)
(* was loaded.  It stays the memory of its first task.                                    *)
Merged(T, k) ==
    IF k.saw /\ k.resolution # "pending"
    THEN [T EXCEPT !.rows = [m \in MemIds |-> IF m \in k.similar
                                              THEN [@[m] EXCEPT !.resolution = k.resolution]
                                              ELSE @[m]]]
    ELSE T

MergeMemory(t) ==
    /\ memTask[t].phase = "found" /\ MayWrite(t)
    /\ \E torn \in SUBSET memTask[t].similar :
          MemFlush(t, UpsertFts(Merged(MemView(t), memTask[t]), memTask[t].similar, torn))
    /\ JobAt(t, "works") /\ UNCHANGED memDeaths

-----------------------------------------------------------------------------
(* The end of a job, or its pause. *)

(* Mutant: the hook is called for pauses alone. *)
ReachStatusUnhooked(t, s) ==
    /\ memTask[t].phase = "works"
    /\ MemCommit(t)
    /\ memTask' = [memTask EXCEPT ![t] = JobIn(s, IF s = "awaiting" THEN "hook" ELSE "events")]
    /\ UNCHANGED memDeaths

(* set_task_status commits the status; the hook runs after it. *)
ReachStatus(t, s) ==
    /\ memTask[t].phase = "works"
    /\ MemCommit(t)
    /\ memTask' = [memTask EXCEPT ![t] = JobIn(s, IF s = "failed" THEN "events" ELSE "hook")]
    /\ UNCHANGED memDeaths

(* promote_pending: memories of the task that are not a day older than its status. *)
Promotable(T, t) == {m \in MemIds : LET r == T.rows[m] IN
                        r.kind # "none" /\ r.task = t /\ ~r.usable /\ ~r.old}

(* Mutant: the status of the task is taken for the outcome. *)
OutcomeAsStatus(t) == memTask[t].status

Outcome(t) == IF memTask[t].status = "awaiting" THEN "blocked" ELSE "completed"

(* Mutant: the index is made anew of what is promoted. *)
PromotedAlone(T, t) ==
    [T EXCEPT !.rows = [m \in MemIds |->
                  IF m \in Promotable(T, t)
                  THEN [T.rows[m] EXCEPT !.usable = TRUE,
                                         !.resolution = IF @ = "pending" THEN Outcome(t) ELSE @]
                  ELSE T.rows[m]],
              !.fts = {}]

Promoted(T, t) ==
    [T EXCEPT !.rows = [m \in MemIds |->
                  IF m \in Promotable(T, t)
                  THEN [T.rows[m] EXCEPT !.usable = TRUE,
                                         !.resolution = IF @ = "pending" THEN Outcome(t) ELSE @]
                  ELSE T.rows[m]]]

Promote(t) ==
    /\ memTask[t].phase = "hook" /\ MayWrite(t)
    /\ \E torn \in SUBSET Promotable(MemView(t), t) :
          MemFlush(t, UpsertFts(Promoted(MemView(t), t), Promotable(MemView(t), t), torn))
    /\ JobAt(t, "events") /\ UNCHANGED memDeaths

(* A failed task leaves observations that can be used at once; their entry in the index *)
(* names columns the index does not have, so none is made.                               *)
WriteFailure(t, m) ==
    /\ memTask[t].phase = "events" /\ memTask[t].status = "failed"
    /\ MayWrite(t) /\ m \in Unused(MemView(t))
    /\ MemFlush(t, MemInsert(MemView(t), m, Observed(t, "failure")))
    /\ UNCHANGED <<memTask, memDeaths>>

(* The events after it and the end of the job commit. *)
FinishTask(t) ==
    /\ memTask[t].phase = "events"
    /\ MemCommit(t)
    /\ JobAt(t, "idle") /\ UNCHANGED memDeaths

(* The process dies, the job is cancelled or raises, as it does at its next statement when *)
(* the flush of a hook failed: its session is rolled back.                                *)
JobDies(t) ==
    /\ memTask[t].phase \in {"works", "judges", "found", "hook", "events"}
    /\ memDeaths < MaxDeaths
    /\ memDeaths' = memDeaths + 1
    /\ IF memWriter = t THEN memSeen' = memDisk /\ memWriter' = NoTask /\ memDisk' = memDisk
                        ELSE MemKept
    /\ JobAt(t, "dead")

(* A grant lets the pipeline work on, a rejection fails the task; neither is the hook's. *)
Decide(t, grants) ==
    /\ memTask[t].phase = "idle" /\ memTask[t].status = "awaiting"
    /\ memTask' = [memTask EXCEPT ![t] = IF grants THEN JobIn("running", "works")
                                                 ELSE JobIn("failed", "idle")]
    /\ MemKept /\ UNCHANGED memDeaths

DayPasses ==
    /\ memWriter = NoTask
    /\ memDisk' = [memDisk EXCEPT
                      !.rows = [m \in MemIds |-> [@[m] EXCEPT !.old = memDisk.rows[m] # NoRow]]]
    /\ memSeen' = memDisk'
    /\ UNCHANGED <<memWriter, memTask, memDeaths>>

-----------------------------------------------------------------------------
MemNext ==
    \/ \E t \in MemTasks :
          \/ \E f \in Mishaps, r \in {"pending", "diagnosed"} : GateFailed(t, f, r)
          \/ NotStored(t)
          \/ \E m \in MemIds : StoreNew(t, m) \/ FindSimilar(t, m) \/ WriteFailure(t, m)
          \/ \E s \in {"awaiting", "completed", "failed"} : ReachStatus(t, s)
          \/ MergeMemory(t) \/ Promote(t) \/ FinishTask(t) \/ JobDies(t)
          \/ \E grants \in BOOLEAN : Decide(t, grants)
    \/ DayPasses

MemSpec == MemInit /\ [][MemNext]_memVars

-----------------------------------------------------------------------------
(* A task that is done, and whose job did not die, has left no memory behind that waits  *)
(* for its promotion, but one a day older than its end.                                   *)
PromotedWhenDone ==
    \A t \in MemTasks : memTask[t].status \in {"awaiting", "completed"}
                        /\ memTask[t].phase = "idle" =>
        \A m \in MemIds : LET r == memDisk.rows[m] IN
            r.kind = "success" /\ r.task = t => r.usable \/ r.old

(* Once other tasks can use a memory they can go on to: it stays usable and resolved, and *)
(* in the index unless its own entry could not be rewritten, through merges by sessions   *)
(* that loaded it before, deaths and rollbacks.                                            *)
SettledStays ==
    [][\A m \in MemIds : memDisk.rows[m].kind = "success" /\ memDisk.rows[m].usable =>
          /\ memDisk'.rows[m].usable /\ m \in memDisk'.fts \cup memDisk'.torn
          /\ memDisk'.rows[m].resolution # "pending"]_memVars
=============================================================================
