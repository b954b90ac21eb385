----------------------------- MODULE TaskRuntime -----------------------------
(***************************************************************************)
(* The life of a task row under everything that may write it: the worker   *)
(* thread that runs its pipeline (services/tasks.py), the request threads  *)
(* of the operators who decide approvals, abandon or roll back             *)
(* (services/approvals.py, api/tasks.py), the stale-task watchdog          *)
(* (services/stale_watchdog.py), the cancellation flags                    *)
(* (services/task_cancel.py), and a process that may die at any point and  *)
(* start again (main.py).                                                  *)
(*                                                                         *)
(* Every one of them works on a database session of its own.  A session    *)
(* keeps the row as it loaded it (expire_on_commit=False) and its commit   *)
(* writes the attributes it has changed and no others, so the model gives  *)
(* each thread a view of the row and lets a write compare with that view,  *)
(* not with the row.  A step is a commit: record_event commits whatever    *)
(* the session has pending, after check_or_raise.                          *)
(*                                                                         *)
(* The thread of a task's pipeline job is named by the task; an operator   *)
(* is a request thread.  What a pipeline computes is left out: which       *)
(* status it enters next, which checkpoint it writes, whether it raises    *)
(* and how long it takes are nondeterministic.                             *)
(***************************************************************************)
EXTENDS Naturals, FiniteSets

CONSTANTS
    Tasks,          \* task ids
    Operators,      \* request threads of the API
    Approvals,      \* approval ids that may be created
    None,           \* no approval
    MaxWorkers,     \* threads of the pipeline executor
    Ages,           \* ages, in hours, a checkpoint may have at a restart
    ResumeMaxAge,   \* settings.resumability_max_age_hours
    OrphanMaxAge,   \* settings.resumability_orphan_threshold_hours
    MaxCrashes,     \* bound: process deaths
    MaxLockLosses   \* bound: commits whose first attempt finds the database locked

ASSUME TasksExist == Tasks # {}
ASSUME ThreadsDistinct == Tasks \cap Operators = {}
ASSUME NoneIsNoApproval == None \notin Approvals
ASSUME BoundsNat ==
    /\ MaxWorkers \in Nat \ {0} /\ MaxCrashes \in Nat /\ MaxLockLosses \in Nat
    /\ Ages \subseteq Nat /\ 0 \in Ages
    /\ ResumeMaxAge \in Nat /\ OrphanMaxAge \in Nat

VARIABLES
    row,            \* the committed task rows
    approval,       \* the committed approval rows
    th,             \* the threads: pipeline jobs and API requests
    dog,            \* the watchdog's pass over each task
    cancelled,      \* _cancelled_task_ids
    server,         \* phase of the process: up, down, or a step of lifespan()
    orphans,        \* what _sweep_orphaned_tasks has still to fail
    crashes, lost,  \* the bounds' counters
    granted         \* history: approvals whose grant was committed

vars == <<row, approval, th, dog, cancelled, server, orphans, crashes, lost, granted>>
bounds == <<crashes, lost>>
process == <<server, orphans, crashes>>

Threads == Tasks \cup Operators

InFlight == {"planning", "reviewing", "executing"}
Active == InFlight \cup {"created"}                     \* ACTIVE_RESUME_STATUSES
Terminal == {"completed", "failed", "rolled_back", "stale_failed"}
Statuses == Active \cup Terminal \cup {"absent", "awaiting_approval"}
Checkpoints == {"none", "retrieve", "plan", "review_pre", "codegen", "awaiting_approval"}
ApprovalStatuses == {"none", "pending", "granted", "rejected", "cancelled"}
Verdicts == {"none", "approved", "requires_approval", "rejected"}

JobPcs == {"idle", "creating", "queued", "resume_queued", "run", "announced", "tail", "crashed"}
DecisionPcs == {"grant", "reject", "reject_status", "abandon", "abandon_flag", "rollback"}
Pcs == JobPcs \cup DecisionPcs
Views == [status : Statuses, pending : BOOLEAN]

\* A thread that does nothing.
Idle(t) == [pc |-> "idle", task |-> t, pos |-> "absent", verdict |-> "none",
            view |-> [status |-> "absent", pending |-> FALSE],
            deciding |-> None, seen |-> {}]
AnyTask == CHOOSE t \in Tasks : TRUE
Rest(x) == IF x \in Tasks THEN Idle(x) ELSE Idle(AnyTask)

\* A task row as the INSERT writes it.
NewRow(status) == [status |-> status, pending |-> FALSE, ckpt |-> "none",
                   verdict |-> "none", stale |-> FALSE, age |-> 0]

Init ==
    /\ row = [t \in Tasks |-> NewRow("absent")]
    /\ approval = [a \in Approvals |-> [task |-> AnyTask, status |-> "none"]]
    /\ th = [x \in Threads |-> Rest(x)]
    /\ dog = [t \in Tasks |-> "idle"]
    /\ cancelled = {} /\ server = "up" /\ orphans = {}
    /\ crashes = 0 /\ lost = 0 /\ granted = {}

-----------------------------------------------------------------------------
(* Sessions.                                                               *)

ViewOf(t) == [status |-> row[t].status, pending |-> row[t].pending]

\* A commit writes an attribute the session assigned unless it is the value the
\* session had loaded; updated_at is bumped when anything is written.
StatusWritten(r, view, new) ==
    IF view.status = new THEN r ELSE [r EXCEPT !.status = new, !.stale = FALSE]
PendingWritten(r, view, flag) ==
    IF view.pending = flag THEN r ELSE [r EXCEPT !.pending = flag, !.stale = FALSE]
CheckpointWritten(r, stage) ==
    [r EXCEPT !.ckpt = stage, !.age = 0, !.stale = FALSE]

\* A view after the session has assigned an attribute.
SeenStatus(view, new) == [view EXCEPT !.status = new]
SeenPending(view, flag) == [view EXCEPT !.pending = flag]

\* A thread that has gone on.
Moved(thread, pc, pos, view) == [thread EXCEPT !.pc = pc, !.pos = pos, !.view = view]
Turned(thread, pc) == [thread EXCEPT !.pc = pc]
Judged(thread, verdict) == [thread EXCEPT !.verdict = verdict]

Flagged(t) == t \in cancelled                           \* check_or_raise raises
Alive == server # "down"

\* Jobs that occupy a thread of the pool.
Working == {"run", "announced", "tail", "crashed"}
Running == {t \in Tasks : th[t].pc \in Working}

-----------------------------------------------------------------------------
(* The pipeline.                                                           *)

\* TaskService.create_task commits the row ...
CreateTask(t) ==
    /\ server = "up"
    /\ row[t].status = "absent"
    /\ row' = [row EXCEPT ![t] = NewRow("created")]
    /\ th' = [th EXCEPT ![t] = Turned(@, "creating")]
    /\ UNCHANGED <<approval, dog, cancelled, process, lost, granted>>

\* ... and then submits run_pipeline_job.
SubmitJob(t) ==
    /\ th[t].pc = "creating"
    /\ th' = [th EXCEPT ![t] = Turned(@, "queued")]
    /\ UNCHANGED <<row, approval, dog, cancelled, process, lost, granted>>

\* run_pipeline_job starts on a free thread of the pool and loads the row.
StartJob(t) ==
    /\ Alive
    /\ th[t].pc = "queued"
    /\ Cardinality(Running) < MaxWorkers
    /\ th' = [th EXCEPT ![t] = Moved(Rest(t), "run", "created", ViewOf(t))]
    /\ UNCHANGED <<row, approval, dog, cancelled, process, lost, granted>>

\* Mutant: a stage the dispatch does not know is taken for a status.
ResumeAtStage(stage) ==
    CASE stage = "plan" -> "planning"
      [] stage = "review_pre" -> "reviewing"
      [] stage = "codegen" -> "reviewing"
      [] OTHER -> stage

\* Where resume_task re-enters the pipeline, by the stage of the checkpoint.
ResumeAt(stage) ==
    CASE stage = "plan" -> "planning"
      [] stage = "review_pre" -> "reviewing"
      [] stage = "codegen" -> "reviewing"
      [] OTHER -> "created"

\* Mutant: a checkpoint written after the review is taken to have passed it.
ResumeVerdictPassed(t) ==
    IF row[t].ckpt \in {"review_pre", "codegen"} THEN "approved" ELSE "none"

\* What the resumed thread knows of the reviewer's verdict: a checkpoint after
\* the review has been through it, review_pre reads the stored one.
ResumeVerdict(t) ==
    CASE row[t].ckpt = "review_pre" -> row[t].verdict
      [] row[t].ckpt = "codegen" -> "approved"
      [] OTHER -> "none"

\* From an awaiting_approval checkpoint resume_task records TASK_RESUMED and returns.
ResumePc(stage) == IF stage = "awaiting_approval" THEN "tail" ELSE "run"

\* resume_pipeline_job starts.
StartResume(t) ==
    /\ Alive
    /\ th[t].pc = "resume_queued"
    /\ Cardinality(Running) < MaxWorkers
    /\ th' = [th EXCEPT ![t] =
                Judged(Moved(Rest(t), ResumePc(row[t].ckpt), ResumeAt(row[t].ckpt), ViewOf(t)),
                       ResumeVerdict(t))]
    /\ UNCHANGED <<row, approval, dog, cancelled, process, lost, granted>>

\* The statuses a pipeline may enter from where it stands.
NextStatuses(pos, verdict) ==
    CASE pos = "created" -> {"planning", "failed"}
      [] pos = "planning" -> {"reviewing", "failed"}
      [] pos = "reviewing" ->
            CASE verdict = "approved" -> {"executing"}
              [] verdict = "rejected" -> {"failed"}
              [] OTHER -> {}
      [] pos = "awaiting_approval" -> {"executing"}
      [] pos = "executing" -> {"completed", "failed"}
      [] OTHER -> {}

\* Where a pipeline may stop for an approval: the plan review asked for one, or
\* a tool or a gate of the execution does.
MayPause(pos, verdict) ==
    \/ pos = "reviewing" /\ verdict = "requires_approval"
    \/ pos = "executing"

PcAfter(s) == IF s \in Terminal THEN "tail" ELSE "run"

\* set_task_status(s) by the pipeline of thread x.
EnterStatus(x, s) ==
    LET t == th[x].task IN
    /\ th[x].pc = "run" /\ ~Flagged(t)
    /\ s \in NextStatuses(th[x].pos, th[x].verdict)
    /\ row' = [row EXCEPT ![t] = StatusWritten(@, th[x].view, s)]
    /\ th' = [th EXCEPT ![x] = Moved(@, PcAfter(s), s, SeenStatus(@.view, s))]
    /\ UNCHANGED <<approval, dog, cancelled, process, lost, granted>>

\* The checkpoint a pipeline writes next while it stands at pos.
NextCheckpoints(pos, stage) ==
    CASE pos = "created" -> {"retrieve"} \ {stage}
      [] pos = "planning" -> {"plan"} \ {stage}
      [] pos = "executing" -> IF stage = "codegen" THEN {} ELSE {"retrieve", "codegen"} \ {stage}
      [] OTHER -> {}

\* _write_task_checkpoint, committed by the record_event that follows.
WriteCheckpoint(x, c) ==
    LET t == th[x].task IN
    /\ th[x].pc = "run" /\ ~Flagged(t)
    /\ c \in NextCheckpoints(th[x].pos, row[t].ckpt)
    /\ row' = [row EXCEPT ![t] = CheckpointWritten(@, c)]
    /\ UNCHANGED <<approval, th, dog, cancelled, process, lost, granted>>

\* review_plan returned a verdict: review_json and the review_pre checkpoint.
ReviewPlan(x, v) ==
    LET t == th[x].task IN
    /\ th[x].pc = "run" /\ ~Flagged(t)
    /\ th[x].pos = "reviewing" /\ th[x].verdict = "none" /\ v # "none"
    /\ row' = [row EXCEPT ![t] = [CheckpointWritten(@, "review_pre") EXCEPT !.verdict = v]]
    /\ th' = [th EXCEPT ![x] = Judged(@, v)]
    /\ UNCHANGED <<approval, dog, cancelled, process, lost, granted>>

NewApproval(a, t) ==
    /\ approval[a].status = "none"
    /\ approval' = [approval EXCEPT ![a] = [task |-> t, status |-> "pending"]]

\* The row after a pipeline with this view has raised pending_approval and
\* written the awaiting_approval checkpoint.
FlagRaised(r, view) == CheckpointWritten(PendingWritten(r, view, TRUE), "awaiting_approval")

\* The pipeline creates an approval and pauses: the approval row,
\* pending_approval, the checkpoint and the status are one commit ...
RequestApproval(x, a) ==
    LET t == th[x].task IN
    /\ th[x].pc = "run" /\ ~Flagged(t)
    /\ MayPause(th[x].pos, th[x].verdict)
    /\ NewApproval(a, t)
    /\ row' = [row EXCEPT ![t] = StatusWritten(FlagRaised(@, th[x].view), th[x].view,
                                               "awaiting_approval")]
    /\ th' = [th EXCEPT ![x] = Moved(@, "tail", "awaiting_approval",
                                    [status |-> "awaiting_approval", pending |-> TRUE])]
    /\ UNCHANGED <<dog, cancelled, process, lost, granted>>

\* ... except at the reservation and the semantic-review gate, where a
\* REVIEW_FAILED event commits everything but the status first.
AnnounceApproval(x, a) ==
    LET t == th[x].task IN
    /\ th[x].pc = "run" /\ ~Flagged(t)
    /\ th[x].pos = "executing"
    /\ NewApproval(a, t)
    /\ row' = [row EXCEPT ![t] = FlagRaised(@, th[x].view)]
    /\ th' = [th EXCEPT ![x] = Moved(@, "announced", "executing", SeenPending(@.view, TRUE))]
    /\ UNCHANGED <<dog, cancelled, process, lost, granted>>

PauseAnnounced(x) ==
    LET t == th[x].task IN
    /\ th[x].pc = "announced" /\ ~Flagged(t)
    /\ row' = [row EXCEPT ![t] = StatusWritten(@, th[x].view, "awaiting_approval")]
    /\ th' = [th EXCEPT ![x] = Moved(@, "tail", "awaiting_approval",
                                    SeenStatus(@.view, "awaiting_approval"))]
    /\ UNCHANGED <<approval, dog, cancelled, process, lost, granted>>

\* An exception nothing in the pipeline handles.  In a job the outer handler
\* takes it, in a request it becomes an error response.
PipelineRaises(x) ==
    /\ th[x].pc \in {"run", "announced"} /\ ~Flagged(th[x].task)
    /\ th' = [th EXCEPT ![x] = IF x \in Tasks THEN Turned(@, "crashed") ELSE Rest(x)]
    /\ UNCHANGED <<row, approval, dog, cancelled, process, lost, granted>>

\* The except Exception clause of the job: a fresh load, then FAILED.  When the
\* flag is up, set_task_status raises out of the handler.
CrashHandler(t) ==
    /\ th[t].pc = "crashed"
    /\ row' = IF Flagged(t) THEN row
              ELSE [row EXCEPT ![t].status = "failed", ![t].stale = FALSE]
    /\ th' = [th EXCEPT ![t] = Rest(t)]
    /\ UNCHANGED <<approval, dog, cancelled, process, lost, granted>>

\* TaskCancelledError reached the job's own handler, which clears the flag.
CancelledJob(t) ==
    /\ th[t].pc \in {"run", "announced", "tail"} /\ Flagged(t)
    /\ cancelled' = cancelled \ {t}
    /\ th' = [th EXCEPT ![t] = Rest(t)]
    /\ UNCHANGED <<row, approval, dog, process, lost, granted>>

\* The pipeline has returned.
FinishPipeline(x) ==
    /\ th[x].pc = "tail"
    /\ th' = [th EXCEPT ![x] = Rest(x)]
    /\ UNCHANGED <<row, approval, dog, cancelled, process, lost, granted>>

-----------------------------------------------------------------------------
(* Operators.                                                              *)

PendingFor(t) == {a \in Approvals : approval[a].task = t /\ approval[a].status = "pending"}

Request(o, pc, t, a) ==
    th' = [th EXCEPT ![o] =
             [Idle(t) EXCEPT !.pc = pc, !.view = ViewOf(t), !.deciding = a, !.seen = PendingFor(t)]]

\* grant and reject read the approval and require it to be pending ...
BeginDecision(o, a, pc) ==
    /\ server = "up" /\ th[o].pc = "idle"
    /\ approval[a].status = "pending"
    /\ Request(o, pc, approval[a].task, a)
    /\ UNCHANGED <<row, approval, dog, cancelled, process, lost, granted>>

\* ... decide it, which is committed with APPROVAL_GRANTED, and run the rest of
\* the pipeline in the request's own thread.
Grant(o) ==
    LET t == th[o].task  a == th[o].deciding IN
    /\ th[o].pc = "grant" /\ ~Flagged(t)
    /\ approval' = [approval EXCEPT ![a].status = "granted"]
    /\ granted' = granted \cup {a}
    /\ row' = [row EXCEPT ![t] = PendingWritten(@, th[o].view, FALSE)]
    /\ th' = [th EXCEPT ![o] = Moved(@, "run", "awaiting_approval", SeenPending(@.view, FALSE))]
    /\ UNCHANGED <<dog, cancelled, process, lost>>

\* Mutant: reject leaves pending_approval up.
RejectFlagKept(o) ==
    LET t == th[o].task  a == th[o].deciding IN
    /\ th[o].pc = "reject" /\ ~Flagged(t)
    /\ approval' = [approval EXCEPT ![a].status = "rejected"]
    /\ th' = [th EXCEPT ![o] = Turned(@, "reject_status")]
    /\ UNCHANGED <<row, dog, cancelled, process, lost, granted>>

\* reject commits the decision with APPROVAL_REJECTED ...
Reject(o) ==
    LET t == th[o].task  a == th[o].deciding IN
    /\ th[o].pc = "reject" /\ ~Flagged(t)
    /\ approval' = [approval EXCEPT ![a].status = "rejected"]
    /\ row' = [row EXCEPT ![t] = PendingWritten(@, th[o].view, FALSE)]
    /\ th' = [th EXCEPT ![o] = Moved(@, "reject_status", @.pos, SeenPending(@.view, FALSE))]
    /\ UNCHANGED <<dog, cancelled, process, lost, granted>>

\* ... and then the status: completed at the Jira-transition gate, else failed.
RejectStatus(o, s) ==
    LET t == th[o].task IN
    /\ th[o].pc = "reject_status" /\ ~Flagged(t)
    /\ s \in {"failed", "completed"}
    /\ row' = [row EXCEPT ![t] = StatusWritten(@, th[o].view, s)]
    /\ th' = [th EXCEPT ![o] = Rest(o)]
    /\ UNCHANGED <<approval, dog, cancelled, process, lost, granted>>

\* abandon_task checks the status it read ...
BeginAbandon(o, t) ==
    /\ server = "up" /\ th[o].pc = "idle"
    /\ row[t].status \in {"executing", "created"}
    /\ Request(o, "abandon", t, None)
    /\ UNCHANGED <<row, approval, dog, cancelled, process, lost, granted>>

\* ... commits FAILED ...
Abandon(o) ==
    LET t == th[o].task IN
    /\ th[o].pc = "abandon" /\ ~Flagged(t)
    /\ row' = [row EXCEPT ![t] = StatusWritten(@, th[o].view, "failed")]
    /\ th' = [th EXCEPT ![o] = Turned(@, "abandon_flag")]
    /\ UNCHANGED <<approval, dog, cancelled, process, lost, granted>>

\* ... and requests the cancellation.
AbandonFlag(o) ==
    /\ th[o].pc = "abandon_flag"
    /\ cancelled' = cancelled \cup {th[o].task}
    /\ th' = [th EXCEPT ![o] = Rest(o)]
    /\ UNCHANGED <<row, approval, dog, process, lost, granted>>

\* rollback_task loads the task and its approvals ...
BeginRollback(o, t) ==
    /\ server = "up" /\ th[o].pc = "idle"
    /\ row[t].status \notin {"absent", "rolled_back"}
    /\ Request(o, "rollback", t, None)
    /\ UNCHANGED <<row, approval, dog, cancelled, process, lost, granted>>

\* ... and cancels the pending ones it saw with the status.
Rollback(o) ==
    LET t == th[o].task IN
    /\ th[o].pc = "rollback" /\ ~Flagged(t)
    /\ approval' = [a \in Approvals |-> IF a \in th[o].seen
                                        THEN [approval[a] EXCEPT !.status = "cancelled"]
                                        ELSE approval[a]]
    /\ row' = [row EXCEPT ![t] = StatusWritten(PendingWritten(@, th[o].view, FALSE),
                                               th[o].view, "rolled_back")]
    /\ th' = [th EXCEPT ![o] = Rest(o)]
    /\ UNCHANGED <<dog, cancelled, process, lost, granted>>

\* TaskCancelledError in a request: an error response; nobody clears the flag.
CancelledRequest(o) ==
    /\ th[o].pc \in (DecisionPcs \ {"abandon_flag"}) \cup {"run", "announced", "tail"}
    /\ Flagged(th[o].task)
    /\ th' = [th EXCEPT ![o] = Rest(o)]
    /\ UNCHANGED <<row, approval, dog, cancelled, process, lost, granted>>

-----------------------------------------------------------------------------
(* The watchdog.                                                           *)

MonitoredNoReview == {"planning", "executing"}          \* mutant: REVIEWING forgotten
Monitored == {"planning", "reviewing", "executing"}     \* _IN_FLIGHT_STATUSES

\* The row has not been updated for its stage's threshold.  How long that is
\* against anything else is left open: a single commit may wait for the lock
\* longer than the shortest threshold.
GoStale(t) ==
    /\ row[t].status \in Monitored /\ ~row[t].stale
    /\ row' = [row EXCEPT ![t].stale = TRUE]
    /\ UNCHANGED <<approval, th, dog, cancelled, process, lost, granted>>

\* _mark_stale_failed_once loads the row and finds it stale ...
DogLoad(t) ==
    /\ server = "up" /\ dog[t] = "idle"
    /\ row[t].status \in Monitored /\ row[t].stale
    /\ dog' = [dog EXCEPT ![t] = "loaded"]
    /\ UNCHANGED <<row, approval, th, cancelled, process, lost, granted>>

\* ... commits STALE_FAILED over whatever the row is by then, unless the flag of
\* an earlier cancellation makes set_task_status raise ...
DogMark(t) ==
    /\ dog[t] = "loaded" /\ \A u \in Tasks : dog[u] # "marked"
    /\ IF Flagged(t)
       THEN dog' = [dog EXCEPT ![t] = "idle"] /\ UNCHANGED row
       ELSE /\ dog' = [dog EXCEPT ![t] = "marked"]
            /\ row' = [row EXCEPT ![t].status = "stale_failed", ![t].stale = FALSE]
    /\ UNCHANGED <<approval, th, cancelled, process, lost, granted>>

\* Mutant: the row is marked and the job is left running.
DogFlagNoCancel(t) ==
    /\ dog[t] = "marked"
    /\ dog' = [dog EXCEPT ![t] = "idle"]
    /\ UNCHANGED <<row, approval, th, cancelled, process, lost, granted>>

\* ... and requests the cancellation after a second commit.
DogFlag(t) ==
    /\ dog[t] = "marked"
    /\ cancelled' = cancelled \cup {t}
    /\ dog' = [dog EXCEPT ![t] = "idle"]
    /\ UNCHANGED <<row, approval, th, process, lost, granted>>

-----------------------------------------------------------------------------
(* The process.                                                            *)

\* The process dies: threads, queue and flags are gone, rows stay.
Crash ==
    /\ Alive /\ crashes < MaxCrashes
    /\ crashes' = crashes + 1
    /\ server' = "down" /\ orphans' = {} /\ cancelled' = {}
    /\ th' = [x \in Threads |-> Rest(x)]
    /\ dog' = [t \in Tasks |-> "idle"]
    /\ UNCHANGED <<row, approval, lost, granted>>

\* is_task_resumable
Resumable(r, maxAge) ==
    /\ ~r.pending /\ r.status \in Active
    /\ r.ckpt # "none" /\ r.age <= maxAge

\* The row when its checkpoint has become this old.
Aged(r, age) == IF r.ckpt = "none" THEN r ELSE [r EXCEPT !.age = age]

\* Some hours later lifespan() resumes what it finds resumable ...
ResumeInterrupted(older) ==
    LET aged == [t \in Tasks |-> Aged(row[t], older[t])]
    IN /\ server = "down"
       /\ \A t \in Tasks : older[t] >= row[t].age
       /\ server' = "resuming"
       /\ row' = aged
       /\ th' = [x \in Threads |->
                   IF x \in Tasks /\ Resumable(aged[x], ResumeMaxAge)
                   THEN [Rest(x) EXCEPT !.pc = "resume_queued"] ELSE Rest(x)]
       /\ UNCHANGED <<approval, dog, cancelled, orphans, crashes, lost, granted>>

\* ... while the jobs it submitted run, loads the orphans, against a clock read
\* later: a checkpoint may have crossed one unit of age since ...
SweepLoad(tick) ==
    LET aged == [t \in Tasks |-> Aged(row[t], row[t].age + tick[t])]
    IN /\ server = "resuming"
       /\ \A t \in Tasks : tick[t] \in {0, 1} /\ row[t].age + tick[t] \in Ages
       /\ server' = "sweeping"
       /\ row' = aged
       /\ orphans' = {t \in Tasks : /\ aged[t].status \in Active /\ ~aged[t].pending
                                    /\ ~Resumable(aged[t], OrphanMaxAge)}
       /\ UNCHANGED <<approval, th, dog, cancelled, crashes, lost, granted>>

\* ... fails them one by one ...
SweepFail(t) ==
    /\ server = "sweeping" /\ t \in orphans
    /\ orphans' = orphans \ {t}
    /\ row' = [row EXCEPT ![t].status = "failed", ![t].stale = FALSE]
    /\ UNCHANGED <<approval, th, dog, cancelled, server, crashes, lost, granted>>

\* ... starts the watchdog and serves requests.
StartupDone ==
    /\ server = "sweeping" /\ orphans = {}
    /\ server' = "up"
    /\ UNCHANGED <<row, approval, th, dog, cancelled, orphans, crashes, lost, granted>>

-----------------------------------------------------------------------------
(* Lost commits.  When the first attempt of record_event finds the database *)
(* locked, its rollback discards what the session had pending, and the      *)
(* retry commits the event alone.  The caller is not told and goes on with  *)
(* rows that are loaded again.  A checkpoint lost so is one not written.    *)

Lose == lost < MaxLockLosses /\ lost' = lost + 1

LoseStatus(x, s) ==
    /\ Lose
    /\ th[x].pc = "run" /\ ~Flagged(th[x].task)
    /\ s \in NextStatuses(th[x].pos, th[x].verdict)
    /\ th' = [th EXCEPT ![x] = Moved(@, PcAfter(s), s, ViewOf(@.task))]
    /\ UNCHANGED <<row, approval, dog, cancelled, process, granted>>

LoseReview(x, v) ==
    /\ Lose
    /\ th[x].pc = "run" /\ ~Flagged(th[x].task)
    /\ th[x].pos = "reviewing" /\ th[x].verdict = "none" /\ v # "none"
    /\ th' = [th EXCEPT ![x] = Judged(Moved(@, "run", "reviewing", ViewOf(@.task)), v)]
    /\ UNCHANGED <<row, approval, dog, cancelled, process, granted>>

\* An approval that is requested and not stored, a pause that is not.
LosePause(x) ==
    /\ Lose
    /\ ~Flagged(th[x].task)
    /\ \/ th[x].pc = "run" /\ MayPause(th[x].pos, th[x].verdict)
       \/ th[x].pc = "announced"
    /\ \/ th' = [th EXCEPT ![x] = Moved(@, "tail", "awaiting_approval", ViewOf(@.task))]
       \/ /\ th[x].pc = "run" /\ th[x].pos = "executing"
          /\ th' = [th EXCEPT ![x] = Moved(@, "announced", "executing", ViewOf(@.task))]
    /\ UNCHANGED <<row, approval, dog, cancelled, process, granted>>

\* The event of a lost grant is in the log: somebody did grant the approval.
LoseGrant(o) ==
    /\ Lose
    /\ th[o].pc = "grant" /\ ~Flagged(th[o].task)
    /\ granted' = granted \cup {th[o].deciding}
    /\ th' = [th EXCEPT ![o] = Moved(@, "run", "awaiting_approval", ViewOf(@.task))]
    /\ UNCHANGED <<row, approval, dog, cancelled, process>>

LoseRequest(o) ==
    /\ Lose
    /\ ~Flagged(th[o].task)
    /\ \/ /\ th[o].pc = "reject"
          /\ th' = [th EXCEPT ![o] = Moved(@, "reject_status", @.pos, ViewOf(@.task))]
       \/ /\ th[o].pc = "abandon"
          /\ th' = [th EXCEPT ![o] = Turned(@, "abandon_flag")]
       \/ /\ th[o].pc \in {"reject_status", "rollback"}
          /\ th' = [th EXCEPT ![o] = Rest(o)]
    /\ UNCHANGED <<row, approval, dog, cancelled, process, granted>>

\* The same of the runtime's own writes; the watchdog may also lose all five
\* attempts of its second event and then never requests the cancellation.
LoseSystem(t) ==
    /\ Lose
    /\ \/ /\ th[t].pc = "crashed" /\ ~Flagged(t)
          /\ th' = [th EXCEPT ![t] = Rest(t)]
          /\ UNCHANGED <<dog, orphans>>
       \/ /\ dog[t] = "loaded" /\ ~Flagged(t)
          /\ dog' = [dog EXCEPT ![t] = "marked"]
          /\ UNCHANGED <<th, orphans>>
       \/ /\ dog[t] = "marked"
          /\ dog' = [dog EXCEPT ![t] = "idle"]
          /\ UNCHANGED <<th, orphans>>
       \/ /\ server = "sweeping" /\ t \in orphans
          /\ orphans' = orphans \ {t}
          /\ UNCHANGED <<th, dog>>
    /\ UNCHANGED <<row, approval, cancelled, server, crashes, granted>>

-----------------------------------------------------------------------------
PipelineStep(x) ==
    \/ \E s \in Statuses : EnterStatus(x, s)
    \/ \E c \in Checkpoints : WriteCheckpoint(x, c)
    \/ \E v \in Verdicts : ReviewPlan(x, v)
    \/ \E a \in Approvals : RequestApproval(x, a)
    \/ \E a \in Approvals : AnnounceApproval(x, a)
    \/ PauseAnnounced(x)
    \/ PipelineRaises(x)
    \/ FinishPipeline(x)
    \/ \E s \in Statuses : LoseStatus(x, s)
    \/ \E v \in Verdicts : LoseReview(x, v)
    \/ LosePause(x)

JobStep(t) ==
    \/ CreateTask(t)
    \/ SubmitJob(t)
    \/ StartJob(t)
    \/ StartResume(t)
    \/ CrashHandler(t)
    \/ CancelledJob(t)

OperatorStep(o) ==
    \/ \E a \in Approvals, pc \in {"grant", "reject"} : BeginDecision(o, a, pc)
    \/ Grant(o)
    \/ Reject(o)
    \/ \E s \in {"failed", "completed"} : RejectStatus(o, s)
    \/ \E t \in Tasks : BeginAbandon(o, t)
    \/ Abandon(o)
    \/ AbandonFlag(o)
    \/ \E t \in Tasks : BeginRollback(o, t)
    \/ Rollback(o)
    \/ CancelledRequest(o)
    \/ LoseGrant(o)
    \/ LoseRequest(o)

WatchdogStep(t) ==
    \/ GoStale(t)
    \/ DogLoad(t)
    \/ DogMark(t)
    \/ DogFlag(t)
    \/ LoseSystem(t)

Startup ==
    \/ \E older \in [Tasks -> Ages] : ResumeInterrupted(older)
    \/ \E tick \in [Tasks -> {0, 1}] : SweepLoad(tick)
    \/ \E t \in Tasks : SweepFail(t)
    \/ StartupDone

Next ==
    \/ \E x \in Threads : PipelineStep(x)
    \/ \E t \in Tasks : JobStep(t)
    \/ \E o \in Operators : OperatorStep(o)
    \/ \E t \in Tasks : WatchdogStep(t)
    \/ Crash
    \/ Startup

Spec == Init /\ [][Next]_vars

\* Threads keep running: one that has committed its last status returns, one that
\* is cancelled reaches its next record_event, a request that has begun is
\* carried through, a queued job is taken when a thread of the pool is free
\* again and again, startup is completed and the watchdog scans for ever.  A
\* pipeline is not obliged to reach its next status, to write a checkpoint or to
\* raise: a call or a repair loop inside it may not end.  No operator is obliged
\* to do anything.
Fairness ==
    /\ \A x \in Threads : WF_vars(FinishPipeline(x)) /\ WF_vars(PauseAnnounced(x))
    /\ \A t \in Tasks :
        /\ WF_vars(SubmitJob(t))
        /\ SF_vars(StartJob(t)) /\ SF_vars(StartResume(t))
        /\ WF_vars(CrashHandler(t)) /\ WF_vars(CancelledJob(t))
        /\ WF_vars(GoStale(t)) /\ WF_vars(DogLoad(t))
        /\ WF_vars(DogMark(t)) /\ WF_vars(DogFlag(t))
        /\ WF_vars(SweepFail(t))
    /\ \A o \in Operators :
        /\ WF_vars(Grant(o)) /\ WF_vars(Reject(o)) /\ WF_vars(Rollback(o))
        /\ WF_vars(\E s \in {"failed", "completed"} : RejectStatus(o, s))
        /\ WF_vars(Abandon(o)) /\ WF_vars(AbandonFlag(o)) /\ WF_vars(CancelledRequest(o))
    /\ WF_vars(\E older \in [Tasks -> Ages] : ResumeInterrupted(older))
    /\ WF_vars(\E tick \in [Tasks -> {0, 1}] : SweepLoad(tick))
    /\ WF_vars(StartupDone)

FairSpec == Spec /\ Fairness

-----------------------------------------------------------------------------
RowStates == [status : Statuses, pending : BOOLEAN, ckpt : Checkpoints,
              verdict : Verdicts, stale : BOOLEAN, age : Nat]
ApprovalStates == [task : Tasks, status : ApprovalStatuses]

\* A job works on its own task and never stands where an API request does; a
\* request that decides has an approval to decide.
ThreadStates(x) ==
    {s \in [pc : IF x \in Tasks THEN JobPcs ELSE Pcs, task : IF x \in Tasks THEN {x} ELSE Tasks,
            pos : Statuses, verdict : Verdicts, view : Views,
            deciding : Approvals \cup {None}, seen : SUBSET Approvals] :
        s.pc \in {"grant", "reject"} => s.deciding \in Approvals}

RowsTyped == row \in [Tasks -> RowStates]
ApprovalsTyped == approval \in [Approvals -> ApprovalStates]
ThreadsTyped ==
    /\ th = [x \in Threads |-> th[x]]
    /\ \A x \in Threads : th[x] \in ThreadStates(x)
SystemTyped ==
    /\ dog \in [Tasks -> {"idle", "loaded", "marked"}]
    /\ cancelled \subseteq Tasks /\ orphans \subseteq Tasks
    /\ server \in {"up", "down", "resuming", "sweeping"}
    /\ crashes \in Nat /\ lost \in Nat
    /\ granted \subseteq Approvals

TypeOK == RowsTyped /\ ApprovalsTyped /\ ThreadsTyped /\ SystemTyped

GrantedFor(t) == {a \in granted : approval[a].task = t}

\* pending_approval is raised and cleared by sessions that write it only when it
\* differs from what they loaded, while approvals are decided by sessions that
\* never look again at the status they checked.  Still: a task that says it
\* waits for an operator has an approval an operator can decide.  A task for
\* which this failed would be skipped by the resume (is_task_resumable) and by
\* the orphan sweep, and nobody could unblock it.
PendingFlagBacked ==
    \A t \in Tasks : row[t].pending => PendingFor(t) # {}

\* A plan the reviewer put behind an approval (verdict requires_approval) is not
\* executed before somebody granted an approval of that task, through any
\* sequence of crashes, resumes from whatever checkpoint was stored, lost
\* commits and concurrent operators.
ExecutionNeedsGrant ==
    [][\A t \in Tasks :
         /\ row[t].status # "executing" /\ row'[t].status = "executing"
         /\ row'[t].verdict = "requires_approval"
         => GrantedFor(t)' # {}]_vars

\* A flag nobody is left to clear: only a job clears the flag of its task.
LeakedFlag(t) == Flagged(t) /\ th[t].pc = "idle"

\* The watchdog ends every flight: a task that is planning, reviewing or
\* executing leaves these states, however long its thread hangs and whoever
\* else writes the row, unless a cancellation flag was left behind.
FlightEndsOrLeaks ==
    \A t \in Tasks : (row[t].status \in InFlight) ~> (row[t].status \notin InFlight \/ LeakedFlag(t))

\* The row is out of the watchdog's sight: rolled back, or failed during startup, by the
\* sweep beside the job the resume has submitted.
OutOfSight(t) ==
    row[t].status = "rolled_back" \/ (server = "sweeping" /\ row[t].status = "failed")

\* ... and the pool gets the thread of a hung job back, unless a rollback or the sweep
\* has taken the row out of the watchdog's sight.
SlotRecovered ==
    \A t \in Tasks :
        (th[t].pc \in Working /\ row[t].status \in InFlight)
            ~> (th[t].pc \notin Working \/ OutOfSight(t))

\* What the documentation says and these steps do not keep.

\* _sweep_orphaned_tasks: no task is left in an active state that nobody waits
\* for and no thread works on.
NoOrphanServed ==
    [][StartupDone => \A t \in Tasks : row[t].status \in Active /\ PendingFor(t) = {}
                                            => th[t].pc # "idle"]_vars

\* The sweep marks as failed what "no executor thread [is] alive to resume"
\* (main.py:50): no task whose job the resume has submitted just before.
SweepSparesResumed ==
    [][\A t \in Tasks : SweepFail(t) => th[t].pc = "idle"]_vars
=============================================================================
