-------------------------- MODULE TaskRuntimeProofs --------------------------
(***************************************************************************)
(* Type correctness of the task runtime, for every value of its constants. *)
(* TypeOK is inductive.  The argument goes group of actions by group of    *)
(* actions: what each one writes into a row is a row, what it makes of a   *)
(* thread is a thread, and the rest of the state it leaves typed.          *)
(***************************************************************************)
EXTENDS TaskRuntime, TLAPS

\* The statuses, checkpoints and verdicts the actions name.
LEMMA StatusFacts ==
    /\ {"absent", "created", "failed", "completed", "rolled_back", "stale_failed",
        "awaiting_approval", "planning", "reviewing", "executing"} \subseteq Statuses
    /\ {"none", "review_pre", "awaiting_approval"} \subseteq Checkpoints
    /\ {"none", "approved"} \subseteq Verdicts
    /\ {"none", "pending", "granted", "rejected", "cancelled"} = ApprovalStatuses
BY DEF Statuses, Active, InFlight, Terminal, Checkpoints, Verdicts, ApprovalStatuses

\* The places in the code the actions name.
LEMMA PcFacts ==
    /\ {"idle", "creating", "queued", "resume_queued", "run", "announced", "tail", "crashed"} = JobPcs
    /\ JobPcs \subseteq Pcs
    /\ {"grant", "reject", "reject_status", "abandon", "abandon_flag", "rollback"} \subseteq Pcs
    /\ \A s : PcAfter(s) \in JobPcs
    /\ \A c : ResumePc(c) \in JobPcs
BY DEF Pcs, JobPcs, DecisionPcs, PcAfter, ResumePc

\* What the type of a thread says of its parts.
LEMMA ThreadFacts ==
    ASSUME ThreadsTyped, NEW x \in Threads
    PROVE /\ th[x].pc \in {"grant", "reject"} => th[x].deciding \in Approvals
          /\ th[x] \in ThreadStates(x) /\ th[x].task \in Tasks /\ th[x].view \in Views
          /\ th[x].pos \in Statuses
          /\ x \in Tasks => th[x].task = x
BY DEF ThreadsTyped, ThreadStates

\* Jobs and requests are different threads.
LEMMA ThreadSplit ==
    /\ \A t \in Tasks : t \in Threads /\ t \notin Operators
    /\ \A o \in Operators : o \in Threads /\ o \notin Tasks
BY ThreadsDistinct DEF Threads

\* A loaded or updated view is a view.
LEMMA ViewFacts ==
    /\ \A v \in Views : /\ \A s \in Statuses : SeenStatus(v, s) \in Views
                        /\ \A b \in BOOLEAN : SeenPending(v, b) \in Views
    /\ RowsTyped => \A t \in Tasks : ViewOf(t) \in Views
BY DEF Views, SeenStatus, SeenPending, ViewOf, RowsTyped, RowStates

\* Every write of a session makes a row of a row.
LEMMA WrittenType ==
    \A r \in RowStates, v \in Views :
        /\ \A s \in Statuses : StatusWritten(r, v, s) \in RowStates
        /\ \A b \in BOOLEAN : PendingWritten(r, v, b) \in RowStates
        /\ \A c \in Checkpoints : CheckpointWritten(r, c) \in RowStates
        /\ FlagRaised(r, v) \in RowStates
        /\ \A n \in Nat : Aged(r, n) \in RowStates
BY StatusFacts DEF RowStates, StatusWritten, PendingWritten, CheckpointWritten, FlagRaised, Aged

\* A job decides no approval.
LEMMA NotDeciding == JobPcs \cap {"grant", "reject"} = {}
BY DEF JobPcs

\* A thread that moves stays typed where it may go.
LEMMA MovedType ==
    ASSUME NEW x \in Threads, NEW r \in ThreadStates(x)
    PROVE /\ \A p \in JobPcs, s \in Statuses, v \in Views : Moved(r, p, s, v) \in ThreadStates(x)
          /\ x \notin Tasks => \A p \in Pcs \ {"grant", "reject"}, s \in Statuses, v \in Views :
                                   Moved(r, p, s, v) \in ThreadStates(x)
          /\ \A p \in JobPcs : Turned(r, p) \in ThreadStates(x)
          /\ x \notin Tasks => \A p \in Pcs \ {"grant", "reject"} : Turned(r, p) \in ThreadStates(x)
          /\ \A v \in Verdicts : Judged(r, v) \in ThreadStates(x)
<1>1. \A p \in JobPcs, s \in Statuses, v \in Views : Moved(r, p, s, v) \in ThreadStates(x)
  BY PcFacts, NotDeciding DEF Moved, ThreadStates
<1>2. x \notin Tasks => \A p \in Pcs \ {"grant", "reject"}, s \in Statuses, v \in Views :
                                   Moved(r, p, s, v) \in ThreadStates(x)
  BY PcFacts DEF Moved, ThreadStates
<1>3. \A p \in JobPcs : Turned(r, p) \in ThreadStates(x)
  BY PcFacts, NotDeciding DEF Turned, ThreadStates
<1>4. x \notin Tasks => \A p \in Pcs \ {"grant", "reject"} : Turned(r, p) \in ThreadStates(x)
  BY DEF Turned, ThreadStates
<1>5. \A v \in Verdicts : Judged(r, v) \in ThreadStates(x)
  BY DEF Judged, ThreadStates
<1> QED
  BY <1>1, <1>2, <1>3, <1>4, <1>5

\* A thread at rest is typed.
LEMMA RestType == \A x \in Threads : Rest(x) \in ThreadStates(x)
<1>1. AnyTask \in Tasks
  BY TasksExist DEF AnyTask
<1>2. ASSUME NEW x \in Threads, NEW t \in Tasks, x \in Tasks => t = x
      PROVE Idle(t) \in ThreadStates(x)
  BY <1>2, StatusFacts, PcFacts DEF Idle, ThreadStates, Views
<1> QED
  BY <1>1, <1>2 DEF Rest

\* The initial state is typed.
LEMMA InitType == Init => TypeOK
<1> SUFFICES ASSUME Init PROVE TypeOK
  OBVIOUS
<1>1. RowsTyped
  BY StatusFacts DEF Init, NewRow, RowsTyped, RowStates
<1>2. ApprovalsTyped
  BY StatusFacts, TasksExist DEF Init, AnyTask, ApprovalsTyped, ApprovalStates
<1>3. ThreadsTyped
  BY RestType DEF Init, ThreadsTyped
<1>4. SystemTyped
  BY DEF Init, SystemTyped
<1> QED
  BY <1>1, <1>2, <1>3, <1>4 DEF TypeOK

\* One thread's step: at most one row and that thread's record change.
LEMMA OneThreadStep ==
    ASSUME TypeOK, ApprovalsTyped', SystemTyped',
           NEW x \in Threads, NEW s \in ThreadStates(x), th' = [th EXCEPT ![x] = s],
           NEW t \in Tasks, NEW r \in RowStates, row' = row \/ row' = [row EXCEPT ![t] = r]
    PROVE TypeOK'
<1>1. RowsTyped'
  BY DEF TypeOK, RowsTyped
<1>2. ThreadsTyped'
  BY DEF TypeOK, ThreadsTyped
<1> QED
  BY <1>1, <1>2 DEF TypeOK

\* A step that leaves the threads alone and changes at most one row.
LEMMA OtherStep ==
    ASSUME TypeOK, ApprovalsTyped', SystemTyped', th' = th,
           NEW t \in Tasks, NEW r \in RowStates, row' = row \/ row' = [row EXCEPT ![t] = r]
    PROVE TypeOK'
BY DEF TypeOK, RowsTyped, ThreadsTyped

\* A request that begins is typed.
LEMMA RequestType ==
    ASSUME TypeOK, ApprovalsTyped', SystemTyped', row' = row,
           NEW o \in Operators, NEW pc \in Pcs, NEW u \in Tasks, NEW d \in Approvals \cup {None},
           pc \in {"grant", "reject"} => d \in Approvals,
           Request(o, pc, u, d)
    PROVE TypeOK'
<1>1. ViewOf(u) \in Views /\ PendingFor(u) \subseteq Approvals /\ row[u] \in RowStates
  BY ViewFacts DEF TypeOK, PendingFor, RowsTyped
<1>2. [Idle(u) EXCEPT !.pc = pc, !.view = ViewOf(u), !.deciding = d, !.seen = PendingFor(u)]
         \in ThreadStates(o)
  BY <1>1, ThreadSplit, StatusFacts DEF Idle, ThreadStates
<1> QED
  BY <1>1, <1>2, ThreadSplit, OneThreadStep DEF Request

\* The steps of a pipeline keep the types.
LEMMA PipelineType ==
    ASSUME TypeOK, NEW x \in Threads, PipelineStep(x) PROVE TypeOK'
<1>. DEFINE t == th[x].task
<1>0. /\ TypeOK /\ RowsTyped /\ ApprovalsTyped /\ ThreadsTyped /\ SystemTyped
      /\ t \in Tasks /\ row[t] \in RowStates
      /\ th[x] \in ThreadStates(x) /\ th[x].view \in Views /\ ViewOf(t) \in Views
  BY ThreadFacts, ViewFacts DEF TypeOK, RowsTyped
<1>1. ASSUME NEW s \in Statuses, EnterStatus(x, s) PROVE TypeOK'
  <2>1. StatusWritten(row[t], th[x].view, s) \in RowStates
    BY <1>0, <1>1, WrittenType, StatusFacts DEF EnterStatus
  <2>2. Moved(th[x], PcAfter(s), s, SeenStatus(th[x].view, s)) \in ThreadStates(x)
    BY <1>0, MovedType, RestType, PcFacts, StatusFacts, ViewFacts
  <2>3. ApprovalsTyped' /\ SystemTyped'
    BY <1>0, <1>1, StatusFacts DEF EnterStatus, ApprovalsTyped, ApprovalStates, SystemTyped, process
  <2> QED
    BY <1>0, <1>1, <2>1, <2>2, <2>3, OneThreadStep DEF EnterStatus
<1>2. ASSUME NEW c \in Checkpoints, WriteCheckpoint(x, c) PROVE TypeOK'
  <2>1. CheckpointWritten(row[t], c) \in RowStates
    BY <1>0, <1>2, WrittenType, StatusFacts DEF WriteCheckpoint
  <2>2. ApprovalsTyped' /\ SystemTyped'
    BY <1>0, <1>2, StatusFacts DEF WriteCheckpoint, ApprovalsTyped, ApprovalStates, SystemTyped, process
  <2> QED
    BY <1>0, <1>2, <2>1, <2>2, OtherStep DEF WriteCheckpoint
<1>3. ASSUME NEW v \in Verdicts, ReviewPlan(x, v) PROVE TypeOK'
  <2>1. [CheckpointWritten(row[t], "review_pre") EXCEPT !.verdict = v] \in RowStates
    BY <1>0, <1>3, WrittenType, StatusFacts DEF ReviewPlan, RowStates
  <2>2. Judged(th[x], v) \in ThreadStates(x)
    BY <1>0, MovedType, RestType, PcFacts, StatusFacts, ViewFacts
  <2>3. ApprovalsTyped' /\ SystemTyped'
    BY <1>0, <1>3, StatusFacts DEF ReviewPlan, RowStates, ApprovalsTyped, ApprovalStates, SystemTyped, process
  <2> QED
    BY <1>0, <1>3, <2>1, <2>2, <2>3, OneThreadStep DEF ReviewPlan, RowStates
<1>4. ASSUME NEW a \in Approvals, RequestApproval(x, a) PROVE TypeOK'
  <2>1. StatusWritten(FlagRaised(row[t], th[x].view), th[x].view, "awaiting_approval") \in RowStates
    BY <1>0, <1>4, WrittenType, StatusFacts DEF RequestApproval
  <2>2. Moved(th[x], "tail", "awaiting_approval", [status |-> "awaiting_approval", pending |-> TRUE]) \in ThreadStates(x)
    <3>1. [status |-> "awaiting_approval", pending |-> TRUE] \in Views
      BY StatusFacts DEF Views
    <3> QED
      BY <1>0, <3>1, MovedType, PcFacts, StatusFacts
  <2>3. ApprovalsTyped' /\ SystemTyped'
    BY <1>0, <1>4, StatusFacts DEF RequestApproval, ApprovalsTyped, ApprovalStates, SystemTyped, process, NewApproval
  <2> QED
    BY <1>0, <1>4, <2>1, <2>2, <2>3, OneThreadStep DEF RequestApproval
<1>5. ASSUME NEW a \in Approvals, AnnounceApproval(x, a) PROVE TypeOK'
  <2>1. FlagRaised(row[t], th[x].view) \in RowStates
    BY <1>0, <1>5, WrittenType, StatusFacts DEF AnnounceApproval
  <2>2. Moved(th[x], "announced", "executing", SeenPending(th[x].view, TRUE)) \in ThreadStates(x)
    BY <1>0, MovedType, RestType, PcFacts, StatusFacts, ViewFacts
  <2>3. ApprovalsTyped' /\ SystemTyped'
    BY <1>0, <1>5, StatusFacts DEF AnnounceApproval, ApprovalsTyped, ApprovalStates, SystemTyped, process, NewApproval
  <2> QED
    BY <1>0, <1>5, <2>1, <2>2, <2>3, OneThreadStep DEF AnnounceApproval
<1>6. ASSUME PauseAnnounced(x) PROVE TypeOK'
  <2>1. StatusWritten(row[t], th[x].view, "awaiting_approval") \in RowStates
    BY <1>0, <1>6, WrittenType, StatusFacts DEF PauseAnnounced
  <2>2. Moved(th[x], "tail", "awaiting_approval", SeenStatus(th[x].view, "awaiting_approval")) \in ThreadStates(x)
    BY <1>0, MovedType, RestType, PcFacts, StatusFacts, ViewFacts
  <2>3. ApprovalsTyped' /\ SystemTyped'
    BY <1>0, <1>6, StatusFacts DEF PauseAnnounced, ApprovalsTyped, ApprovalStates, SystemTyped, process
  <2> QED
    BY <1>0, <1>6, <2>1, <2>2, <2>3, OneThreadStep DEF PauseAnnounced
<1>7. ASSUME PipelineRaises(x) PROVE TypeOK'
  <2>1. (IF x \in Tasks THEN Turned(th[x], "crashed") ELSE Rest(x)) \in ThreadStates(x)
    BY <1>0, MovedType, RestType, PcFacts, StatusFacts, ViewFacts
  <2>2. ApprovalsTyped' /\ SystemTyped'
    BY <1>0, <1>7, StatusFacts DEF PipelineRaises, ApprovalsTyped, ApprovalStates, SystemTyped, process
  <2> QED
    BY <1>0, <1>7, <2>1, <2>2, OneThreadStep DEF PipelineRaises
<1>8. ASSUME FinishPipeline(x) PROVE TypeOK'
  <2>1. Rest(x) \in ThreadStates(x)
    BY <1>0, MovedType, RestType, PcFacts, StatusFacts, ViewFacts
  <2>2. ApprovalsTyped' /\ SystemTyped'
    BY <1>0, <1>8, StatusFacts DEF FinishPipeline, ApprovalsTyped, ApprovalStates, SystemTyped, process
  <2> QED
    BY <1>0, <1>8, <2>1, <2>2, OneThreadStep DEF FinishPipeline
<1>9. ASSUME NEW s \in Statuses, LoseStatus(x, s) PROVE TypeOK'
  <2>1. Moved(th[x], PcAfter(s), s, ViewOf(t)) \in ThreadStates(x)
    BY <1>0, MovedType, RestType, PcFacts, StatusFacts, ViewFacts
  <2>2. ApprovalsTyped' /\ SystemTyped'
    BY <1>0, <1>9, StatusFacts DEF LoseStatus, ApprovalsTyped, ApprovalStates, SystemTyped, process, Lose
  <2> QED
    BY <1>0, <1>9, <2>1, <2>2, OneThreadStep DEF LoseStatus
<1>10. ASSUME NEW v \in Verdicts, LoseReview(x, v) PROVE TypeOK'
  <2>1. Judged(Moved(th[x], "run", "reviewing", ViewOf(t)), v) \in ThreadStates(x)
    BY <1>0, MovedType, RestType, PcFacts, StatusFacts, ViewFacts
  <2>2. ApprovalsTyped' /\ SystemTyped'
    BY <1>0, <1>10, StatusFacts DEF LoseReview, ApprovalsTyped, ApprovalStates, SystemTyped, process, Lose
  <2> QED
    BY <1>0, <1>10, <2>1, <2>2, OneThreadStep DEF LoseReview
<1>11. ASSUME LosePause(x) PROVE TypeOK'
  <2>1. /\ Moved(th[x], "tail", "awaiting_approval", ViewOf(t)) \in ThreadStates(x)
        /\ Moved(th[x], "announced", "executing", ViewOf(t)) \in ThreadStates(x)
    BY <1>0, MovedType, PcFacts, StatusFacts
  <2>2. ApprovalsTyped' /\ SystemTyped'
    BY <1>0, <1>11, StatusFacts DEF LosePause, ApprovalsTyped, ApprovalStates, SystemTyped, process, Lose
  <2> QED
    BY <1>0, <1>11, <2>1, <2>2, OneThreadStep DEF LosePause
<1> QED
  BY <1>1, <1>2, <1>3, <1>4, <1>5, <1>6, <1>7, <1>8, <1>9, <1>10, <1>11 DEF PipelineStep

\* The steps of a job outside its pipeline keep the types.
LEMMA JobType ==
    ASSUME TypeOK, NEW t \in Tasks, JobStep(t) PROVE TypeOK'
<1>0. /\ TypeOK /\ RowsTyped /\ ApprovalsTyped /\ ThreadsTyped /\ SystemTyped
      /\ row[t] \in RowStates /\ t \in Threads
      /\ th[t] \in ThreadStates(t) /\ ViewOf(t) \in Views
  BY ThreadSplit, ThreadFacts, ViewFacts DEF TypeOK, RowsTyped
<1>1. ASSUME CreateTask(t) PROVE TypeOK'
  <2>1. NewRow("created") \in RowStates
    BY <1>0, <1>1, WrittenType, StatusFacts DEF CreateTask, NewRow, RowStates
  <2>2. Turned(th[t], "creating") \in ThreadStates(t)
    BY <1>0, MovedType, RestType, PcFacts, StatusFacts, ViewFacts
  <2>3. ApprovalsTyped' /\ SystemTyped'
    BY <1>0, <1>1, StatusFacts DEF CreateTask, RowStates, ApprovalsTyped, ApprovalStates, SystemTyped, process
  <2> QED
    BY <1>0, <1>1, <2>1, <2>2, <2>3, OneThreadStep DEF CreateTask, NewRow, RowStates
<1>2. ASSUME SubmitJob(t) PROVE TypeOK'
  <2>1. Turned(th[t], "queued") \in ThreadStates(t)
    BY <1>0, MovedType, RestType, PcFacts, StatusFacts, ViewFacts
  <2>2. ApprovalsTyped' /\ SystemTyped'
    BY <1>0, <1>2, StatusFacts DEF SubmitJob, ApprovalsTyped, ApprovalStates, SystemTyped, process
  <2> QED
    BY <1>0, <1>2, <2>1, <2>2, OneThreadStep DEF SubmitJob
<1>3. ASSUME StartJob(t) PROVE TypeOK'
  <2>1. Moved(Rest(t), "run", "created", ViewOf(t)) \in ThreadStates(t)
    BY <1>0, MovedType, RestType, PcFacts, StatusFacts, ViewFacts
  <2>2. ApprovalsTyped' /\ SystemTyped'
    BY <1>0, <1>3, StatusFacts DEF StartJob, ApprovalsTyped, ApprovalStates, SystemTyped, process
  <2> QED
    BY <1>0, <1>3, <2>1, <2>2, OneThreadStep DEF StartJob
<1>4. ASSUME StartResume(t) PROVE TypeOK'
  <2>1. ResumeAt(row[t].ckpt) \in Statuses
    BY StatusFacts DEF ResumeAt
  <2>2. ResumeVerdict(t) \in Verdicts
    BY <1>0, StatusFacts DEF ResumeVerdict, RowStates
  <2>3. Moved(Rest(t), ResumePc(row[t].ckpt), ResumeAt(row[t].ckpt), ViewOf(t)) \in ThreadStates(t)
    BY <1>0, <2>1, MovedType, RestType, PcFacts
  <2>4. Judged(Moved(Rest(t), ResumePc(row[t].ckpt), ResumeAt(row[t].ckpt), ViewOf(t)),
               ResumeVerdict(t)) \in ThreadStates(t)
    BY <1>0, <2>2, <2>3, MovedType
  <2>5. ApprovalsTyped' /\ SystemTyped'
    BY <1>0, <1>4, StatusFacts DEF StartResume, ApprovalsTyped, ApprovalStates, SystemTyped, process
  <2> QED
    BY <1>0, <1>4, <2>4, <2>5, OneThreadStep DEF StartResume
<1>5. ASSUME CrashHandler(t) PROVE TypeOK'
  <2>1. [row[t] EXCEPT !.status = "failed", !.stale = FALSE] \in RowStates
    BY <1>0, <1>5, WrittenType, StatusFacts DEF CrashHandler, RowStates
  <2>2. Rest(t) \in ThreadStates(t)
    BY <1>0, MovedType, RestType, PcFacts, StatusFacts, ViewFacts
  <2>3. ApprovalsTyped' /\ SystemTyped'
    BY <1>0, <1>5, StatusFacts DEF CrashHandler, ApprovalsTyped, ApprovalStates, SystemTyped, process
  <2> QED
    <3>1. \/ row' = row
          \/ row' = [row EXCEPT ![t] = [row[t] EXCEPT !.status = "failed", !.stale = FALSE]]
      BY <1>5 DEF CrashHandler
    <3>2. th' = [th EXCEPT ![t] = Rest(t)]
      BY <1>5 DEF CrashHandler
    <3> QED
      BY <1>0, <2>1, <2>2, <2>3, <3>1, <3>2, OneThreadStep
<1>6. ASSUME CancelledJob(t) PROVE TypeOK'
  <2>1. Rest(t) \in ThreadStates(t)
    BY <1>0, MovedType, RestType, PcFacts, StatusFacts, ViewFacts
  <2>2. ApprovalsTyped' /\ SystemTyped'
    BY <1>0, <1>6, StatusFacts DEF CancelledJob, ApprovalsTyped, ApprovalStates, SystemTyped, process
  <2> QED
    BY <1>0, <1>6, <2>1, <2>2, OneThreadStep DEF CancelledJob
<1> QED
  BY <1>1, <1>2, <1>3, <1>4, <1>5, <1>6 DEF JobStep

\* The steps of API requests keep the types.
LEMMA OperatorType ==
    ASSUME TypeOK, NEW o \in Operators, OperatorStep(o) PROVE TypeOK'
<1>. DEFINE t == th[o].task
<1>0. /\ TypeOK /\ RowsTyped /\ ApprovalsTyped /\ ThreadsTyped /\ SystemTyped
      /\ o \in Threads /\ o \notin Tasks /\ t \in Tasks /\ row[t] \in RowStates
      /\ th[o] \in ThreadStates(o) /\ th[o].view \in Views /\ th[o].pos \in Statuses
      /\ ViewOf(t) \in Views
  BY ThreadSplit, ThreadFacts, ViewFacts DEF TypeOK, RowsTyped
<1>1. ASSUME NEW a \in Approvals, NEW pc \in {"grant", "reject"}, BeginDecision(o, a, pc) PROVE TypeOK'
  <2>1. approval[a].task \in Tasks /\ pc \in Pcs
    BY <1>0, PcFacts DEF ApprovalsTyped, ApprovalStates
  <2>2. ApprovalsTyped' /\ SystemTyped'
    BY <1>0, <1>1, StatusFacts DEF BeginDecision, ApprovalsTyped, ApprovalStates, SystemTyped, process
  <2> QED
    BY <1>0, <1>1, <2>1, <2>2, RequestType DEF BeginDecision
<1>2. ASSUME Grant(o) PROVE TypeOK'
  <2>1. PendingWritten(row[t], th[o].view, FALSE) \in RowStates
    BY <1>0, <1>2, WrittenType, StatusFacts DEF Grant
  <2>2. Moved(th[o], "run", "awaiting_approval", SeenPending(th[o].view, FALSE)) \in ThreadStates(o)
    BY <1>0, MovedType, RestType, PcFacts, StatusFacts, ViewFacts
  <2>3. ApprovalsTyped' /\ SystemTyped'
    BY <1>0, <1>2, ThreadFacts, StatusFacts DEF Grant, ApprovalsTyped, ApprovalStates, SystemTyped, process
  <2> QED
    BY <1>0, <1>2, <2>1, <2>2, <2>3, OneThreadStep DEF Grant
<1>3. ASSUME Reject(o) PROVE TypeOK'
  <2>1. PendingWritten(row[t], th[o].view, FALSE) \in RowStates
    BY <1>0, <1>3, WrittenType, StatusFacts DEF Reject
  <2>2. Moved(th[o], "reject_status", th[o].pos, SeenPending(th[o].view, FALSE)) \in ThreadStates(o)
    BY <1>0, MovedType, RestType, PcFacts, StatusFacts, ViewFacts
  <2>3. ApprovalsTyped' /\ SystemTyped'
    BY <1>0, <1>3, StatusFacts DEF Reject, ApprovalsTyped, ApprovalStates, SystemTyped, process
  <2> QED
    BY <1>0, <1>3, <2>1, <2>2, <2>3, OneThreadStep DEF Reject
<1>4. ASSUME NEW s \in {"failed", "completed"}, RejectStatus(o, s) PROVE TypeOK'
  <2>1. StatusWritten(row[t], th[o].view, s) \in RowStates
    BY <1>0, <1>4, WrittenType, StatusFacts DEF RejectStatus
  <2>2. Rest(o) \in ThreadStates(o)
    BY <1>0, MovedType, RestType, PcFacts, StatusFacts, ViewFacts
  <2>3. ApprovalsTyped' /\ SystemTyped'
    BY <1>0, <1>4, StatusFacts DEF RejectStatus, ApprovalsTyped, ApprovalStates, SystemTyped, process
  <2> QED
    BY <1>0, <1>4, <2>1, <2>2, <2>3, OneThreadStep DEF RejectStatus
<1>5. ASSUME NEW u \in Tasks, BeginAbandon(o, u) PROVE TypeOK'
  <2>1. "abandon" \in Pcs
    BY PcFacts
  <2>2. ApprovalsTyped' /\ SystemTyped'
    BY <1>0, <1>5, StatusFacts DEF BeginAbandon, ApprovalsTyped, ApprovalStates, SystemTyped, process
  <2> QED
    BY <1>0, <1>5, <2>1, <2>2, RequestType DEF BeginAbandon
<1>6. ASSUME Abandon(o) PROVE TypeOK'
  <2>1. StatusWritten(row[t], th[o].view, "failed") \in RowStates
    BY <1>0, <1>6, WrittenType, StatusFacts DEF Abandon
  <2>2. Turned(th[o], "abandon_flag") \in ThreadStates(o)
    BY <1>0, MovedType, RestType, PcFacts, StatusFacts, ViewFacts
  <2>3. ApprovalsTyped' /\ SystemTyped'
    BY <1>0, <1>6, StatusFacts DEF Abandon, ApprovalsTyped, ApprovalStates, SystemTyped, process
  <2> QED
    BY <1>0, <1>6, <2>1, <2>2, <2>3, OneThreadStep DEF Abandon
<1>7. ASSUME AbandonFlag(o) PROVE TypeOK'
  <2>1. Rest(o) \in ThreadStates(o)
    BY <1>0, MovedType, RestType, PcFacts, StatusFacts, ViewFacts
  <2>2. ApprovalsTyped' /\ SystemTyped'
    BY <1>0, <1>7, StatusFacts DEF AbandonFlag, ApprovalsTyped, ApprovalStates, SystemTyped, process
  <2> QED
    BY <1>0, <1>7, <2>1, <2>2, OneThreadStep DEF AbandonFlag
<1>8. ASSUME NEW u \in Tasks, BeginRollback(o, u) PROVE TypeOK'
  <2>1. "rollback" \in Pcs
    BY PcFacts
  <2>2. ApprovalsTyped' /\ SystemTyped'
    BY <1>0, <1>8, StatusFacts DEF BeginRollback, ApprovalsTyped, ApprovalStates, SystemTyped, process
  <2> QED
    BY <1>0, <1>8, <2>1, <2>2, RequestType DEF BeginRollback
<1>9. ASSUME Rollback(o) PROVE TypeOK'
  <2>1. StatusWritten(PendingWritten(row[t], th[o].view, FALSE), th[o].view, "rolled_back") \in RowStates
    BY <1>0, <1>9, WrittenType, StatusFacts DEF Rollback
  <2>2. Rest(o) \in ThreadStates(o)
    BY <1>0, MovedType, RestType, PcFacts, StatusFacts, ViewFacts
  <2>3. ApprovalsTyped' /\ SystemTyped'
    BY <1>0, <1>9, StatusFacts DEF Rollback, ApprovalsTyped, ApprovalStates, SystemTyped, process
  <2> QED
    BY <1>0, <1>9, <2>1, <2>2, <2>3, OneThreadStep DEF Rollback
<1>10. ASSUME CancelledRequest(o) PROVE TypeOK'
  <2>1. Rest(o) \in ThreadStates(o)
    BY <1>0, MovedType, RestType, PcFacts, StatusFacts, ViewFacts
  <2>2. ApprovalsTyped' /\ SystemTyped'
    BY <1>0, <1>10, StatusFacts DEF CancelledRequest, ApprovalsTyped, ApprovalStates, SystemTyped, process
  <2> QED
    BY <1>0, <1>10, <2>1, <2>2, OneThreadStep DEF CancelledRequest
<1>11. ASSUME LoseGrant(o) PROVE TypeOK'
  <2>1. Moved(th[o], "run", "awaiting_approval", ViewOf(t)) \in ThreadStates(o)
    BY <1>0, MovedType, RestType, PcFacts, StatusFacts, ViewFacts
  <2>2. ApprovalsTyped' /\ SystemTyped'
    BY <1>0, <1>11, ThreadFacts, StatusFacts DEF LoseGrant, ApprovalsTyped, ApprovalStates, SystemTyped, process, Lose
  <2> QED
    BY <1>0, <1>11, <2>1, <2>2, OneThreadStep DEF LoseGrant
<1>12. ASSUME LoseRequest(o) PROVE TypeOK'
  <2>1. /\ Moved(th[o], "reject_status", th[o].pos, ViewOf(t)) \in ThreadStates(o)
        /\ Turned(th[o], "abandon_flag") \in ThreadStates(o)
        /\ Rest(o) \in ThreadStates(o)
    BY <1>0, MovedType, RestType, PcFacts
  <2>2. ApprovalsTyped' /\ SystemTyped'
    BY <1>0, <1>12, StatusFacts DEF LoseRequest, ApprovalsTyped, ApprovalStates, SystemTyped, process, Lose
  <2> QED
    BY <1>0, <1>12, <2>1, <2>2, OneThreadStep DEF LoseRequest
<1> QED
  BY <1>1, <1>2, <1>3, <1>4, <1>5, <1>6, <1>7, <1>8, <1>9, <1>10, <1>11, <1>12 DEF OperatorStep

\* The steps of the watchdog keep the types.
LEMMA WatchdogType ==
    ASSUME TypeOK, NEW t \in Tasks, WatchdogStep(t) PROVE TypeOK'
<1>0. /\ TypeOK /\ RowsTyped /\ ApprovalsTyped /\ ThreadsTyped /\ SystemTyped
      /\ row[t] \in RowStates
  BY DEF TypeOK, RowsTyped
<1>1. ASSUME GoStale(t) PROVE TypeOK'
  <2>1. [row[t] EXCEPT !.stale = TRUE] \in RowStates
    BY <1>0, <1>1, WrittenType, StatusFacts DEF GoStale, RowStates
  <2>2. ApprovalsTyped' /\ SystemTyped'
    BY <1>0, <1>1, StatusFacts DEF GoStale, RowStates, ApprovalsTyped, ApprovalStates, SystemTyped, process
  <2> QED
    BY <1>0, <1>1, <2>1, <2>2, OtherStep DEF GoStale, RowStates
<1>2. ASSUME DogLoad(t) PROVE TypeOK'
  <2>1. ApprovalsTyped' /\ SystemTyped'
    BY <1>0, <1>2, StatusFacts DEF DogLoad, ApprovalsTyped, ApprovalStates, SystemTyped, process
  <2> QED
    BY <1>0, <1>2, <2>1, OtherStep DEF DogLoad
<1>3. ASSUME DogMark(t) PROVE TypeOK'
  <2>1. [row[t] EXCEPT !.status = "stale_failed", !.stale = FALSE] \in RowStates
    BY <1>0, <1>3, WrittenType, StatusFacts DEF DogMark, RowStates
  <2>2. ApprovalsTyped' /\ SystemTyped'
    BY <1>0, <1>3, StatusFacts DEF DogMark, RowStates, ApprovalsTyped, ApprovalStates, SystemTyped, process
  <2> QED
    <3>1. \/ row' = row
          \/ row' = [row EXCEPT ![t] = [row[t] EXCEPT !.status = "stale_failed", !.stale = FALSE]]
      BY <1>3 DEF DogMark
    <3>2. th' = th
      BY <1>3 DEF DogMark
    <3> QED
      BY <1>0, <2>1, <2>2, <3>1, <3>2, OtherStep
<1>4. ASSUME DogFlag(t) PROVE TypeOK'
  <2>1. ApprovalsTyped' /\ SystemTyped'
    BY <1>0, <1>4, StatusFacts DEF DogFlag, ApprovalsTyped, ApprovalStates, SystemTyped, process
  <2> QED
    BY <1>0, <1>4, <2>1, OtherStep DEF DogFlag
<1>5. ASSUME LoseSystem(t) PROVE TypeOK'
  <2>1. ApprovalsTyped' /\ SystemTyped'
    BY <1>0, <1>5, StatusFacts DEF LoseSystem, ApprovalsTyped, ApprovalStates, SystemTyped, process, Lose
  <2> QED
    <3>1. row' = row /\ (th' = th \/ th' = [th EXCEPT ![t] = Rest(t)])
      BY <1>5 DEF LoseSystem
    <3>2. Rest(t) \in ThreadStates(t) /\ t \in Threads
      BY RestType, ThreadSplit
    <3> QED
      BY <1>0, <2>1, <3>1, <3>2, OneThreadStep, OtherStep
<1> QED
  BY <1>1, <1>2, <1>3, <1>4, <1>5 DEF WatchdogStep

\* A crash and the steps of startup keep the types.
LEMMA ProcessType ==
    ASSUME TypeOK, Crash \/ Startup PROVE TypeOK'
<1>0. RowsTyped /\ ApprovalsTyped /\ ThreadsTyped /\ SystemTyped
  BY DEF TypeOK
<1>1. ASSUME NEW age \in [Tasks -> Nat] PROVE [u \in Tasks |-> Aged(row[u], age[u])] \in [Tasks -> RowStates]
  BY <1>0 DEF RowsTyped, Aged, RowStates
<1>2. CASE Crash
  <2>1. ThreadsTyped'
    BY <1>2, RestType DEF Crash, ThreadsTyped
  <2> QED
    BY <1>0, <1>2, <2>1 DEF Crash, TypeOK, RowsTyped, ApprovalsTyped, SystemTyped
<1>3. ASSUME NEW older \in [Tasks -> Ages], ResumeInterrupted(older) PROVE TypeOK'
  <2>1. RowsTyped'
    <3>1. older \in [Tasks -> Nat]
      BY BoundsNat
    <3> QED
      BY <1>1, <1>3, <3>1 DEF ResumeInterrupted, RowsTyped
  <2>2. \A x \in Threads : [Rest(x) EXCEPT !.pc = "resume_queued"] \in ThreadStates(x)
    BY RestType, MovedType, PcFacts DEF Turned
  <2>3. ThreadsTyped'
    BY <1>3, <2>2, RestType DEF ResumeInterrupted, ThreadsTyped
  <2>4. ApprovalsTyped' /\ SystemTyped'
    BY <1>0, <1>3 DEF ResumeInterrupted, ApprovalsTyped, SystemTyped
  <2> QED
    BY <2>1, <2>3, <2>4 DEF TypeOK
<1>4. ASSUME NEW tick \in [Tasks -> {0, 1}], SweepLoad(tick) PROVE TypeOK'
  <2>1. RowsTyped'
    <3>1. [u \in Tasks |-> row[u].age + tick[u]] \in [Tasks -> Nat]
      BY <1>0 DEF RowsTyped, RowStates
    <3>2. [u \in Tasks |-> Aged(row[u], row[u].age + tick[u])] \in [Tasks -> RowStates]
      BY <1>1, <3>1
    <3> QED
      BY <1>4, <3>2 DEF SweepLoad, RowsTyped
  <2>2. ThreadsTyped' /\ ApprovalsTyped' /\ SystemTyped'
    BY <1>0, <1>4 DEF SweepLoad, ThreadsTyped, ApprovalsTyped, SystemTyped
  <2> QED
    BY <2>1, <2>2 DEF TypeOK
<1>5. ASSUME NEW t \in Tasks, SweepFail(t) PROVE TypeOK'
  <2>1. [row[t] EXCEPT !.status = "failed", !.stale = FALSE] \in RowStates
    BY <1>0, StatusFacts DEF RowsTyped, RowStates
  <2>2. ApprovalsTyped' /\ SystemTyped'
    BY <1>0, <1>5 DEF SweepFail, ApprovalsTyped, SystemTyped
  <2> QED
    <3>1. row' = [row EXCEPT ![t] = [row[t] EXCEPT !.status = "failed", !.stale = FALSE]]
      BY <1>0, <1>5 DEF SweepFail, RowsTyped
    <3>2. th' = th
      BY <1>5 DEF SweepFail
    <3> QED
      BY <1>0, <2>1, <2>2, <3>1, <3>2, OtherStep
<1>6. CASE StartupDone
  BY <1>0, <1>6 DEF StartupDone, TypeOK, RowsTyped, ApprovalsTyped, ThreadsTyped, SystemTyped
<1> QED
  BY <1>2, <1>3, <1>4, <1>5, <1>6 DEF Startup

\* Every step keeps the types.
LEMMA StepType == TypeOK /\ [Next]_vars => TypeOK'
<1> SUFFICES ASSUME TypeOK, [Next]_vars PROVE TypeOK'
  OBVIOUS
<1>1. CASE UNCHANGED vars
  BY <1>1 DEF vars, TypeOK, RowsTyped, ApprovalsTyped, ThreadsTyped, SystemTyped
<1> QED
  BY <1>1, PipelineType, JobType, OperatorType, WatchdogType, ProcessType DEF Next

\* Rows, approvals, threads, flags and the phases of startup and watchdog are at all
\* times what the columns and the code allow; in particular a job never stands
\* where an API request does and a decision always has an approval to decide.
THEOREM TypeCorrect == Spec => []TypeOK
BY InitType, StepType, PTL DEF Spec

=============================================================================
