-------------------------- MODULE TaskRuntimeSafety --------------------------
(***************************************************************************)
(* The safety of the task runtime, for any number of tasks, operators and  *)
(* approvals, any pool size and any number of restarts and lost commits.   *)
(* Two inductive invariants carry it:                                      *)
(*   FlagInv     a raised pending_approval is backed by an approval whose  *)
(*               every decider will lower it;                              *)
(*   GuardInv    while a plan waits for its grant, its checkpoint, its job *)
(*               and its operators are where none of them can execute it.  *)
(***************************************************************************)
EXTENDS TaskRuntimeProofs

\* Thread s is about to decide approval a.
Deciding == {"grant", "reject", "rollback"}
Decides(s, a) ==
    \/ s.pc \in {"grant", "reject"} /\ s.deciding = a
    \/ s.pc = "rollback" /\ a \in s.seen

\* Who decides an approval does so for its task, and what was granted exists.
KnownApprovals ==
    /\ \A x \in Threads, a \in Approvals :
            Decides(th[x], a) => approval[a].status # "none" /\ approval[a].task = th[x].task
    /\ \A a \in granted : approval[a].status # "none"

\* Approval a backs the flag of t: whoever is about to decide it loaded the flag
\* raised, so the commit of the decision lowers it.
Backing(t, a) ==
    /\ approval[a].task = t /\ approval[a].status = "pending"
    /\ \A x \in Threads : Decides(th[x], a) => th[x].view.pending

FlagInv ==
    /\ TypeOK /\ KnownApprovals
    /\ \A t \in Tasks : row[t].pending => \E a \in Approvals : Backing(t, a)

\* The plan of t waits for a grant nobody has given.
Guarded(t) == row[t].verdict = "requires_approval" /\ GrantedFor(t) = {}

GuardKept(t) ==
    Guarded(t) =>
      /\ row[t].ckpt \in {"review_pre", "awaiting_approval"}
      /\ th[t].pc \notin {"creating", "queued"}
      /\ th[t].pc = "run" => th[t].pos = "reviewing" /\ th[t].verdict = "requires_approval"

\* An operator who runs a pipeline was granted it.
HasGrant(o) == th[o].pc = "run" => \E a \in granted : approval[a].task = th[o].task

GuardInv ==
    /\ \A t \in Tasks : GuardKept(t)
    /\ \A o \in Operators : HasGrant(o)

\* A grant, once given, stays with its task.
GrantsKept ==
    /\ granted \subseteq granted'
    /\ \A a \in granted : approval'[a].task = approval[a].task

-----------------------------------------------------------------------------
(* What the writes and the moves leave as it was.                          *)

\* Writing a status or a checkpoint leaves pending_approval as it was.
LEMMA PendingKept ==
    \A r \in RowStates : \A v : /\ \A s : StatusWritten(r, v, s).pending <=> r.pending
                           /\ \A c : CheckpointWritten(r, c).pending <=> r.pending
BY DEF RowStates, StatusWritten, CheckpointWritten

\* No write of a session other than the review touches the stored verdict, and
\* only a checkpoint write touches the checkpoint.
LEMMA VerdictKept ==
    \A r \in RowStates : \A v :
        /\ \A s : StatusWritten(r, v, s).verdict = r.verdict /\ StatusWritten(r, v, s).ckpt = r.ckpt
        /\ \A c : CheckpointWritten(r, c).verdict = r.verdict
        /\ FlagRaised(r, v).verdict = r.verdict /\ FlagRaised(r, v).ckpt = "awaiting_approval"
        /\ \A b : PendingWritten(r, v, b).verdict = r.verdict /\ PendingWritten(r, v, b).ckpt = r.ckpt
BY DEF RowStates, StatusWritten, CheckpointWritten, FlagRaised, PendingWritten

\* What moving a thread changes of it and what it keeps.
LEMMA MovedFacts ==
    \A x \in Threads : \A s \in ThreadStates(x) :
        /\ \A p, q, v : LET w == Moved(s, p, q, v) IN
              w.pc = p /\ w.pos = q /\ w.view = v /\ w.task = s.task /\ w.verdict = s.verdict
        /\ \A p : Turned(s, p).pc = p /\ Turned(s, p).task = s.task
        /\ \A v : LET w == Judged(s, v) IN
              w.pc = s.pc /\ w.pos = s.pos /\ w.view = s.view /\ w.task = s.task /\ w.verdict = v
                /\ w.deciding = s.deciding /\ w.seen = s.seen
BY DEF ThreadStates, Moved, Turned, Judged

\* A thread at rest stands nowhere and knows no verdict.
LEMMA RestFacts == \A x : Rest(x).pc = "idle" /\ Rest(x).verdict = "none"
BY DEF Rest, Idle

-----------------------------------------------------------------------------
(* The flags.                                                              *)

\* A step that decides nothing, creates no approval and raises no flag.
LEMMA QuietFlag ==
    ASSUME FlagInv, TypeOK', approval' = approval, granted' = granted,
           \A t \in Tasks : row'[t].pending => row[t].pending,
           \A y \in Threads : th'[y] = th[y] \/ th'[y].pc \notin Deciding
    PROVE FlagInv'
<1>1. \A y \in Threads, a \in Approvals : Decides(th[y], a)' => Decides(th[y], a) /\ th'[y] = th[y]
  BY DEF Decides, Deciding
<1>2. KnownApprovals'
  BY <1>1 DEF FlagInv, KnownApprovals
<1>3. ASSUME NEW t \in Tasks, row'[t].pending PROVE \E a \in Approvals : Backing(t, a)'
  <2>1. PICK a \in Approvals : Backing(t, a)
    BY <1>3 DEF FlagInv
  <2> QED
    BY <1>1, <2>1 DEF Backing
<1> QED
  BY <1>2, <1>3 DEF FlagInv

\* A step that creates an approval for a task and raises its flag.
LEMMA RaiseFlag ==
    ASSUME FlagInv, TypeOK', granted' = granted,
           NEW b \in Approvals, NEW u \in Tasks, NewApproval(b, u),
           \A t \in Tasks : t # u => row'[t] = row[t],
           \A y \in Threads : th'[y] = th[y] \/ th'[y].pc \notin Deciding
    PROVE FlagInv'
<1>0. /\ approval[b].status = "none" /\ approval'[b] = [task |-> u, status |-> "pending"]
      /\ \A a \in Approvals \ {b} : approval'[a] = approval[a]
  BY DEF FlagInv, TypeOK, ApprovalsTyped, NewApproval
<1>1. \A y \in Threads, a \in Approvals :
          Decides(th[y], a)' => Decides(th[y], a) /\ th'[y] = th[y] /\ a # b
  BY <1>0 DEF Decides, Deciding, FlagInv, KnownApprovals
<1>2. KnownApprovals'
  BY <1>0, <1>1 DEF FlagInv, KnownApprovals, TypeOK, SystemTyped
<1>3. ASSUME NEW t \in Tasks, row'[t].pending PROVE \E a \in Approvals : Backing(t, a)'
  <2>1. CASE t = u
    BY <1>0, <1>1, <2>1 DEF Backing
  <2>2. CASE t # u
    <3>1. PICK a \in Approvals : Backing(t, a)
      BY <1>3, <2>2 DEF FlagInv
    <3> QED
      BY <1>0, <1>1, <3>1 DEF Backing
  <2> QED
    BY <2>1, <2>2
<1> QED
  BY <1>2, <1>3 DEF FlagInv

\* A step in which a request thread decides approvals of its task and lowers
\* the flag if its view has it up.
LEMMA DecideFlag ==
    ASSUME FlagInv, TypeOK', NEW o \in Threads,
           granted' = granted \/ \E a \in Approvals : Decides(th[o], a) /\ granted' = granted \cup {a},
           \A a \in Approvals : \/ approval'[a] = approval[a]
                               \/ /\ Decides(th[o], a) /\ approval'[a].task = approval[a].task
                                  /\ approval'[a].status # "none",
           \A t \in Tasks : row'[t].pending => row[t].pending,
           row'[th[o].task].pending => ~th[o].view.pending,
           th'[o].pc \notin Deciding, \A y \in Threads \ {o} : th'[y] = th[y]
    PROVE FlagInv'
<1>1. \A y \in Threads, a \in Approvals : Decides(th[y], a)' => Decides(th[y], a) /\ th'[y] = th[y]
  BY DEF Decides, Deciding
<1>2. KnownApprovals'
  BY <1>1 DEF FlagInv, KnownApprovals, TypeOK, SystemTyped
<1>3. ASSUME NEW t \in Tasks, row'[t].pending PROVE \E a \in Approvals : Backing(t, a)'
  <2>1. PICK a \in Approvals : Backing(t, a)
    BY <1>3 DEF FlagInv
  <2>2. ~Decides(th[o], a)
    BY <1>3, <2>1 DEF Backing, FlagInv, KnownApprovals
  <2> QED
    BY <1>1, <2>1, <2>2 DEF Backing
<1> QED
  BY <1>2, <1>3 DEF FlagInv

\* A request begins with the approvals and the flag it loads.
LEMMA BeginFlag ==
    ASSUME FlagInv, TypeOK', row' = row, approval' = approval, granted' = granted,
           NEW o \in Operators, NEW pc \in Pcs, NEW u \in Tasks, NEW d, Request(o, pc, u, d),
           pc \in {"grant", "reject"} => d \in PendingFor(u)
    PROVE FlagInv'
<1>1. /\ th'[o].pc = pc /\ th'[o].task = u /\ th'[o].view = ViewOf(u)
      /\ th'[o].deciding = d /\ th'[o].seen = PendingFor(u)
      /\ \A y \in Threads \ {o} : th'[y] = th[y]
  BY ThreadSplit DEF Request, Idle, FlagInv, TypeOK, ThreadsTyped
<1>2. \A a \in Approvals : Decides(th[o], a)' =>
          /\ approval[a].task = u /\ approval[a].status = "pending" /\ th'[o].view.pending = row[u].pending
  BY <1>1 DEF Decides, PendingFor, ViewOf
<1>3. KnownApprovals'
  BY <1>1, <1>2 DEF FlagInv, KnownApprovals, TypeOK, SystemTyped
<1>4. ASSUME NEW t \in Tasks, row'[t].pending PROVE \E a \in Approvals : Backing(t, a)'
  <2>1. PICK a \in Approvals : Backing(t, a)
    BY <1>4 DEF FlagInv
  <2> QED
    BY <1>1, <1>2, <1>4, <2>1 DEF Backing
<1> QED
  BY <1>3, <1>4 DEF FlagInv

\* Every step of a pipeline keeps the flags backed.
LEMMA PipelineFlag ==
    ASSUME FlagInv, TypeOK', NEW x \in Threads, PipelineStep(x) PROVE FlagInv'
<1>. DEFINE t == th[x].task
<1>0. /\ FlagInv /\ TypeOK' /\ row \in [Tasks -> RowStates]
      /\ t \in Tasks /\ row[t] \in RowStates /\ th[x].view \in Views
      /\ th[x] \in ThreadStates(x) /\ th = [y \in Threads |-> th[y]]
  BY ThreadFacts DEF FlagInv, TypeOK, RowsTyped, ThreadsTyped
<1>1. ASSUME NEW s \in Statuses, EnterStatus(x, s) PROVE FlagInv'
  <2>1. Moved(th[x], PcAfter(s), s, SeenStatus(th[x].view, s)).pc \notin Deciding
    BY <1>0, MovedFacts DEF PcAfter, Deciding
  <2>2. StatusWritten(row[t], th[x].view, s).pending <=> row[t].pending
    BY <1>0, PendingKept
  <2> QED
    BY <1>0, <1>1, <2>1, <2>2, QuietFlag DEF EnterStatus
<1>2. ASSUME NEW c \in Checkpoints, WriteCheckpoint(x, c) PROVE FlagInv'
  <2>1. CheckpointWritten(row[t], c).pending <=> row[t].pending
    BY <1>0, PendingKept
  <2> QED
    BY <1>0, <1>2, <2>1, QuietFlag DEF WriteCheckpoint
<1>3. ASSUME NEW v \in Verdicts, ReviewPlan(x, v) PROVE FlagInv'
  <2>1. [CheckpointWritten(row[t], "review_pre") EXCEPT !.verdict = v].pending = row[t].pending
    BY <1>0 DEF CheckpointWritten, RowStates
  <2>2. Judged(th[x], v).pc \notin Deciding
    BY <1>0, <1>3, MovedFacts DEF ReviewPlan, Deciding
  <2> QED
    BY <1>0, <1>3, <2>1, <2>2, QuietFlag DEF ReviewPlan
<1>4. ASSUME NEW a \in Approvals, RequestApproval(x, a) PROVE FlagInv'
  <2>1. Moved(th[x], "tail", "awaiting_approval",
              [status |-> "awaiting_approval", pending |-> TRUE]).pc \notin Deciding
    BY <1>0, MovedFacts DEF Deciding
  <2> QED
    BY <1>0, <1>4, <2>1, RaiseFlag DEF RequestApproval
<1>5. ASSUME NEW a \in Approvals, AnnounceApproval(x, a) PROVE FlagInv'
  <2>1. Moved(th[x], "announced", "executing", SeenPending(th[x].view, TRUE)).pc \notin Deciding
    BY <1>0 DEF Moved, ThreadStates, Deciding
  <2> QED
    BY <1>0, <1>5, <2>1, RaiseFlag DEF AnnounceApproval
<1>6. ASSUME PauseAnnounced(x) PROVE FlagInv'
  <2>1. Moved(th[x], "tail", "awaiting_approval", SeenStatus(th[x].view, "awaiting_approval")).pc
           \notin Deciding
    BY <1>0, MovedFacts DEF Deciding
  <2>2. StatusWritten(row[t], th[x].view, "awaiting_approval").pending <=> row[t].pending
    BY <1>0, PendingKept
  <2> QED
    BY <1>0, <1>6, <2>1, <2>2, QuietFlag DEF PauseAnnounced
<1>7. ASSUME PipelineRaises(x) PROVE FlagInv'
  <2>1. Turned(th[x], "crashed").pc \notin Deciding /\ Rest(x).pc \notin Deciding
    BY <1>0, MovedFacts, RestFacts DEF Deciding
  <2> QED
    BY <1>0, <1>7, <2>1, QuietFlag DEF PipelineRaises
<1>8. ASSUME FinishPipeline(x) PROVE FlagInv'
  BY <1>0, <1>8, RestFacts, QuietFlag DEF FinishPipeline, Deciding
<1>9. ASSUME NEW s \in Statuses, LoseStatus(x, s) PROVE FlagInv'
  <2>1. Moved(th[x], PcAfter(s), s, ViewOf(t)).pc \notin Deciding
    BY <1>0, MovedFacts DEF PcAfter, Deciding
  <2> QED
    BY <1>0, <1>9, <2>1, QuietFlag DEF LoseStatus
<1>10. ASSUME NEW v \in Verdicts, LoseReview(x, v) PROVE FlagInv'
  <2>1. Judged(Moved(th[x], "run", "reviewing", ViewOf(t)), v).pc \notin Deciding
    BY <1>0 DEF Judged, Moved, ThreadStates, Deciding
  <2> QED
    BY <1>0, <1>10, <2>1, QuietFlag DEF LoseReview
<1>11. ASSUME LosePause(x) PROVE FlagInv'
  <2>1. /\ Moved(th[x], "tail", "awaiting_approval", ViewOf(t)).pc \notin Deciding
        /\ Moved(th[x], "announced", "executing", ViewOf(t)).pc \notin Deciding
    BY <1>0, MovedFacts DEF Deciding
  <2> QED
    BY <1>0, <1>11, <2>1, QuietFlag DEF LosePause
<1> QED
  BY <1>1, <1>2, <1>3, <1>4, <1>5, <1>6, <1>7, <1>8, <1>9, <1>10, <1>11 DEF PipelineStep

\* Every start and end of a job keeps the flags backed.
LEMMA JobFlag ==
    ASSUME FlagInv, TypeOK', NEW t \in Tasks, JobStep(t) PROVE FlagInv'
<1>0. /\ FlagInv /\ TypeOK' /\ row \in [Tasks -> RowStates] /\ t \in Threads
      /\ th[t] \in ThreadStates(t) /\ th = [y \in Threads |-> th[y]]
  BY ThreadSplit, ThreadFacts DEF FlagInv, TypeOK, RowsTyped, ThreadsTyped
<1>1. ASSUME CreateTask(t) PROVE FlagInv'
  <2>1. Turned(th[t], "creating").pc \notin Deciding
    BY <1>0, MovedFacts DEF Deciding
  <2> QED
    BY <1>0, <1>1, <2>1, QuietFlag DEF CreateTask, NewRow
<1>2. ASSUME SubmitJob(t) PROVE FlagInv'
  <2>1. Turned(th[t], "queued").pc \notin Deciding
    BY <1>0, MovedFacts DEF Deciding
  <2> QED
    BY <1>0, <1>2, <2>1, QuietFlag DEF SubmitJob
<1>3. ASSUME StartJob(t) PROVE FlagInv'
  <2>1. Moved(Rest(t), "run", "created", ViewOf(t)).pc \notin Deciding
    BY <1>0, RestType, MovedFacts DEF Deciding
  <2> QED
    BY <1>0, <1>3, <2>1, QuietFlag DEF StartJob
<1>4. ASSUME StartResume(t) PROVE FlagInv'
  <2>1. \A p, q, v, w : Judged(Moved(Rest(t), p, q, v), w).pc = p
    BY <1>0, RestType DEF Judged, Moved, ThreadStates
  <2>2. ResumePc(row[t].ckpt) \notin Deciding
    BY DEF ResumePc, Deciding
  <2> QED
    BY <1>0, <1>4, <2>1, <2>2, QuietFlag DEF StartResume
<1>5. ASSUME CrashHandler(t) PROVE FlagInv'
  <2>1. Rest(t).pc \notin Deciding
    BY RestFacts DEF Deciding
  <2> QED
    BY <1>0, <1>5, <2>1, QuietFlag DEF CrashHandler, RowStates
<1>6. ASSUME CancelledJob(t) PROVE FlagInv'
  BY <1>0, <1>6, RestFacts, QuietFlag DEF CancelledJob, Deciding
<1> QED
  BY <1>1, <1>2, <1>3, <1>4, <1>5, <1>6 DEF JobStep

\* Every step of an API request keeps the flags backed.
LEMMA OperatorFlag ==
    ASSUME FlagInv, TypeOK', NEW o \in Operators, OperatorStep(o) PROVE FlagInv'
<1>. DEFINE t == th[o].task
<1>0. /\ FlagInv /\ TypeOK' /\ row \in [Tasks -> RowStates] /\ o \in Threads
      /\ t \in Tasks /\ row[t] \in RowStates /\ th[o].view \in Views
      /\ th[o] \in ThreadStates(o) /\ th = [y \in Threads |-> th[y]]
      /\ approval \in [Approvals -> ApprovalStates]
      /\ th[o].pc \in {"grant", "reject"} => th[o].deciding \in Approvals
  BY ThreadSplit, ThreadFacts DEF FlagInv, TypeOK, RowsTyped, ThreadsTyped, ApprovalsTyped
<1>01. PendingWritten(row[t], th[o].view, FALSE).pending <=> (row[t].pending /\ ~th[o].view.pending)
  BY <1>0 DEF PendingWritten, RowStates, Views
<1>1. ASSUME NEW a \in Approvals, NEW pc \in {"grant", "reject"}, BeginDecision(o, a, pc) PROVE FlagInv'
  <2>1. a \in PendingFor(approval[a].task) /\ approval[a].task \in Tasks /\ pc \in Pcs
    BY <1>0, <1>1, PcFacts DEF BeginDecision, PendingFor, ApprovalStates
  <2> QED
    BY <1>0, <1>1, <2>1, BeginFlag DEF BeginDecision
<1>2. ASSUME Grant(o) PROVE FlagInv'
  <2>1. Moved(th[o], "run", "awaiting_approval", SeenPending(th[o].view, FALSE)).pc \notin Deciding
    BY <1>0 DEF Moved, ThreadStates, Deciding
  <2>2. th[o].deciding \in Approvals /\ Decides(th[o], th[o].deciding)
    BY <1>0, <1>2 DEF Grant, Decides
  <2>3. \A a \in Approvals : \/ approval'[a] = approval[a]
                             \/ /\ a = th[o].deciding /\ approval'[a].task = approval[a].task
                                /\ approval'[a].status = "granted"
    BY <1>0, <1>2 DEF Grant, ApprovalStates
  <2>4. /\ \A u \in Tasks : row'[u].pending => row[u].pending
        /\ row'[t].pending => ~th[o].view.pending
    BY <1>0, <1>01, <1>2 DEF Grant
  <2>5. th'[o].pc \notin Deciding /\ \A y \in Threads \ {o} : th'[y] = th[y]
    BY <1>0, <1>2, <2>1 DEF Grant
  <2>6. granted' = granted \cup {th[o].deciding}
    BY <1>2 DEF Grant
  <2> QED
    BY <1>0, <2>2, <2>3, <2>4, <2>5, <2>6, DecideFlag
<1>3. ASSUME Reject(o) PROVE FlagInv'
  <2>1. Moved(th[o], "reject_status", th[o].pos, SeenPending(th[o].view, FALSE)).pc \notin Deciding
    BY <1>0 DEF Moved, ThreadStates, Deciding
  <2>2. th[o].deciding \in Approvals /\ Decides(th[o], th[o].deciding)
    BY <1>0, <1>3 DEF Reject, Decides
  <2>3. \A a \in Approvals : \/ approval'[a] = approval[a]
                             \/ /\ a = th[o].deciding /\ approval'[a].task = approval[a].task
                                /\ approval'[a].status = "rejected"
    BY <1>0, <1>3 DEF Reject, ApprovalStates
  <2>4. /\ \A u \in Tasks : row'[u].pending => row[u].pending
        /\ row'[t].pending => ~th[o].view.pending
    BY <1>0, <1>01, <1>3 DEF Reject
  <2>5. th'[o].pc \notin Deciding /\ \A y \in Threads \ {o} : th'[y] = th[y]
    BY <1>0, <1>3, <2>1 DEF Reject
  <2>6. granted' = granted
    BY <1>3 DEF Reject
  <2> QED
    BY <1>0, <2>2, <2>3, <2>4, <2>5, <2>6, DecideFlag
<1>4. ASSUME NEW s \in {"failed", "completed"}, RejectStatus(o, s) PROVE FlagInv'
  <2>1. StatusWritten(row[t], th[o].view, s).pending <=> row[t].pending
    BY <1>0, PendingKept
  <2> QED
    BY <1>0, <1>4, <2>1, RestFacts, QuietFlag DEF RejectStatus, Deciding
<1>5. ASSUME NEW u \in Tasks, BeginAbandon(o, u) PROVE FlagInv'
  BY <1>0, <1>5, PcFacts, BeginFlag DEF BeginAbandon
<1>6. ASSUME Abandon(o) PROVE FlagInv'
  <2>1. StatusWritten(row[t], th[o].view, "failed").pending <=> row[t].pending
    BY <1>0, PendingKept
  <2>2. Turned(th[o], "abandon_flag").pc \notin Deciding
    BY <1>0, MovedFacts DEF Deciding
  <2> QED
    BY <1>0, <1>6, <2>1, <2>2, QuietFlag DEF Abandon
<1>7. ASSUME AbandonFlag(o) PROVE FlagInv'
  BY <1>0, <1>7, RestFacts, QuietFlag DEF AbandonFlag, Deciding
<1>8. ASSUME NEW u \in Tasks, BeginRollback(o, u) PROVE FlagInv'
  BY <1>0, <1>8, PcFacts, BeginFlag DEF BeginRollback
<1>9. ASSUME Rollback(o) PROVE FlagInv'
  <2>1. th'[o].pc \notin Deciding /\ \A y \in Threads \ {o} : th'[y] = th[y]
    BY <1>0, <1>9, RestFacts DEF Rollback, Deciding
  <2>2. \A a \in Approvals : \/ approval'[a] = approval[a]
                             \/ /\ a \in th[o].seen /\ approval'[a].task = approval[a].task
                                /\ approval'[a].status = "cancelled"
    BY <1>0, <1>9 DEF Rollback, ApprovalStates
  <2>3. \A a \in th[o].seen : Decides(th[o], a)
    BY <1>9 DEF Rollback, Decides
  <2>4. PendingWritten(row[t], th[o].view, FALSE) \in RowStates
    BY <1>0, WrittenType
  <2>5. StatusWritten(PendingWritten(row[t], th[o].view, FALSE), th[o].view, "rolled_back").pending
          <=> (row[t].pending /\ ~th[o].view.pending)
    BY <1>01, <2>4, PendingKept
  <2>6. /\ \A u \in Tasks : row'[u].pending => row[u].pending
        /\ row'[t].pending => ~th[o].view.pending
    BY <1>0, <1>9, <2>5 DEF Rollback
  <2>7. granted' = granted
    BY <1>9 DEF Rollback
  <2> QED
    BY <1>0, <2>1, <2>2, <2>3, <2>6, <2>7, DecideFlag
<1>10. ASSUME CancelledRequest(o) PROVE FlagInv'
  BY <1>0, <1>10, RestFacts, QuietFlag DEF CancelledRequest, Deciding
<1>11. ASSUME LoseGrant(o) PROVE FlagInv'
  <2>1. Moved(th[o], "run", "awaiting_approval", ViewOf(t)).pc \notin Deciding
    BY <1>0, MovedFacts DEF Deciding
  <2>2. th[o].deciding \in Approvals /\ Decides(th[o], th[o].deciding)
    BY <1>0, <1>11 DEF LoseGrant, Decides
  <2>3. ~Decides(th[o], th[o].deciding)' /\ \A y \in Threads \ {o} : th'[y] = th[y]
    BY <1>0, <1>11, <2>1 DEF LoseGrant, Decides, Deciding
  <2>4. th'[o].pc \notin Deciding
    BY <1>0, <1>11, <2>1 DEF LoseGrant
  <2>5. \A y \in Threads, a \in Approvals : Decides(th[y], a)' => Decides(th[y], a) /\ th'[y] = th[y]
    BY <2>3, <2>4 DEF Decides, Deciding
  <2>6. approval' = approval /\ row' = row /\ granted' = granted \cup {th[o].deciding}
    BY <1>11 DEF LoseGrant
  <2>7. KnownApprovals'
    BY <1>0, <2>2, <2>5, <2>6 DEF KnownApprovals, FlagInv
  <2>8. \A u \in Tasks, a \in Approvals : Backing(u, a) => Backing(u, a)'
    BY <2>5, <2>6 DEF Backing
  <2> QED
    BY <1>0, <2>6, <2>7, <2>8 DEF FlagInv
<1>12. ASSUME LoseRequest(o) PROVE FlagInv'
  <2>1. /\ Moved(th[o], "reject_status", th[o].pos, ViewOf(t)).pc \notin Deciding
        /\ Turned(th[o], "abandon_flag").pc \notin Deciding
        /\ Rest(o).pc \notin Deciding
    BY <1>0, MovedFacts, RestFacts DEF Deciding
  <2> QED
    BY <1>0, <1>12, <2>1, QuietFlag DEF LoseRequest
<1> QED
  BY <1>1, <1>2, <1>3, <1>4, <1>5, <1>6, <1>7, <1>8, <1>9, <1>10, <1>11, <1>12 DEF OperatorStep

\* The watchdog, a crash and startup keep the flags backed.
LEMMA RuntimeFlag ==
    ASSUME FlagInv, TypeOK', (\E t \in Tasks : WatchdogStep(t)) \/ Crash \/ Startup PROVE FlagInv'
<1>0. /\ FlagInv /\ TypeOK' /\ row \in [Tasks -> RowStates] /\ th = [y \in Threads |-> th[y]]
  BY DEF FlagInv, TypeOK, RowsTyped, ThreadsTyped
<1>1. \A x : Rest(x).pc \notin Deciding
  BY RestFacts DEF Deciding
<1>2. ASSUME NEW t \in Tasks, WatchdogStep(t) PROVE FlagInv'
  <2>1. \A u \in Tasks : row'[u].pending => row[u].pending
    BY <1>0, <1>2 DEF WatchdogStep, GoStale, DogLoad, DogMark, DogFlag, LoseSystem, RowStates
  <2>2. \A y \in Threads : th'[y] = th[y] \/ th'[y].pc \notin Deciding
    BY <1>0, <1>1, <1>2 DEF WatchdogStep, GoStale, DogLoad, DogMark, DogFlag, LoseSystem
  <2>3. approval' = approval /\ granted' = granted
    BY <1>2 DEF WatchdogStep, GoStale, DogLoad, DogMark, DogFlag, LoseSystem
  <2> QED
    BY <1>0, <2>1, <2>2, <2>3, QuietFlag
<1>3. CASE Crash
  BY <1>0, <1>1, <1>3, QuietFlag DEF Crash
<1>4. \A r \in RowStates : \A n : Aged(r, n).pending = r.pending
  BY DEF RowStates, Aged
<1>5. ASSUME NEW older \in [Tasks -> Ages], ResumeInterrupted(older) PROVE FlagInv'
  <2>1. \A x \in Threads : [Rest(x) EXCEPT !.pc = "resume_queued"].pc \notin Deciding
    BY RestType DEF ThreadStates, Deciding
  <2> QED
    BY <1>0, <1>1, <1>4, <1>5, <2>1, QuietFlag DEF ResumeInterrupted
<1>6. ASSUME NEW tick \in [Tasks -> {0, 1}], SweepLoad(tick) PROVE FlagInv'
  BY <1>0, <1>4, <1>6, QuietFlag DEF SweepLoad
<1>7. ASSUME NEW t \in Tasks, SweepFail(t) PROVE FlagInv'
  BY <1>0, <1>7, QuietFlag DEF SweepFail, RowStates
<1>8. CASE StartupDone
  BY <1>0, <1>8, QuietFlag DEF StartupDone
<1> QED
  BY <1>2, <1>3, <1>5, <1>6, <1>7, <1>8 DEF Startup

\* Flags are backed at every moment of every run.
LEMMA FlagInvariant == Spec => []FlagInv
<1>1. Init => FlagInv
  <2> SUFFICES ASSUME Init PROVE FlagInv
    OBVIOUS
  <2>1. TypeOK
    BY InitType
  <2>2. \A x \in Threads, a \in Approvals : ~Decides(th[x], a)
    BY RestFacts DEF Init, Decides
  <2>3. granted = {} /\ \A t \in Tasks : row[t].pending = FALSE
    BY DEF Init, NewRow
  <2> QED
    BY <2>1, <2>2, <2>3 DEF FlagInv, KnownApprovals
<1>2. FlagInv /\ [Next]_vars => FlagInv'
  <2> SUFFICES ASSUME FlagInv, [Next]_vars PROVE FlagInv'
    OBVIOUS
  <2>1. TypeOK'
    BY StepType DEF FlagInv
  <2>2. CASE UNCHANGED vars
    BY <2>1, <2>2, QuietFlag DEF vars
  <2> QED
    BY <2>1, <2>2, PipelineFlag, JobFlag, OperatorFlag, RuntimeFlag DEF Next
<1> QED
  BY <1>1, <1>2, PTL DEF Spec

\* A task whose pending_approval is up always has a pending approval: whatever the
\* sessions of workers, operators and rollback interleave (tasks.py, approvals.py,
\* api/tasks.py), and through crashes and lost commits, no task is left waiting
\* for a decision nobody can take.
THEOREM PendingFlagIsBacked == Spec => []PendingFlagBacked
<1>1. FlagInv => PendingFlagBacked
  BY DEF FlagInv, PendingFlagBacked, PendingFor, Backing
<1> QED
  BY <1>1, FlagInvariant, PTL

-----------------------------------------------------------------------------
(* The guard of a plan that waits.                                         *)

\* No step takes a grant back or moves it to another task.
LEMMA GrantsAreKept == FlagInv /\ Next => GrantsKept
<1> SUFFICES ASSUME FlagInv, Next PROVE GrantsKept
  OBVIOUS
<1>0. /\ approval \in [Approvals -> ApprovalStates] /\ granted \subseteq Approvals
      /\ \A a \in granted : approval[a].status # "none"
  BY DEF FlagInv, TypeOK, ApprovalsTyped, SystemTyped, KnownApprovals
<1>1. ASSUME NEW x \in Threads, PipelineStep(x) PROVE GrantsKept
  BY <1>0, <1>1 DEF PipelineStep, EnterStatus, WriteCheckpoint, ReviewPlan, RequestApproval,
     AnnounceApproval, PauseAnnounced, PipelineRaises, FinishPipeline, LoseStatus, LoseReview,
     LosePause, NewApproval, GrantsKept
<1>2. ASSUME NEW t \in Tasks, JobStep(t) PROVE GrantsKept
  BY <1>2 DEF JobStep, CreateTask, SubmitJob, StartJob, StartResume, CrashHandler, CancelledJob,
     GrantsKept
<1>3. ASSUME NEW o \in Operators, OperatorStep(o) PROVE GrantsKept
  <2>1. CASE Grant(o) \/ Reject(o)
    <3>1. granted \subseteq granted'
      BY <2>1 DEF Grant, Reject
    <3>2. approval' \in {[approval EXCEPT ![th[o].deciding].status = s] : s \in {"granted", "rejected"}}
      BY <2>1 DEF Grant, Reject
    <3> QED
      BY <1>0, <3>1, <3>2 DEF GrantsKept, ApprovalStates
  <2>2. CASE Rollback(o)
    BY <1>0, <2>2 DEF Rollback, GrantsKept, ApprovalStates
  <2>3. CASE LoseGrant(o)
    BY <2>3 DEF LoseGrant, GrantsKept
  <2>4. CASE approval' = approval /\ granted' = granted
    BY <2>4 DEF GrantsKept
  <2> QED
    BY <1>3, <2>1, <2>2, <2>3, <2>4 DEF OperatorStep, BeginDecision, RejectStatus, BeginAbandon,
       Abandon, AbandonFlag, BeginRollback, CancelledRequest, LoseRequest
<1>4. ASSUME NEW t \in Tasks, WatchdogStep(t) PROVE GrantsKept
  BY <1>4 DEF WatchdogStep, GoStale, DogLoad, DogMark, DogFlag, LoseSystem, GrantsKept
<1>5. ASSUME Crash \/ Startup PROVE GrantsKept
  BY <1>5 DEF Crash, Startup, ResumeInterrupted, SweepLoad, SweepFail, StartupDone, GrantsKept
<1> QED
  BY <1>1, <1>2, <1>3, <1>4, <1>5 DEF Next

\* So the approvals granted for a task only grow.
LEMMA GuardedBefore ==
    ASSUME GrantsKept, NEW t \in Tasks
    PROVE GrantedFor(t) \subseteq GrantedFor(t)'
BY DEF GrantsKept, GrantedFor

\* A step that judges no plan and starts no pipeline.
LEMMA QuietGuard ==
    ASSUME GuardInv, GrantsKept, ThreadsTyped,
           \A t \in Tasks : row'[t].verdict = "requires_approval" =>
               /\ row[t].verdict = "requires_approval"
               /\ row'[t].ckpt \in {row[t].ckpt, "awaiting_approval"},
           \A t \in Tasks : th'[t] = th[t] \/ th'[t].pc \notin {"creating", "queued", "run"},
           \A o \in Operators : th'[o].pc # "run" \/ th'[o] = th[o]
    PROVE GuardInv'
<1>1. ASSUME NEW t \in Tasks PROVE GuardKept(t)'
  BY <1>1, GuardedBefore DEF GuardInv, GuardKept, Guarded
<1>2. ASSUME NEW o \in Operators PROVE HasGrant(o)'
  BY <1>2 DEF GuardInv, HasGrant, GrantsKept
<1> QED
  BY <1>1, <1>2 DEF GuardInv

\* A step of a pipeline whose plan waits for nobody.
LEMMA FreeGuard ==
    ASSUME GuardInv, GrantsKept, ThreadsTyped, row \in [Tasks -> RowStates],
           NEW x \in Threads, NEW r \in RowStates, NEW s, ~Guarded(th[x].task),
           row' = row \/ row' = [row EXCEPT ![th[x].task] = r],
           r.verdict = row[th[x].task].verdict, th[x].pc = "run",
           th' = [th EXCEPT ![x] = s], s.task = th[x].task
    PROVE GuardInv'
<1>0. th[x].task \in Tasks /\ (x \in Tasks => th[x].task = x) /\ th = [y \in Threads |-> th[y]]
  BY ThreadFacts DEF ThreadsTyped
<1>1. ASSUME NEW t \in Tasks PROVE GuardKept(t)'
  <2>1. CASE t = th[x].task
    BY <1>0, <2>1, GuardedBefore DEF GuardKept, Guarded
  <2>2. CASE t # th[x].task
    BY <1>0, <2>2, GuardedBefore, ThreadSplit DEF GuardInv, GuardKept, Guarded
  <2> QED
    BY <2>1, <2>2
<1>2. ASSUME NEW o \in Operators PROVE HasGrant(o)'
  BY <1>0, ThreadSplit DEF GuardInv, HasGrant, GrantsKept
<1> QED
  BY <1>1, <1>2 DEF GuardInv

\* Where a pipeline can go on, its plan waits for nobody.
LEMMA FreeToMove ==
    ASSUME GuardInv, ThreadsTyped, NEW x \in Threads, th[x].pc = "run",
           th[x].pos # "reviewing" \/ th[x].verdict # "requires_approval"
    PROVE ~Guarded(th[x].task)
<1>1. CASE x \in Tasks
  BY <1>1, ThreadFacts DEF GuardInv, GuardKept
<1>2. CASE x \in Operators
  BY <1>2 DEF GuardInv, HasGrant, Guarded, GrantedFor
<1> QED
  BY <1>1, <1>2 DEF Threads

\* A pipeline that stands at a review with requires_approval has no next status
\* and no checkpoint to write.
LEMMA NextAreFree ==
    /\ \A s : s \notin NextStatuses("reviewing", "requires_approval")
    /\ \A c, stage : c \notin NextCheckpoints("reviewing", stage)
    /\ \A s, q, v : s \in NextStatuses(q, v) => PcAfter(s) \in {"run", "tail"}
BY DEF NextStatuses, NextCheckpoints, PcAfter

\* Every step of a pipeline keeps guarded plans guarded.
LEMMA PipelineGuard ==
    ASSUME FlagInv, GuardInv, GrantsKept, NEW x \in Threads, PipelineStep(x) PROVE GuardInv'
<1>. DEFINE t == th[x].task
<1>0. /\ FlagInv /\ GuardInv /\ GrantsKept /\ ThreadsTyped /\ row \in [Tasks -> RowStates]
      /\ t \in Tasks /\ row[t] \in RowStates /\ th[x].view \in Views
      /\ th[x] \in ThreadStates(x) /\ th = [y \in Threads |-> th[y]]
      /\ x \in Tasks => t = x
  BY ThreadFacts DEF FlagInv, TypeOK, RowsTyped, ThreadsTyped
<1>1. ASSUME NEW s \in Statuses, EnterStatus(x, s) PROVE GuardInv'
  <2>1. ~Guarded(t)
    BY <1>0, <1>1, FreeToMove, NextAreFree DEF EnterStatus
  <2>2. Moved(th[x], PcAfter(s), s, SeenStatus(th[x].view, s)).task = t
    BY <1>0, MovedFacts
  <2>3. /\ StatusWritten(row[t], th[x].view, s).verdict = row[t].verdict
        /\ StatusWritten(row[t], th[x].view, s) \in RowStates
    BY <1>0, VerdictKept, WrittenType
  <2> QED
    BY <1>0, <1>1, <2>1, <2>2, <2>3, FreeGuard DEF EnterStatus
<1>2. ASSUME NEW c \in Checkpoints, WriteCheckpoint(x, c) PROVE GuardInv'
  <2>1. ~Guarded(t)
    BY <1>0, <1>2, FreeToMove, NextAreFree DEF WriteCheckpoint
  <2>2. /\ CheckpointWritten(row[t], c).verdict = row[t].verdict
        /\ CheckpointWritten(row[t], c) \in RowStates
    BY <1>0, VerdictKept, WrittenType
  <2>3. th' = [th EXCEPT ![x] = th[x]]
    BY <1>0, <1>2 DEF WriteCheckpoint
  <2> QED
    BY <1>0, <1>2, <2>1, <2>2, <2>3, FreeGuard DEF WriteCheckpoint
<1>3. ASSUME NEW v \in Verdicts, ReviewPlan(x, v) PROVE GuardInv'
  <2>1. ~Guarded(t)
    BY <1>0, <1>3, FreeToMove DEF ReviewPlan
  <2>2. /\ row'[t].verdict = v /\ row'[t].ckpt = "review_pre"
        /\ \A u \in Tasks : u # t => row'[u] = row[u]
    BY <1>0, <1>3 DEF ReviewPlan, CheckpointWritten, RowStates
  <2>3. /\ th'[x].verdict = v /\ th'[x].pc = "run" /\ th'[x].pos = "reviewing" /\ th'[x].task = t
        /\ \A y \in Threads : y # x => th'[y] = th[y]
    BY <1>0, <1>3 DEF ReviewPlan, Judged, ThreadStates
  <2>4. ASSUME NEW u \in Tasks PROVE GuardKept(u)'
    <3>1. CASE u = x
      BY <1>0, <2>2, <2>3, <3>1 DEF GuardKept, Guarded
    <3>2. CASE u # x /\ u # t
      BY <1>0, <2>2, <2>3, <3>2, GuardedBefore, ThreadSplit DEF GuardInv, GuardKept, Guarded
    <3>3. CASE u # x /\ u = t
      <4>1. x \in Operators
        BY <1>0, <3>3 DEF Threads
      <4>2. GrantedFor(t) # {}
        BY <1>0, <1>3, <4>1 DEF GuardInv, HasGrant, ReviewPlan, GrantedFor
      <4> QED
        BY <1>0, <3>3, <4>2, GuardedBefore DEF GuardKept, Guarded
    <3> QED
      BY <3>1, <3>2, <3>3
  <2>5. ASSUME NEW o \in Operators PROVE HasGrant(o)'
    BY <1>0, <1>3, <2>3, ThreadSplit DEF GuardInv, HasGrant, GrantsKept, ReviewPlan
  <2> QED
    BY <2>4, <2>5 DEF GuardInv
<1>4. ASSUME NEW a \in Approvals, RequestApproval(x, a) PROVE GuardInv'
  <2>1. LET r == StatusWritten(FlagRaised(row[t], th[x].view), th[x].view, "awaiting_approval") IN
           r.verdict = row[t].verdict /\ r.ckpt = "awaiting_approval"
    BY <1>0, VerdictKept, WrittenType
  <2>2. Moved(th[x], "tail", "awaiting_approval",
              [status |-> "awaiting_approval", pending |-> TRUE]).pc = "tail"
    BY <1>0, MovedFacts
  <2> QED
    BY <1>0, <1>4, <2>1, <2>2, ThreadSplit, QuietGuard DEF RequestApproval
<1>5. ASSUME NEW a \in Approvals, AnnounceApproval(x, a) PROVE GuardInv'
  <2>1. LET r == FlagRaised(row[t], th[x].view) IN
           r.verdict = row[t].verdict /\ r.ckpt = "awaiting_approval"
    BY <1>0, VerdictKept
  <2>2. Moved(th[x], "announced", "executing", SeenPending(th[x].view, TRUE)).pc = "announced"
    BY <1>0 DEF Moved, ThreadStates
  <2> QED
    BY <1>0, <1>5, <2>1, <2>2, ThreadSplit, QuietGuard DEF AnnounceApproval
<1>6. ASSUME PauseAnnounced(x) PROVE GuardInv'
  <2>1. LET r == StatusWritten(row[t], th[x].view, "awaiting_approval") IN
           r.verdict = row[t].verdict /\ r.ckpt = row[t].ckpt
    BY <1>0 DEF StatusWritten, RowStates
  <2>2. Moved(th[x], "tail", "awaiting_approval", SeenStatus(th[x].view, "awaiting_approval")).pc = "tail"
    BY <1>0, MovedFacts
  <2> QED
    BY <1>0, <1>6, <2>1, <2>2, ThreadSplit, QuietGuard DEF PauseAnnounced
<1>7. ASSUME PipelineRaises(x) PROVE GuardInv'
  <2>1. Turned(th[x], "crashed").pc = "crashed" /\ Rest(x).pc = "idle"
    BY <1>0, MovedFacts, RestFacts
  <2> QED
    BY <1>0, <1>7, <2>1, ThreadSplit, QuietGuard DEF PipelineRaises
<1>8. ASSUME FinishPipeline(x) PROVE GuardInv'
  BY <1>0, <1>8, RestFacts, ThreadSplit, QuietGuard DEF FinishPipeline
<1>9. ASSUME NEW s \in Statuses, LoseStatus(x, s) PROVE GuardInv'
  <2>1. ~Guarded(t)
    BY <1>0, <1>9, FreeToMove, NextAreFree DEF LoseStatus
  <2>2. Moved(th[x], PcAfter(s), s, ViewOf(t)).task = t
    BY <1>0, MovedFacts
  <2> QED
    BY <1>0, <1>9, <2>1, <2>2, FreeGuard DEF LoseStatus
<1>10. ASSUME NEW v \in Verdicts, LoseReview(x, v) PROVE GuardInv'
  <2>1. ~Guarded(t)
    BY <1>0, <1>10, FreeToMove DEF LoseReview
  <2>2. Judged(Moved(th[x], "run", "reviewing", ViewOf(t)), v).task = t
    BY <1>0 DEF Judged, Moved, ThreadStates
  <2> QED
    BY <1>0, <1>10, <2>1, <2>2, FreeGuard DEF LoseReview
<1>11. ASSUME LosePause(x) PROVE GuardInv'
  <2>1. /\ Moved(th[x], "tail", "awaiting_approval", ViewOf(t)).pc = "tail"
        /\ Moved(th[x], "announced", "executing", ViewOf(t)).pc = "announced"
    BY <1>0, MovedFacts
  <2> QED
    BY <1>0, <1>11, <2>1, ThreadSplit, QuietGuard DEF LosePause
<1> QED
  BY <1>1, <1>2, <1>3, <1>4, <1>5, <1>6, <1>7, <1>8, <1>9, <1>10, <1>11 DEF PipelineStep

\* A job that starts, afresh or from a checkpoint, does not pass the review of a
\* guarded plan.
LEMMA JobGuard ==
    ASSUME FlagInv, GuardInv, GrantsKept, NEW t \in Tasks, JobStep(t) PROVE GuardInv'
<1>0. /\ FlagInv /\ GuardInv /\ GrantsKept /\ ThreadsTyped /\ row \in [Tasks -> RowStates]
      /\ row[t] \in RowStates /\ t \in Threads /\ t \notin Operators
      /\ th[t] \in ThreadStates(t) /\ th = [y \in Threads |-> th[y]]
      /\ Rest(t) \in ThreadStates(t)
  BY ThreadSplit, ThreadFacts, RestType DEF FlagInv, TypeOK, RowsTyped, ThreadsTyped
<1>1. ASSUME CreateTask(t) \/ SubmitJob(t) \/ StartJob(t) \/ StartResume(t) PROVE GuardInv'
  <2>1. /\ \A y \in Threads : y # t => th'[y] = th[y]
        /\ \A u \in Tasks : u # t => row'[u] = row[u]
    BY <1>0, <1>1 DEF CreateTask, SubmitJob, StartJob, StartResume
  <2>2. ASSUME NEW o \in Operators PROVE HasGrant(o)'
    BY <1>0, <2>1, ThreadSplit DEF GuardInv, HasGrant, GrantsKept
  <2>3. ASSUME NEW u \in Tasks, u # t PROVE GuardKept(u)'
    BY <1>0, <2>1, <2>3, GuardedBefore, ThreadSplit DEF GuardInv, GuardKept, Guarded
  <2>4. GuardKept(t)'
    <3>1. CASE CreateTask(t)
      BY <1>0, <3>1 DEF CreateTask, NewRow, GuardKept, Guarded
    <3>2. CASE SubmitJob(t)
      BY <1>0, <3>2, GuardedBefore DEF SubmitJob, GuardInv, GuardKept, Guarded
    <3>3. CASE StartJob(t)
      BY <1>0, <3>3, GuardedBefore DEF StartJob, GuardInv, GuardKept, Guarded
    <3>4. CASE StartResume(t)
      <4>1. \A p, q, v, w : LET s == Judged(Moved(Rest(t), p, q, v), w) IN
               s.pc = p /\ s.pos = q /\ s.verdict = w
        BY <1>0 DEF Judged, Moved, ThreadStates
      <4>2. /\ th'[t].pc = ResumePc(row[t].ckpt) /\ th'[t].pos = ResumeAt(row[t].ckpt)
            /\ th'[t].verdict = ResumeVerdict(t) /\ row' = row
        BY <1>0, <3>4, <4>1 DEF StartResume
      <4> QED
        BY <1>0, <4>2, GuardedBefore
           DEF GuardInv, GuardKept, Guarded, ResumePc, ResumeAt, ResumeVerdict
    <3> QED
      BY <1>1, <3>1, <3>2, <3>3, <3>4
  <2> QED
    BY <2>2, <2>3, <2>4 DEF GuardInv
<1>2. ASSUME CrashHandler(t) \/ CancelledJob(t) PROVE GuardInv'
  <2>1. \A u \in Tasks : row'[u].verdict = row[u].verdict /\ row'[u].ckpt = row[u].ckpt
    BY <1>0, <1>2 DEF CrashHandler, CancelledJob, RowStates
  <2> QED
    BY <1>0, <1>2, <2>1, RestFacts, ThreadSplit, QuietGuard DEF CrashHandler, CancelledJob
<1> QED
  BY <1>1, <1>2 DEF JobStep

\* A request runs the pipeline only after its grant.
LEMMA OperatorGuard ==
    ASSUME FlagInv, GuardInv, GrantsKept, NEW o \in Operators, OperatorStep(o) PROVE GuardInv'
<1>. DEFINE t == th[o].task
<1>0. /\ FlagInv /\ GuardInv /\ GrantsKept /\ ThreadsTyped /\ row \in [Tasks -> RowStates]
      /\ t \in Tasks /\ row[t] \in RowStates /\ o \in Threads /\ o \notin Tasks
      /\ th[o] \in ThreadStates(o) /\ th = [y \in Threads |-> th[y]]
      /\ th[o].pc \in {"grant", "reject"} => th[o].deciding \in Approvals
  BY ThreadSplit, ThreadFacts DEF FlagInv, TypeOK, RowsTyped, ThreadsTyped
<1>1. /\ \A y \in Threads : y # o => th'[y] = th[y]
      /\ \A u \in Tasks : th'[u] = th[u]
  BY <1>0, ThreadSplit DEF OperatorStep, BeginDecision, Grant, Reject, RejectStatus, BeginAbandon,
     Abandon, AbandonFlag, BeginRollback, Rollback, CancelledRequest, LoseGrant, LoseRequest, Request
<1>2. \A u \in Tasks : row'[u].verdict = row[u].verdict /\ row'[u].ckpt = row[u].ckpt
  <2>1. ASSUME NEW v, NEW s, NEW b
        PROVE /\ StatusWritten(row[t], v, s).verdict = row[t].verdict
              /\ StatusWritten(row[t], v, s).ckpt = row[t].ckpt
              /\ PendingWritten(row[t], v, b).verdict = row[t].verdict
              /\ PendingWritten(row[t], v, b).ckpt = row[t].ckpt
              /\ StatusWritten(PendingWritten(row[t], v, b), v, s).verdict = row[t].verdict
              /\ StatusWritten(PendingWritten(row[t], v, b), v, s).ckpt = row[t].ckpt
    BY <1>0 DEF StatusWritten, PendingWritten, RowStates
  <2>2. CASE row' = row
    BY <2>2
  <2>3. CASE Grant(o) \/ Reject(o)
    <3>1. row' = [row EXCEPT ![t] = PendingWritten(row[t], th[o].view, FALSE)]
      BY <2>3 DEF Grant, Reject
    <3> QED
      BY <1>0, <2>1, <3>1
  <2>4. CASE Rollback(o)
    <3>1. row' = [row EXCEPT ![t] = StatusWritten(PendingWritten(row[t], th[o].view, FALSE),
                                                  th[o].view, "rolled_back")]
      BY <2>4 DEF Rollback
    <3> QED
      BY <1>0, <3>1 DEF StatusWritten, PendingWritten, RowStates
  <2>5. CASE Abandon(o) \/ \E s \in {"failed", "completed"} : RejectStatus(o, s)
    BY <1>0, <2>1, <2>5 DEF Abandon, RejectStatus
  <2> QED
    BY <2>2, <2>3, <2>4, <2>5 DEF OperatorStep, BeginDecision, BeginAbandon, AbandonFlag,
       BeginRollback, CancelledRequest, LoseGrant, LoseRequest
<1>3. HasGrant(o)'
  <2>1. CASE Grant(o) \/ LoseGrant(o)
    <3>1. th'[o].task = t /\ th[o].deciding \in granted' /\ approval'[th[o].deciding].task = t
      <4>1. Decides(th[o], th[o].deciding) /\ th[o].deciding \in Approvals
        BY <1>0, <2>1 DEF Grant, LoseGrant, Decides
      <4>2. approval[th[o].deciding].task = t
        BY <1>0, <4>1 DEF FlagInv, KnownApprovals
      <4>3. th'[o].task = t /\ th[o].deciding \in granted'
        <5>1. granted' = granted \cup {th[o].deciding}
          BY <2>1 DEF Grant, LoseGrant
        <5>2. \E v : th' = [th EXCEPT ![o] = Moved(th[o], "run", "awaiting_approval", v)]
          BY <2>1 DEF Grant, LoseGrant
        <5> QED
          BY <1>0, <5>1, <5>2 DEF Moved, ThreadStates
      <4>4. approval'[th[o].deciding].task = approval[th[o].deciding].task
        <5>1. \/ approval' = approval
              \/ approval' = [approval EXCEPT ![th[o].deciding].status = "granted"]
          BY <2>1 DEF Grant, LoseGrant
        <5> QED
          BY <4>1, <5>1 DEF FlagInv, TypeOK, ApprovalsTyped, ApprovalStates
      <4> QED
        BY <4>2, <4>3, <4>4
    <3> QED
      BY <3>1 DEF HasGrant
  <2>2. CASE ~(Grant(o) \/ LoseGrant(o))
    <3>1. Rest(o).pc = "idle" /\ Turned(th[o], "abandon_flag").pc = "abandon_flag"
      BY <1>0, RestFacts, MovedFacts
    <3>2. ASSUME Reject(o) PROVE th'[o].pc # "run"
      BY <1>0, <3>2 DEF Reject, Moved, ThreadStates
    <3>3. ASSUME LoseRequest(o) PROVE th'[o].pc # "run"
      BY <1>0, <3>1, <3>3 DEF LoseRequest, Moved, ThreadStates
    <3>4. ASSUME NEW pc \in {"grant", "reject", "abandon", "rollback"}, NEW u, NEW a, Request(o, pc, u, a)
          PROVE th'[o].pc # "run"
      BY <1>0, <3>4 DEF Request, Idle
    <3>5. ASSUME Abandon(o) PROVE th'[o].pc # "run"
      BY <1>0, <3>1, <3>5 DEF Abandon
    <3>6. ASSUME AbandonFlag(o) \/ Rollback(o) \/ CancelledRequest(o)
                   \/ \E s \in {"failed", "completed"} : RejectStatus(o, s)
          PROVE th'[o].pc # "run"
      BY <1>0, <3>1, <3>6 DEF AbandonFlag, Rollback, CancelledRequest, RejectStatus
    <3>7. ASSUME \/ \E a \in Approvals, pc \in {"grant", "reject"} : BeginDecision(o, a, pc)
                 \/ \E u \in Tasks : BeginAbandon(o, u) \/ BeginRollback(o, u)
          PROVE th'[o].pc # "run"
      BY <3>4, <3>7 DEF BeginDecision, BeginAbandon, BeginRollback
    <3>8. th'[o].pc # "run"
      BY <2>2, <3>2, <3>3, <3>5, <3>6, <3>7 DEF OperatorStep
    <3> QED
      BY <3>8 DEF HasGrant
  <2> QED
    BY <2>1, <2>2
<1>4. ASSUME NEW p \in Operators PROVE HasGrant(p)'
  BY <1>0, <1>1, <1>3, ThreadSplit DEF GuardInv, HasGrant, GrantsKept
<1>5. ASSUME NEW u \in Tasks PROVE GuardKept(u)'
  <2>1. GrantedFor(u) \subseteq GrantedFor(u)' /\ GuardKept(u)
    BY <1>0, GuardedBefore DEF GuardInv
  <2> QED
    BY <1>0, <1>1, <1>2, <2>1 DEF GuardKept, Guarded
<1> QED
  BY <1>4, <1>5 DEF GuardInv

\* The watchdog, a crash and startup keep guarded plans guarded.
LEMMA RuntimeGuard ==
    ASSUME FlagInv, GuardInv, GrantsKept,
           (\E t \in Tasks : WatchdogStep(t)) \/ Crash \/ Startup
    PROVE GuardInv'
<1>0. /\ GuardInv /\ GrantsKept /\ ThreadsTyped
      /\ row \in [Tasks -> RowStates] /\ th = [y \in Threads |-> th[y]]
  BY DEF FlagInv, TypeOK, RowsTyped, ThreadsTyped
<1>1. \A r \in RowStates : \A n : Aged(r, n).verdict = r.verdict /\ Aged(r, n).ckpt = r.ckpt
  BY DEF RowStates, Aged
<1>2. ASSUME NEW t \in Tasks, WatchdogStep(t) PROVE GuardInv'
  <2>1. \A u \in Tasks : row'[u].verdict = row[u].verdict /\ row'[u].ckpt = row[u].ckpt
    BY <1>0, <1>2 DEF WatchdogStep, GoStale, DogLoad, DogMark, DogFlag, LoseSystem, RowStates
  <2>2. \A y \in Threads : th'[y] = th[y] \/ (th'[y].pc = "idle" /\ y \in Tasks)
    <3>1. th' = th \/ th' = [th EXCEPT ![t] = Rest(t)]
      BY <1>2 DEF WatchdogStep, GoStale, DogLoad, DogMark, DogFlag, LoseSystem
    <3>2. Rest(t).pc = "idle" /\ t \in Threads
      BY RestFacts, ThreadSplit
    <3> QED
      BY <1>0, <3>1, <3>2
  <2> QED
    BY <1>0, <2>1, <2>2, ThreadSplit, QuietGuard
<1>3. CASE Crash
  BY <1>0, <1>3, RestFacts, ThreadSplit, QuietGuard DEF Crash
<1>4. ASSUME NEW older \in [Tasks -> Ages], ResumeInterrupted(older) PROVE GuardInv'
  <2>1. \A x \in Threads : [Rest(x) EXCEPT !.pc = "resume_queued"].pc = "resume_queued"
    BY RestType DEF ThreadStates
  <2>2. \A x \in Threads : th'[x].pc \in {"idle", "resume_queued"}
    BY <1>4, <2>1, RestFacts DEF ResumeInterrupted
  <2>3. \A u \in Tasks : row'[u].verdict = row[u].verdict /\ row'[u].ckpt = row[u].ckpt
    BY <1>0, <1>1, <1>4 DEF ResumeInterrupted
  <2> QED
    BY <1>0, <2>2, <2>3, ThreadSplit, QuietGuard
<1>5. ASSUME NEW tick \in [Tasks -> {0, 1}], SweepLoad(tick) PROVE GuardInv'
  BY <1>0, <1>1, <1>5, QuietGuard DEF SweepLoad
<1>6. ASSUME NEW t \in Tasks, SweepFail(t) PROVE GuardInv'
  BY <1>0, <1>6, QuietGuard DEF SweepFail, RowStates
<1>7. CASE StartupDone
  BY <1>0, <1>7, QuietGuard DEF StartupDone
<1> QED
  BY <1>2, <1>3, <1>4, <1>5, <1>6, <1>7 DEF Startup

\* Guarded plans stay guarded at every moment of every run.
LEMMA GuardInvariant == Spec => []GuardInv
<1>1. Init => GuardInv
  <2> SUFFICES ASSUME Init PROVE GuardInv
    OBVIOUS
  <2>1. \A x \in Threads : th[x].pc = "idle"
    BY RestFacts DEF Init
  <2>2. \A t \in Tasks : row[t].verdict = "none"
    BY DEF Init, NewRow
  <2> QED
    BY <2>1, <2>2, ThreadSplit DEF GuardInv, GuardKept, HasGrant, Guarded
<1>2. FlagInv /\ GuardInv /\ [Next]_vars => GuardInv'
  <2> SUFFICES ASSUME FlagInv, GuardInv, [Next]_vars PROVE GuardInv'
    OBVIOUS
  <2>1. CASE UNCHANGED vars
    BY <2>1 DEF vars, GuardInv, GuardKept, HasGrant, Guarded, GrantedFor
  <2>2. CASE Next
    <3>1. GrantsKept
      BY <2>2, GrantsAreKept
    <3> QED
      BY <2>2, <3>1, PipelineGuard, JobGuard, OperatorGuard, RuntimeGuard DEF Next
  <2> QED
    BY <2>1, <2>2
<1> QED
  BY <1>1, <1>2, FlagInvariant, PTL DEF Spec

\* The step ExecutionNeedsGrant allows.
ExecutesAfterGrant(t) ==
    /\ row[t].status # "executing" /\ row'[t].status = "executing"
    /\ row'[t].verdict = "requires_approval"
    => GrantedFor(t)' # {}

\* Only set_task_status by a pipeline writes EXECUTING.
LEMMA OnlyPipelinesExecute ==
    ASSUME FlagInv, Next, NEW t \in Tasks,
           row[t].status # "executing", row'[t].status = "executing"
    PROVE \E x \in Threads : EnterStatus(x, "executing") /\ th[x].task = t
<1>0. row \in [Tasks -> RowStates]
  BY DEF FlagInv, TypeOK, RowsTyped
<1>1. ASSUME NEW r \in RowStates, NEW v, NEW s, s # "executing", r.status # "executing"
      PROVE StatusWritten(r, v, s).status # "executing"
  BY <1>1 DEF StatusWritten, RowStates
<1>2. ASSUME NEW r \in RowStates, NEW v
      PROVE /\ PendingWritten(r, v, FALSE).status = r.status /\ PendingWritten(r, v, FALSE) \in RowStates
            /\ FlagRaised(r, v).status = r.status /\ FlagRaised(r, v) \in RowStates
            /\ \A c : CheckpointWritten(r, c).status = r.status
            /\ \A n : Aged(r, n).status = r.status
  BY <1>2, StatusFacts DEF PendingWritten, FlagRaised, CheckpointWritten, Aged, RowStates
<1>w. ASSUME NEW u \in Tasks, NEW r, row' = [row EXCEPT ![u] = r],
             row[u].status # "executing" => r.status # "executing"
      PROVE FALSE
  BY <1>0, <1>w
<1>3. ASSUME NEW x \in Threads, PipelineStep(x)
      PROVE \E y \in Threads : EnterStatus(y, "executing") /\ th[y].task = t
  <2>0. th[x].task \in Tasks /\ row[th[x].task] \in RowStates
    BY <1>0, ThreadFacts DEF FlagInv, TypeOK
  <2>1. ASSUME NEW s, EnterStatus(x, s)
        PROVE \E y \in Threads : EnterStatus(y, "executing") /\ th[y].task = t
    BY <1>0, <1>1, <2>0, <2>1 DEF EnterStatus
  <2>2. ASSUME NEW c, WriteCheckpoint(x, c) PROVE FALSE
    <3>1. row' = [row EXCEPT ![th[x].task] = CheckpointWritten(row[th[x].task], c)]
      BY <2>2 DEF WriteCheckpoint
    <3>2. CheckpointWritten(row[th[x].task], c).status = row[th[x].task].status
      BY <1>2, <2>0
    <3> QED
      BY <1>w, <2>0, <3>1, <3>2
  <2>3. ASSUME NEW v, ReviewPlan(x, v) PROVE FALSE
    BY <1>0, <2>0, <2>3 DEF ReviewPlan, CheckpointWritten, RowStates
  <2>4. ASSUME NEW a, RequestApproval(x, a) PROVE FALSE
    <3>1. StatusWritten(FlagRaised(row[th[x].task], th[x].view), th[x].view, "awaiting_approval").status
             # "executing" \/ row[th[x].task].status = "executing"
      BY <2>0 DEF StatusWritten, FlagRaised, CheckpointWritten, PendingWritten, RowStates
    <3> QED
      BY <1>0, <2>0, <2>4, <3>1 DEF RequestApproval
  <2>5. ASSUME NEW a, AnnounceApproval(x, a) PROVE FALSE
    <3>1. row' = [row EXCEPT ![th[x].task] = FlagRaised(row[th[x].task], th[x].view)]
      BY <2>5 DEF AnnounceApproval
    <3>2. FlagRaised(row[th[x].task], th[x].view).status = row[th[x].task].status
      BY <1>2, <2>0
    <3> QED
      BY <1>w, <2>0, <3>1, <3>2
  <2>6. ASSUME PauseAnnounced(x) PROVE FALSE
    BY <1>0, <1>1, <2>0, <2>6 DEF PauseAnnounced
  <2> QED
    BY <1>3, <2>1, <2>2, <2>3, <2>4, <2>5, <2>6 DEF PipelineStep, PipelineRaises, FinishPipeline,
       LoseStatus, LoseReview, LosePause
<1>4. ASSUME NEW u \in Tasks, JobStep(u) PROVE FALSE
  BY <1>0, <1>4 DEF JobStep, CreateTask, SubmitJob, StartJob, StartResume, CrashHandler,
     CancelledJob, NewRow, RowStates
<1>5. ASSUME NEW o \in Operators, OperatorStep(o) PROVE FALSE
  <2>0. th[o].task \in Tasks /\ row[th[o].task] \in RowStates
    BY <1>0, ThreadSplit, ThreadFacts DEF FlagInv, TypeOK
  <2>1. CASE Grant(o) \/ Reject(o)
    <3>1. row' = [row EXCEPT ![th[o].task] = PendingWritten(row[th[o].task], th[o].view, FALSE)]
      BY <2>1 DEF Grant, Reject
    <3> QED
      BY <1>0, <2>0, <3>1 DEF PendingWritten, RowStates
  <2>2. CASE Abandon(o) \/ \E s \in {"failed", "completed"} : RejectStatus(o, s)
    BY <1>0, <1>1, <2>0, <2>2 DEF Abandon, RejectStatus
  <2>3. CASE Rollback(o)
    <3>1. StatusWritten(PendingWritten(row[th[o].task], th[o].view, FALSE), th[o].view, "rolled_back").status
             # "executing" \/ row[th[o].task].status = "executing"
      BY <2>0 DEF StatusWritten, PendingWritten, RowStates
    <3> QED
      BY <1>0, <2>0, <2>3, <3>1 DEF Rollback
  <2>4. CASE row' = row
    BY <2>4
  <2> QED
    BY <1>5, <2>1, <2>2, <2>3, <2>4 DEF OperatorStep, BeginDecision, BeginAbandon, AbandonFlag,
       BeginRollback, CancelledRequest, LoseGrant, LoseRequest
<1>6. ASSUME NEW u \in Tasks, WatchdogStep(u) PROVE FALSE
  BY <1>0, <1>6 DEF WatchdogStep, GoStale, DogLoad, DogMark, DogFlag, LoseSystem, RowStates
<1>7. ASSUME Crash \/ Startup PROVE FALSE
  <2>1. ASSUME NEW u \in Tasks, SweepFail(u) PROVE FALSE
    BY <1>0, <2>1 DEF SweepFail, RowStates
  <2>2. \A n : Aged(row[t], n).status = row[t].status
    BY <1>0 DEF Aged, RowStates
  <2>3. ASSUME NEW older, ResumeInterrupted(older) PROVE FALSE
    BY <2>2, <2>3 DEF ResumeInterrupted
  <2>4. ASSUME NEW tick, SweepLoad(tick) PROVE FALSE
    BY <2>2, <2>4 DEF SweepLoad
  <2> QED
    BY <1>7, <2>1, <2>3, <2>4 DEF Crash, Startup, StartupDone
<1> QED
  BY <1>3, <1>4, <1>5, <1>6, <1>7 DEF Next

\* A plan the reviewer put behind an approval enters EXECUTING only after an
\* approval of its task was granted (orchestrator/service.py resume_task and
\* resume_after_approval, services/approvals.py grant), for every sequence of
\* restarts, resumes and concurrent requests.
THEOREM ExecutionIsGranted == Spec => ExecutionNeedsGrant
<1>1. ASSUME FlagInv, GuardInv, [Next]_vars, NEW t \in Tasks PROVE ExecutesAfterGrant(t)
  <2> SUFFICES ASSUME row[t].status # "executing", row'[t].status = "executing",
                      row'[t].verdict = "requires_approval"
               PROVE GrantedFor(t)' # {}
    BY DEF ExecutesAfterGrant
  <2>1. Next
    BY <1>1 DEF vars
  <2>2. PICK x \in Threads : EnterStatus(x, "executing") /\ th[x].task = t
    BY <1>1, <2>1, OnlyPipelinesExecute
  <2>3. GrantsKept
    BY <1>1, <2>1, GrantsAreKept
  <2>4. row[t].verdict = "requires_approval"
    BY <1>1, <2>2 DEF EnterStatus, FlagInv, TypeOK, RowsTyped, RowStates, StatusWritten
  <2>5. ~Guarded(t)
    BY <1>1, <2>2, FreeToMove, NextAreFree DEF EnterStatus, FlagInv, TypeOK
  <2> QED
    BY <2>3, <2>4, <2>5, GuardedBefore DEF Guarded
<1>2. FlagInv /\ GuardInv /\ [Next]_vars =>
        [\A t \in Tasks :
           /\ row[t].status # "executing" /\ row'[t].status = "executing"
           /\ row'[t].verdict = "requires_approval"
           => GrantedFor(t)' # {}]_vars
  BY <1>1 DEF ExecutesAfterGrant
<1> QED
  BY <1>2, FlagInvariant, GuardInvariant, PTL DEF Spec, ExecutionNeedsGrant

=============================================================================
