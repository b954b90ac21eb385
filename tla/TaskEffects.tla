------------------------------ MODULE TaskEffects ------------------------------
(***************************************************************************)
(* What a task does to the outside world: the plan of a task is carried    *)
(* out call by call through the gateway (_execute_plan,                    *)
(* _execute_writeback_plan, the patches of the develop pipeline), waits    *)
(* for the approvals of guarded tools, is carried out again from its first *)
(* call when one is granted or when the process was restarted, and is      *)
(* rolled back by the inverses of its recorded calls (services/rollback.py,*)
(* rollback_task).                                                         *)
(***************************************************************************)
EXTENDS ToolGateway

CONSTANTS
    Plans,       \* [scenario, tools]: the calls a plan makes
    MaxFaults    \* bound: process deaths, and commits that lose their data on a
                 \* locked database

ASSUME EffectsAssumption ==
    /\ Plans \subseteq [scenario : {"tool", "writeback", "muted", "develop"}, tools : Seq(Tools)]
    /\ \A p \in Plans : p.scenario = "writeback" =>
          \A k \in 1..(Len(p.tools) - 1) : p.tools[k] = Comment
    /\ \A p \in Plans : p.scenario # "develop" => \A k \in DOMAIN p.tools : p.tools[k] # Patch
    /\ MaxFaults \in Nat

VARIABLES
    plan,      \* the plan of the task
    status,    \* task.status
    ckpt,      \* stage of the last checkpoint
    pc, pos,   \* where the pipeline is, and at which call of the plan
    appr,      \* the approval_id the pass runs under
    done,      \* calls whose result pipeline_state remembers (develop)
    excused,   \* a comment failed and the transition was still to be made
    rb,        \* the rollback request
    crashes, losses

taskVars == <<plan, status, ckpt, pc, pos, appr, done, excused>>
vars == <<gatewayVars, taskVars, rb, crashes, losses>>

Statuses == {"executing", "awaiting_approval", "completed", "failed", "rolled_back"}

NoRollback == [phase |-> "none", todo |-> {}, ok |-> TRUE, quiet |-> TRUE, seen |-> {}]

TypeOK ==
    /\ GatewayTypeOK
    /\ plan \in Plans /\ status \in Statuses
    /\ ckpt \in {"review_pre", "awaiting_approval", "review_post"}
    /\ pc \in {"idle", "begin", "step", "calling"} /\ pos \in Nat
    /\ appr \in Approvals \cup {None}
    /\ done \subseteq Nat /\ excused \in BOOLEAN
    /\ rb.phase \in {"none", "run", "done"} /\ rb.ok \in BOOLEAN /\ rb.quiet \in BOOLEAN
    /\ rb.todo \subseteq Rows /\ rb.seen \subseteq Approvals
    /\ crashes \in Nat /\ losses \in Nat

(* A plan the reviewer approved starts at once; another one waits for its approval. *)
Init ==
    /\ plan \in Plans
    /\ GatewayInit
    /\ pos = 1 /\ appr = None /\ done = {} /\ excused = FALSE
    /\ rb = NoRollback /\ crashes = 0 /\ losses = 0
    /\ \/ /\ gate = [a \in Approvals |-> "unused"]
          /\ status = "executing" /\ ckpt = "review_pre" /\ pc = "begin"
       \/ LET b == CHOOSE a \in Approvals : TRUE IN
             /\ gate = [a \in Approvals |-> IF a = b THEN "pending" ELSE "unused"]
             /\ status = "awaiting_approval" /\ ckpt = "awaiting_approval" /\ pc = "idle"

-----------------------------------------------------------------------------
(* The pass. *)

Begin ==
    /\ pc = "begin"
    /\ Commit /\ row' = row
    /\ status' = "executing" /\ pc' = "step" /\ pos' = 1
    /\ UNCHANGED <<call, effects, tree, left, plan, ckpt, appr, done, excused, rb, crashes, losses>>

FaultLeft == crashes + losses < MaxFaults

(* Mutant: the last call of the plan is left out. *)
MoreButLast == plan.scenario # "muted" /\ pos < Len(plan.tools)

(* muted: the write-back with jira_writeback_disabled, which completes without a call. *)
More == plan.scenario # "muted" /\ pos <= Len(plan.tools)

(* Mutant: pipeline_state does not remember the patches. *)
RememberedNever == FALSE

Remembered == plan.scenario = "develop" /\ pos \in done

SkipDone ==
    /\ pc = "step" /\ More /\ Remembered
    /\ pos' = pos + 1
    /\ UNCHANGED <<gatewayVars, plan, status, ckpt, pc, appr, done, excused, rb, crashes, losses>>

StartCall ==
    /\ pc = "step" /\ More /\ ~Remembered
    /\ OpenCall(plan.tools[pos], appr)
    /\ pc' = "calling"
    /\ UNCHANGED <<plan, status, ckpt, pos, appr, done, excused, rb, crashes, losses>>

InCall ==
    /\ pc = "calling"
    /\ GatewayStep
    /\ UNCHANGED <<taskVars, rb, crashes, losses>>

(* TOOL_SUCCEEDED.  A plan of a single tool writes the checkpoint review_post next. *)
Advance ==
    /\ call' = NoCall /\ pc' = "step" /\ pos' = pos + 1
    /\ done' = IF plan.scenario = "develop" THEN done \cup {pos} ELSE done
    /\ ckpt' = IF plan.scenario = "tool" THEN "review_post" ELSE ckpt
    /\ UNCHANGED <<effects, tree, left, plan, status, appr, excused, rb, crashes>>

(* Mutant: TOOL_SUCCEEDED is flushed and not committed. *)
CallReturnedFlushed ==
    /\ pc = "calling" /\ call.phase = "returned"
    /\ UNCHANGED <<row, kept, gate>>
    /\ Advance
    /\ UNCHANGED losses

CallReturned ==
    /\ pc = "calling" /\ call.phase = "returned"
    /\ Commit /\ row' = row
    /\ Advance
    /\ UNCHANGED losses

(* The same when the commit of the event loses what the session had pending. *)
CallReturnedUnsaved ==
    /\ pc = "calling" /\ call.phase = "returned" /\ FaultLeft
    /\ RollBack
    /\ Advance
    /\ losses' = losses + 1

RetryLosesCommit ==
    /\ pc = "calling" /\ FaultLeft
    /\ RetryUnsaved
    /\ losses' = losses + 1
    /\ UNCHANGED <<taskVars, rb, crashes>>

(* TOOL_FAILED: only a comment with a transition behind it lets the plan go on. *)
CallRaised ==
    /\ pc = "calling" /\ call.phase = "raised"
    /\ Commit /\ row' = row /\ call' = NoCall
    /\ IF plan.scenario = "writeback" /\ pos < Len(plan.tools)
       THEN /\ excused' = TRUE /\ pos' = pos + 1 /\ pc' = "step" /\ status' = status
       ELSE /\ status' = "failed" /\ pc' = "idle"
            /\ UNCHANGED <<pos, excused>>
    /\ UNCHANGED <<effects, tree, left, plan, ckpt, appr, done, rb, crashes, losses>>

(* _pause_for_tool_approval: the approval and its row become visible. *)
Pause ==
    /\ pc = "calling" /\ call.phase = "gated"
    /\ Commit /\ row' = row /\ call' = NoCall
    /\ status' = "awaiting_approval" /\ ckpt' = "awaiting_approval" /\ pc' = "idle"
    /\ UNCHANGED <<effects, tree, left, plan, pos, appr, done, excused, rb, crashes, losses>>

(* A lost commit loses the approval, its row, the checkpoint and the status. *)
PauseUnsaved ==
    /\ pc = "calling" /\ call.phase = "gated" /\ FaultLeft
    /\ RollBack /\ call' = NoCall
    /\ pc' = "idle" /\ losses' = losses + 1
    /\ UNCHANGED <<effects, tree, left, plan, status, ckpt, pos, appr, done, excused, rb, crashes>>

(* The output review of a single tool may reject the result. *)
Finish(s) ==
    /\ pc = "step" /\ ~More
    /\ s \in IF plan.scenario = "tool" THEN {"completed", "failed"} ELSE {"completed"}
    /\ Commit /\ row' = row
    /\ status' = s /\ pc' = "idle"
    /\ UNCHANGED <<call, effects, tree, left, plan, ckpt, pos, appr, done, excused, rb, crashes, losses>>

-----------------------------------------------------------------------------
(* Operators, watchdog, process. *)

(* resume_after_approval: the plan again, from its first call, under the approval.     *)
(* Nothing keeps an operator from deciding while a rollback is at its inverses: its     *)
(* session holds no lock until its next event (autoflush=False, core/db.py).            *)
Grant(a) ==
    /\ pc = "idle" /\ gate[a] = "pending"
    /\ gate' = [gate EXCEPT ![a] = "granted"]
    /\ appr' = a /\ pc' = "begin"
    /\ rb' = [rb EXCEPT !.quiet = @ /\ rb.phase # "run"]
    /\ UNCHANGED <<row, kept, call, effects, tree, left, plan, status, ckpt, pos, done, excused,
                   crashes, losses>>

(* Mutant: the task takes the status of the approval. *)
RejectAsApproval(a) ==
    /\ pc = "idle" /\ gate[a] = "pending"
    /\ gate' = [gate EXCEPT ![a] = "rejected"]
    /\ status' = "rejected"
    /\ UNCHANGED <<row, kept, call, effects, tree, left, plan, ckpt, pc, pos, appr, done, excused,
                   rb, crashes, losses>>

Reject(a) ==
    /\ pc = "idle" /\ gate[a] = "pending"
    /\ gate' = [gate EXCEPT ![a] = "rejected"]
    /\ status' = "failed"
    /\ UNCHANGED <<row, kept, call, effects, tree, left, plan, ckpt, pc, pos, appr, done, excused,
                   rb, crashes, losses>>

(* The watchdog fails a task that executes and has no thread. *)
FailStale ==
    /\ pc = "idle" /\ status = "executing"
    /\ status' = "failed"
    /\ UNCHANGED <<gatewayVars, plan, ckpt, pc, pos, appr, done, excused, rb, crashes, losses>>

(* _prepare_develop_resume: from a checkpoint of codegen a sandbox with changes is reset  *)
(* to its snapshot and cleaned, and pipeline_state forgets that the first patch was        *)
(* applied.                                                                                *)
CleansSandbox ==
    /\ left # {} \/ Patching
    /\ left' = {} /\ done' = done \ {1}
    /\ \E n \in 0..Len(tree) : tree' = SubSeq(tree, 1, n)

(* The process dies, with what was not committed, and is started again: a task that  *)
(* was executing is resumed without an approval, unless it last wrote the checkpoint *)
(* of a pause, where the resume returns at once.                                     *)
CrashAndResume ==
    /\ FaultLeft /\ crashes' = crashes + 1
    /\ row' = kept /\ kept' = kept /\ gate' = DropGate
    /\ call' = NoCall
    /\ IF status = "executing" /\ ckpt # "awaiting_approval"
       THEN pc' = "begin" /\ appr' = None
       ELSE pc' = "idle" /\ appr' = appr
    /\ rb' = IF rb.phase = "run" THEN NoRollback ELSE rb
    /\ \/ MayLeave(left') /\ UNCHANGED <<tree, done>>
       \/ pc' = "begin" /\ plan.scenario = "develop" /\ CleansSandbox
    /\ UNCHANGED <<effects, plan, status, ckpt, pos, excused, losses>>

-----------------------------------------------------------------------------
(* rollback_task and RollbackExecutor. *)

(* Rows without an inverse are skipped; the inverses of Jira calls are placeholders  *)
(* that report success and do nothing.  What remains is the patches.                 *)
Undoable == {i \in Rows : kept[i].inverse = "git_revert"}

(* Mutant: the oldest row first. *)
Oldest(todo) == CHOOSE i \in todo : \A j \in todo : i <= j

(* The rows are undone newest first (order_by desc). *)
Newest(todo) == CHOOSE i \in todo : \A j \in todo : j <= i

(* It reads the committed rows and the pending approvals once. *)
BeginRollback ==
    /\ rb.phase # "run" /\ status # "rolled_back"
    /\ rb' = [phase |-> "run", todo |-> Undoable, ok |-> TRUE, quiet |-> pc = "idle",
              seen |-> {a \in Approvals : gate[a] = "pending"}]
    /\ UNCHANGED <<gatewayVars, taskVars, crashes, losses>>

StillQuiet == rb.quiet /\ pc = "idle"

(* _execute_inverse: git reset --hard to the commit before the patch may fail.  It does *)
(* not touch files git does not know.                                                    *)
Inverted(ok) ==
    /\ rb.phase = "run" /\ rb.todo # {}
    /\ tree' = IF ok THEN kept[Newest(rb.todo)].before ELSE tree
    /\ left' = IF ok THEN left \ {"edits"} ELSE left
    /\ rb' = [rb EXCEPT !.todo = @ \ {Newest(@)}, !.ok = @ /\ ok, !.quiet = StillQuiet]
    /\ UNCHANGED <<row, kept, gate, call, effects, taskVars, crashes, losses>>

WasGranted(a) == gate[a] \in {"granted", "withdrawn"}

(* The approvals it saw pending are cancelled, also one that was granted meanwhile (of  *)
(* which the event log still tells), and the task is ROLLED_BACK, whatever failed.      *)
EndRollback ==
    /\ rb.phase = "run" /\ rb.todo = {}
    /\ gate' = [a \in Approvals |-> IF a \notin rb.seen THEN gate[a]
                                     ELSE IF WasGranted(a) THEN "withdrawn" ELSE "cancelled"]
    /\ status' = "rolled_back"
    /\ rb' = [rb EXCEPT !.phase = "done", !.quiet = StillQuiet, !.seen = {}]
    /\ UNCHANGED <<row, kept, call, effects, tree, left, plan, ckpt, pc, pos, appr, done, excused,
                   crashes, losses>>

-----------------------------------------------------------------------------
PipelineStep ==
    \/ Begin \/ SkipDone \/ StartCall \/ InCall
    \/ CallReturned \/ CallReturnedUnsaved \/ RetryLosesCommit \/ CallRaised
    \/ Pause \/ PauseUnsaved
    \/ \E s \in Statuses : Finish(s)

Next ==
    \/ PipelineStep
    \/ \E a \in Approvals : Grant(a) \/ Reject(a)
    \/ FailStale \/ CrashAndResume
    \/ BeginRollback \/ (\E ok \in BOOLEAN : Inverted(ok)) \/ EndRollback

Spec == Init /\ [][Next]_vars /\ WF_vars(PipelineStep)
-----------------------------------------------------------------------------
(* Properties. *)

Made(t) == {k \in DOMAIN effects : effects[k].tool = t}
Occurs(t) == Cardinality({k \in DOMAIN plan.tools : plan.tools[k] = t})

(* What a guarded tool did outside was done under an approval an operator granted,    *)
(* however calls were retried, resumed after a crash, or found their approval lost.    *)
GuardedNeedsGrant ==
    \A k \in DOMAIN effects :
        effects[k].tool \in Guarded => /\ effects[k].appr # None
                                       /\ WasGranted(effects[k].appr)

(* One grant pays for one pass: under it a tool acts at most once per place it has in  *)
(* the plan and attempt the gateway may make.  Without a crash no patch is applied again *)
(* by the pass a grant starts: pipeline_state remembers the patches that were.           *)
GrantIsUsedOnce ==
    /\ \A a \in Approvals, t \in Tools :
           Cardinality({k \in Made(t) : effects[k].appr = a}) <= Occurs(t) * Attempts(t)
    /\ crashes = 0 => Cardinality(Made(Patch)) <= Occurs(Patch)

(* Without a crash or a lost commit, what was done outside by a call that is over is    *)
(* in a finished row another session can read: that is what a rollback starts from.     *)
EffectsAreRecorded ==
    crashes = 0 /\ losses = 0 =>
        \A k \in DOMAIN effects :
            LET i == effects[k].row IN
            \/ pc = "calling" /\ call.row = i
            \/ i # 0 /\ kept[i].tool = effects[k].tool
                     /\ kept[i].status \in {"SUCCEEDED", "FAILED", "TIMED_OUT"}

(* COMPLETED means that every call of the plan acted, but for a comment that failed     *)
(* before a transition, and but for a write-back that is switched off: a resumed or      *)
(* granted pass skips nothing that is still to do.                                       *)
CompletedMeansDone ==
    status = "completed" /\ plan.scenario # "muted" =>
        \A k \in DOMAIN plan.tools :
            \/ plan.tools[k] = Comment /\ excused
            \/ Made(plan.tools[k]) # {}

(* A patch was refused; what it did before that may stay. *)
PatchRefused == \E i \in Rows : kept[i].tool = Patch /\ kept[i].status = "FAILED"

(* A rollback during which no pipeline worked and whose steps succeeded leaves the HEAD  *)
(* of the sandbox as it was before the first patch, and nothing an operator could still  *)
(* grant; undoing the rows in another order than the newest first would not.  Having     *)
(* undone a patch it leaves no edit of a tracked file, only files git does not know;     *)
(* with none to undo it leaves what a refused patch left, and nothing if none was.       *)
RollbackRestores ==
    rb.phase = "done" /\ rb.quiet =>
        /\ pc = "idle" /\ \A a \in Approvals : gate[a] # "pending"
        /\ rb.ok /\ crashes = 0 /\ losses = 0 =>
               /\ tree = <<>>
               /\ Undoable # {} => left \subseteq {"files"}
               /\ Undoable = {} /\ ~PatchRefused => left = {}

(* A pass ends: its calls give up after their attempts. *)
PlanEnds == (pc = "begin") ~> (pc = "idle")
=============================================================================
