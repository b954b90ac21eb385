# Ops Agent: a TLA+ model of the platform

This directory holds TLA+ modules that model the backend of the Ops Agent platform
(`src/apps/backend/app`) and the protocols its page and its benchmark script have with
it, TLC configurations that check them on small instances, and theorems about them that
the TLAPS proof system checks for every instance. Paths below are relative to
`src/apps/backend/app` unless they start with `src/`.

- `tlasany M.tla` parses a module,
- `tlc -config X.cfg M.tla` runs a configuration (the table in [Runs](#runs) names
  module and configuration),
- `tlapm M.tla` checks the proofs of `TaskRuntimeProofs`, `TaskRuntimeSafety`,
  `DevelopPipelineProofs`, `DevelopPipelineSafety`, `TaskEffectsProofs`,
  `McpClientProofs`, `ServicesProofs` and `StagesProofs`.

`PROJECT.json` maps every definition that models code to the lines it models.

## The system

A task is one row of the database. A pipeline takes it through retrieval,
planning, plan review, execution and verification; operators decide approvals,
abandon, iterate or roll back through the HTTP API; a watchdog fails what does
not move; and when the process starts it resumes or fails what the previous
process left behind. No message queue and no row lock orders these writers: each
works on a SQLAlchemy session of its own, keeps the row as it loaded it
(`expire_on_commit=False`, `core/db.py:61`) and commits the attributes it changed.

Around this core stand services with state of their own: the pool that runs the
pipelines, the gateway every tool call goes through, an MCP client with an event loop
in a thread, sandboxes and workspaces on disk, an index of documents with a cache, a
memory of what went wrong, evidence for playbooks, a registry of repositories, a chat,
and a stream that shows a page what happens.

### Components

| Component | State | Operations | Interacts through | Hard behaviour | What makes it correct | Modules |
|---|---|---|---|---|---|---|
| Pipeline executor `core/pipeline_executor.py` | the pool, `_active_workers`, `_queued_jobs`, `_saturated_since` | init, shutdown, submit, run | called by `services/tasks.py`; read by `api/health.py` | lock sections of several threads; shutdown under running jobs | counters never above the real load; an alarm has a cause; accepted jobs run | `PipelineExecutor` |
| Task lifecycle and jobs `services/tasks.py`, `services/events.py` | task row, event log | create, run, resume, rollback; `record_event`, `set_task_status` | the row; flags; the pool | commits of stale sessions; commits that lose their data on a locked database | no lost or invented approval state; a handler never revives a task | `TaskRuntime`, `TaskEffects` |
| Approvals `services/approvals.py` | approval rows, `pending_approval` | grant, reject | the row; a grant runs the rest of the pipeline in the request's thread | check and decision are separate commits; two deciders | nothing behind an approval runs without a grant; a waiting task can be unblocked | `TaskRuntime`, `TaskEffects` |
| Cancellation flags `services/task_cancel.py` | `_cancelled_task_ids` | request, check, clear | raised by the watchdog and by abandon, checked by every `record_event`, cleared by jobs only | flag raised between two commits; flag nobody clears | a hung job gives its thread back | `TaskRuntime` |
| Stale watchdog `services/stale_watchdog.py` | none of its own | load, mark, flag | row, flags | decides on a row it loaded earlier; a pass that raises is swallowed | every flight ends | `TaskRuntime` |
| Restart `main.py`, `services/checkpointing.py` | `checkpoint_json`, its age | resume, orphan sweep, start of serving | row, pool | process death between any two commits; sweep beside jobs already resumed | each interrupted task is resumed or failed, not both, not neither | `TaskRuntime`, `TaskPlanning`, `TaskWorkspace` |
| Task endpoints `api/tasks.py` | none | abandon, rollback, iterate | row, flags, pool | stale checks | guards hold when the write happens | `TaskRuntime` |
| Event stream `api/tasks.py:202-432`, `useTaskStream.ts` | cursor of a connection; what the page has fetched | flush, commit, poll, end, reconnect, refetch | event log, row status | an event's time is older than its commit, times may tie and ids are random; polling against commits | events in order of (created_at, id), once; the page shows what the stream has seen; it ends | `EventStream` |
| Primary orchestrator `orchestrator/service.py` | position in the pipeline, plan, verdict, checkpoints | prefetch, plan, review, dispatch, pause, resume | row, approvals, gateway, models | the plan is changed in place between commits; resume enters by the last checkpoint | what is executed is what was reviewed | `TaskRuntime`, `TaskPlanning`, `TaskEffects` |
| Develop pipeline `orchestrator/service.py:5101-10036` | `pipeline_state` in `latest_result_json` (cached results, pending approval ids), the sandbox | codegen, patch, tests, gates, repairs, Jira transition | gateway, approvals, sandbox | six kinds of approval; results cached over repairs; nested calls and their exceptions; crash between an effect and its record | no transition before all gates and its approval; no effect twice | `DevelopPipeline`, `CodegenBatches`, `CompileRepair`, `ReviewGates`, `TaskWorkspace` |
| Code generation `services/codegen.py`, `aider_format.py` | attempts, recoveries, worktrees | ask, recover, validate, fall back | models, command-line agents, the source repository | retries inside retries; agents killed in the middle; views that are not the file | what is returned was validated; calls are bounded; nothing is left behind | `CodegenCall`, `CodegenCli`, `AiderBlocks` |
| Agent loops `services/agent_loop.py` | messages, quotas | turn, tool, diff | code generator | budgets over turns | quotas hold; it ends | `AgentLoop` |
| Tool gateway `tools/gateway.py` | tool executions, pending execution | permission check, approval, attempt, retry, timeout | approvals, registry, services outside | only flushed until the next event; a timeout that acted | a guarded tool runs only under a grant, and at most once per grant and attempt | `ToolGateway`, `TaskEffects` |
| Rollback executor `services/rollback.py` | history of effects | inverse of each, in reverse order | gateway | one of several fails; a pipeline beside it | what is reported as rolled back is | `TaskEffects` |
| MCP client `services/mcp_client.py` | loops, servers, queues | start, stop, call | gateway; a server process | callers that give up; stop without the callers' lock | no call twice, none after stop | `McpClient` |
| Sandbox and workspace `services/sandbox.py`, `task_workspace.py`, `evidence_chain.py` | working tree, snapshots; intent, manifest, attempts | clone, patch, commit, reset; write, gate | orchestrator | files shared by hard links; interrupted patches; writes that fail without a word | a resume works on its checkpoint's tree; what is asked about is backed | `SandboxFiles`, `TaskWorkspace` |
| Knowledge `services/knowledge.py`, `knowledge_retrieval_cache.py`, `cards.py`, `cc_agent_loop.py` | documents, full-text rows, cards, cache | sync, upload, delete, build, search | database, models | several writers of one row; timeouts inside timeouts | each document can be found; results are of the source asked | `KnowledgeIndex`, `AgenticRetrieval` |
| Memory `services/memory.py`, promotion `services/playbook_promotion.py` | memories; candidates, rollups | observe, merge, promote; record, count | events of the session; workspaces of all tasks | stale sessions; one writer at a time; deaths | lessons come from work that was done, and stay | `AgentMemory`, `PlaybookPromotion` |
| Repository registry `services/repository_registry.py` | records, directories | clone, upload, delete | file system | a lock for the records, none for the directories; read errors taken for an empty file, errors of a removal ignored | a record leads to the whole directory of its request | `RepositoryRegistry` |
| Chat and intent `api/chat.py`, `ChatPage.tsx` | turns, tasks, page | send, stream, call tools, persist, abort | providers, pool, page | a page that leaves while a thread persists | one task per message; the page is right | `ChatTurn` |
| Accuracy benchmark `src/apps/backend/scripts/run_qa_benchmark.py` | records, artifact | ask, poll, judge, pause, write | backend, judges | lost questions, failing judges, a kill while writing | exit code 0 vouches for the scores | `QaBenchmark` |
| Governance, model-call cache, static checks, repair of diffs, symbol graph, integrations, metrics, read endpoints, rest of the web client | none shared, or none | functions of text; input and output | | | | not modelled |

`PROJECT.json` lists every component with its sources and status, and under
`hazards` what is hard to test in this code, each at its line, with the
properties that would catch it.

## The modules

| Module | Content |
|---|---|
| `PipelineExecutor` | the pool and its counters |
| `TaskRuntime`, `MCTaskRuntime` | task rows, approvals, jobs, operators, watchdog, flags, crash and restart |
| `ToolGateway`, `TaskEffects`, `MCTaskEffects` | a tool call; the plan of a task carried out call by call, and its rollback |
| `TaskPlanning` | from a request to a plan that is reviewed and executed |
| `DevelopPipeline`, `MCDevelopPipeline` | code generation, patch, gates, repairs, approvals, Jira transition, crash and resume |
| `JiraRelease` | what `DevelopPipeline` promises the owner of the issue |
| `CodegenBatches` | the codegen stage: batches in a pool, deadline, late and lost results, merge, coverage |
| `CodegenCall` | one call of `generate_patch`: providers, attempts, recoveries, validations |
| `CodegenCli` | one call of a command-line agent in a worktree or a temporary directory |
| `AiderBlocks` | an answer in search/replace blocks |
| `AgentLoop` | the loop of turns with tools and quotas |
| `CompileRepair` | the compile gate and its repair rounds |
| `ReviewGates` | the gates after it as the stack of nested calls they are |
| `TaskWorkspace` | the files a task leaves and the evidence gate that reads them back |
| `McpClient` | callers, loop, server queue, stop and start again |
| `SandboxFiles` | clone, patch, commit, interruption, resume |
| `EventStream` | writers, connection, page |
| `ChatTurn` | a message from the page to the stored row |
| `KnowledgeIndex`, `AgenticRetrieval` | documents, cards, cache; the search a model steers |
| `AgentMemory`, `PlaybookPromotion` | the learning loop |
| `RepositoryRegistry` | the repositories users add |
| `QaBenchmark` | the accuracy benchmark |
| `MCServices` | the pool and ten modules around a pipeline, one in focus |
| `MCStages` | planning, the stages of the develop pipeline and its workspace, one in focus |
| `TaskRuntimeProofs`, `TaskRuntimeSafety`, `DevelopPipelineProofs`, `DevelopPipelineSafety`, `TaskEffectsProofs`, `McpClientProofs`, `ServicesProofs`, `StagesProofs` | theorems; `ServicesProofs` holds those of the modules `MCServices` composes (all but the MCP client) and of `MCServices` itself, `StagesProofs` those of `MCStages` and of what it composes |

Which modules meet. `TaskEffects` extends `ToolGateway`: the pipeline's steps and the
gateway's act on one set of rows, approvals and effects. `DevelopPipeline` implements
`JiraRelease`. The remaining modules refine a step another module takes as a choice:
the job of `TaskRuntime` is what `TaskPlanning`, `TaskEffects` and `DevelopPipeline`
detail; the codegen action of `DevelopPipeline` is `CodegenBatches`, whose call is
`CodegenCall`, whose answer comes from `CodegenCli`, `AiderBlocks` or `AgentLoop`; its
compile gate is `CompileRepair`, its gates and repairs are `ReviewGates`. These pairs
share no variable in the models: that the choice of the one covers what the other
produces is an argument from the code, which no run checks.

### PipelineExecutor

The code guards the counters by `_lock`, but `submit_pipeline_job` reads
`_executor` before it takes the lock and `shutdown_pipeline_executor` closes the
pool after it released it. So one action is one lock section or one access
outside it:

| Code | Actions |
|---|---|
| `init_pipeline_executor` | `InitPipelineExecutor` |
| `shutdown_pipeline_executor` | `ShutdownDetach` (under the lock), `ShutdownClose` |
| `submit_pipeline_job` | `SubmitCapture` or `SubmitUninitialised`, `SubmitCount`, then `SubmitAccepted` or `SubmitRefused` |
| `_run_tracked_job` | `StartJob`, `FinishJob` |
| `_refresh_saturation_locked` | `RefreshSaturation`; the time it stores is reduced to "is set" |

### TaskRuntime

`row` and `approval` are what is committed. `th[x]` is a thread: the job of a
task, named by the task, or an operator's request. It has a `view`, the row as
its session loaded it. `StatusWritten` and `PendingWritten` write an attribute
only when it differs from the view: this is what a session does, and the reason
why a stale session may fail to clear a flag it believes to be down.

A step is a commit. `record_event` commits everything the session has pending,
after `check_or_raise`; so the steps of the code are cut exactly at its calls of
`record_event` and `set_task_status`, and `~Flagged(t)` is a guard of each.

| Code | Actions |
|---|---|
| `create_task` | `CreateTask`, `SubmitJob` |
| `run_pipeline_job` | `StartJob`, `CrashHandler`, `CancelledJob`, `FinishPipeline` |
| `resume_pipeline_job`, `resume_task` | `StartResume` with `ResumeAt`, `ResumeVerdict`, `ResumePc` |
| the orchestrator's calls of `set_task_status` | `EnterStatus` with `NextStatuses` |
| `_write_task_checkpoint` | `WriteCheckpoint` with `NextCheckpoints` |
| the review step | `ReviewPlan` |
| the pauses for an approval | `RequestApproval`; `AnnounceApproval` and `PauseAnnounced` where an event is committed before the status (reservation and semantic-review gates) |
| `ApprovalService.grant`, `reject` | `BeginDecision`, `Grant`; `Reject`, `RejectStatus` |
| `abandon_task` | `BeginAbandon`, `Abandon`, `AbandonFlag` |
| `rollback_task` | `BeginRollback`, `Rollback` |
| `TaskCancelledError` in a request | `CancelledRequest` |
| `_mark_stale_failed_once` | `GoStale` (time passes), `DogLoad`, `DogMark`, `DogFlag` |
| process death | `Crash` |
| `lifespan` | `ResumeInterrupted`, `SweepLoad`, `SweepFail`, `StartupDone` |
| the retry of `record_event` after "database is locked" | the `Lose...` actions: what was pending is discarded, the event alone is committed, the caller goes on |

Left to nondeterminism: which permitted status comes next, whether the pipeline
raises, the verdict, how long anything takes. Left out: event payloads, result
JSON, titles, the session prompt, and the work between commits.

### ToolGateway and TaskEffects

A tool call leaves a row, waits when its category is APPROVAL_REQUIRED, is attempted and
attempted again. The gateway only flushes, so there are two copies of the rows: `row`,
what the session of the pipeline sees, and `kept`, what another session (an operator, a
rollback) can read; `Commit` and `RollBack` are what the next `record_event` does to
them. What calls did outside is `effects`, and for a sandbox `tree`, its commits, and `left`,
what else is in it: "edits" of tracked files, "files" git does not know. A patch that is
refused may have changed some files before (`MayLeave`, `sandbox.py:424-462`); the commit of a
later patch takes them in or not (`Patched`: nobody looks at the results of `git add` and
`git commit`); `git reset --hard` removes the edits and not the files (`Inverted`).

| Code | Actions |
|---|---|
| `ToolGateway._execute_with_span` up to the approval | `OpenCall` as `ResumeCall`, `GatedCall` or `NewCall` |
| the attempts of `_execute_once`: read the transitions, post, confirm | `LookupAnswered`, `LookupFailed`, `PostAnswered`, `PostRefused`, `PostLost` (it may have acted), `ConfirmAnswered` |
| retry, last failure | `Retry`, `RetryUnsaved`, `GiveUp` |
| `_execute_plan_impl`, `_execute_writeback_plan`, the patches of the develop pipeline | `Begin`, `SkipDone`, `StartCall`, `InCall`, `CallReturned`, `CallRaised`, `Finish` |
| the pause for a tool's approval, its decision | `Pause`, `Grant`, `Reject` |
| an event that finds the database locked | `CallReturnedUnsaved`, `PauseUnsaved`, `RetryLosesCommit` |
| watchdog; death and resume | `FailStale`, `CrashAndResume`; the resume from a codegen checkpoint cleans the sandbox (`CleansSandbox`, `_prepare_develop_resume`) |
| `rollback_task`, `RollbackExecutor.execute_rollback` | `BeginRollback` (`rb.todo` is `Undoable`, the rows it has read and can undo), `Inverted` of the `Newest` of them until none is left, `EndRollback` |

A rollback holds no lock while it is at its inverses (`autoflush=False`,
`core/db.py:61-67`), so an operator may grant what it has already seen pending. It then
writes CANCELLED over the grant (`withdrawn`), and the pass the grant began works on.

The tools of a plan are those whose effect, inverse or retry differ; a plan of the
scenario "tool" stands for the single calls, "writeback" for the two Jira calls,
"muted" for the same with `jira_writeback_disabled`, which completes the task without a call
(`service.py:16197-16217`), and "develop" for the patches and the transition of a pass.

### TaskPlanning

The row and the copy a session works on are two variables, since SQLAlchemy writes a JSON
column when it was assigned and not when the dictionary in it was changed: an event
commits, `plnRow` gets what was assigned. A plan is an id, its targets, and whether it
carries the contracts of its playbook.

| Code | Actions |
|---|---|
| `_bootstrap_task_impl`: translation, issue, context | `Translate`, `TranslateRaises`, `FetchIssue`, `FetchFails`, `LocalContext` |
| anchors of the issue | `Classify`, `AnchorsMissing`, `AnchorsFound` |
| `generate_plan`: fast path, the chain, the fallback | `FastPath`, `ProviderAnswers`, `ProviderFails`, `FallbackPlan`, `FallbackRaises` |
| scope guard, backfills, contracts, gates | `Generated`, `SavePlan`, `GateBlocks`, `GatePasses` |
| `review_plan`, the verdict, the pause | `ReviewPlan`, `ExecuteApproved`, `PassWithGate`, `AskApproval`, `ReviewRejects` |
| the decision; death; `resume_task` | `GrantPlan`, `RejectPlan`, `Die`, `ResumePlanning` |

### DevelopPipeline

`_execute_develop_pipeline` is one method of five thousand lines. It runs some
twenty stages; each asks `pipeline_state` whether its result is cached and is
skipped if so. A repair or a retry pops some of the cached results and calls the
method again; a granted approval calls it from the start; so does a resume after
a crash, with the `pipeline_state` of the last checkpoint. What is hard is
whether, after any chain of these, the code that is approved and released is the
code the gates have judged.

Code is a version number. Four copies of it exist: `ps.diff`
(`pipeline_state["diff"]`), `local` (the variable `diff`, bound at the top of a
pass), `tree` (the files of the sandbox) and `head` (its last commit). `cleared`
remembers which version each gate let through. A version names the tree a diff
leads to from the clone; when `pre_codegen_snapshot_id` is not the clone, the
refreshed diff is only `Partial`.

The refreshed diff is what `git diff` tells of the sandbox, and git is asked about a list of
paths: `files_changed`, the files of the plan and those of the old diff
(`service.py:2448-2490`). `shows` holds for each version what that is: the version itself,
what was told before (the change lies wholly outside the list), or a `Partial` diff. Compile
repairs, edits by hand, refine and semantic repairs (`Wide`, with their `sr_extra_scope`,
8777-8786) may reach beyond the list; the others stay within it, but what a version left out
its successor leaves out as well. The gates that read the diff judge what is shown; tests, compiler
and artifact check look at the sandbox.

| Code (`orchestrator/service.py`) | Actions |
|---|---|
| codegen, cached or not (5472-6574) | `CodegenCached`, `Codegen` |
| batch coverage, contract coverage, patch budget (6588-7135) | `CoverageRetry`, `AskConflict`, `ScopeRetry`, `PassStage` |
| sandbox and patch (7141-7222) | `Apply`, `CommitPatch`, `RecordPatch`, `SkipApply` |
| completeness and its one retry (7224-7494) | `Complete` |
| the gates from tests to evidence | `PassGate`, `SkipGate`, `FailStage` |
| compile gate and repair loop (7674, 10992) | `CompileRepair`, `CompilePassed`, `CompileSkipped`, `CompileCapped` |
| feature presence (7720) | `FeatureRepair` |
| `_refresh_codegen_diff_from_sandbox`, `_sandbox_diff_since_pre_codegen` (2448-2520) | `Refreshed`, with what `Changed` and `Told` choose at each change of the sandbox |
| conformance (9436) | `ConformancePassed`, `ConformanceRetry`, `ConformanceFailed` |
| `_reset_for_conformance_retry` | `RetryState`, `Retry` |
| the four sandbox repairs and `_reset_after_semantic_quality_refine` | `RepairApply`, `RepairRecord` with `RepairDrops` |
| the `_request_..._approval` methods | `Park`, used by `AskConflict`, `CompileCapped`, `SemanticBlocked`, `AskReservation`, `AskJira` |
| `resume_after_approval`, `reject` | `Grant` with `Answer`, `Reject` |
| Jira gate, transition, completion (9921-10036) | `SkipJira`, `Transition`, `RecordTransition`, `Finish` |
| `resume_task`, `_prepare_develop_resume` | `ResumeWaiting`, `ResumeReview`, `ResumeCodegen`, `ResumeGated` |

A step is the work of a stage with the state it saves; where a crash between the
effect and its record matters (the patch, the repairs, the transition) they are
two steps. What a gate finds is a choice, except that the conformance check, a
function of the diff, never judges the same version differently. `JiraRelease`
is the contract towards Jira: working, asked, authorised, ended, and one
transition at most; `Release` maps the pipeline to it.

Left out: overrides of a tool's permission, which make a tool return nothing and
the pass end; exceptions out of an inner pass, which the `try` around the call
swallows; a failed removal of the sandbox; a failing `git diff`; tasks without an
issue key, which move nothing. The statuses and the commits of the row are the
subject of `TaskRuntime`, where the develop pipeline is one job.

### CodegenBatches

Files of the plan are dealt into batches (`Batches`), each a call in a worker of a pool.

| Code (`orchestrator/service.py`) | Actions |
|---|---|
| the worker (5700-5871) | `WorkerStarts`, `WorkerEnds` |
| `as_completed` with its deadline (5901-6045) | `Collect`, `Drained`, `Deadline`, `Expire`, `Expired`, `CollectRaises` |
| results that come late (6063-6253), the call that is made once more (6254-6415) | `LateResult`, `LateTimesOut`, `SalvageStarts`, `SalvageEnds` |
| the merge, first batch wins per file (6416-6530) | `Merge` |
| contract gate and coverage with its retry (6586-6862) | `Covered`, `RecoverCoverage`, `Uncoverable` |
| death, and resume from the checkpoint of the merged diff | `DieAndResume` |

### CodegenCall, CodegenCli, AiderBlocks, AgentLoop

How one answer of a model is obtained. Text is reduced to what is asked of it: of a diff,
that its files are allowed and that it validates (`CodegenCall`); of a file an agent
edited, what it was made from and which attempt touched it last (`CodegenCli`); in
`AiderBlocks` a text is a sequence of tokens, since anchors must occur exactly once.

| Code | Actions |
|---|---|
| `generate_patch` with its ways around a model | `Given`, `LoopRaises`, `Begin`, `StructuralFails` |
| `_try_provider`: an attempt, a gap in the evidence, its recovery | `TryProvider`, `ModelAnswers`, `AttemptUnusable`, `AttemptRaises`, `AttemptGap`, `SwapFails`, `SpansFail` |
| `_validate_diff_paths_within_allowed`, `self_validate` | `CheckPaths`, `Validate` |
| `_call_claude_code`, `_call_codex` | `AddWorktree`, `MakeTempdir`, `AttemptEnds`, `CliAttemptFails`, `CliReset`, `ResetFails`, `ReturnGitDiff`, `ReturnScanned`, `ReturnPrinted`, `NoChange`, `CleanUp`, `CliDies` |
| `_parse_response_aider`, `aider_format.py` | `Marked`, `Answer`, `Unparsable`, `AdLoaded`, `ApplyBlock`, `Finish` |
| `run_agent_loop`, `_run_agent_loop` | `Hand`, `Gives`, `OverQuota`, `Explores`, `Applies`, `TalksOrMisnames`, `OutOfTurns`, `OutOfTime`, `CallFails`, `AnswersPair`, `NoModel` |

### CompileRepair and ReviewGates

`CompileRepair` is the loop between compiler and model: a file is fine or has an error,
and a repair of one file may break another.

| Code (`orchestrator/service.py`) | Actions |
|---|---|
| `_run_compile_repair_loop`: the gate (11110-11310) | `RepGatePasses`, `GateRaises`, `GateOutside`, `GateCapped`, `GateFails` |
| `_attempt_compile_repair`: file by file (11802-12338) | `SkipUnnamed`, `StartFile`, `LeaveFile` |
| its attempts (12339-12847) | `AttemptFails`, `AttemptAnswers`, `DiffKeeps`, `DiffDrops`, `RetryAnswers`, `Apply`, `ApplyFails` |
| end of a round (11311-11517) | `EndRound`, `RoundTimesOut` |

`ReviewGates` keeps what `DevelopPipeline` flattens: a repair patches, drops results and
calls the pipeline anew, inside the `try` of the semantic review or of the runtime
validation, or outside any. A frame of `revStack` is one such call with a
`pipeline_state` of its own; `Raises` runs up the stack to whoever catches. There is one
`...Pass`, `...Asks` or `...Repair` action per gate, `Cached` for a result that is
reused and `Blocks` for a gate that fails the task. `revTells` is what the path-limited
`git diff` tells of the sandbox; it is negative (`Partly`) where files are left out, which the
repairs of `Reaching`, refine and semantic, bring about (`TellsOf`).

### TaskWorkspace

Intent, evidence manifest, attempts and what is read back before the Jira approval.

| Code | Actions |
|---|---|
| `_workspace_...` of the orchestrator, each dropped when it raises | `WriteIntent`, `ReadIssue`, `ReadIssueAgain`, `MakePlan`, `Generate` |
| compile, its cap, conformance retry | `CompilePasses`, `CapExceeded`, `GrantCap`, `WsRetry`, `WsFails` |
| `evidence_chain.py` before the approval | `GateRefuses`, `ClaimsRefuse`, `AttestationRefuses`, `GateCloses`, `GateSkipped`, `AskJira` |
| the Jira grant and the pass after it, in which conformance is judged again | `GrantJira`, `WsRetry`, `GateSkipped`, `Release` |
| death, resume, the sweep of old directories | `WsDie`, `WsResume`, `Sweep` |

### The services around a pipeline

| Module, code | Actions |
|---|---|
| `McpClient`, `_MCPClient.start`, `stop` | `McpStart`, `McpStartEmpty`, `McpStopBegins`, `McpStopEnds` |
| `call_tool`, `_call_async` in the caller's thread | `McpChecks`, `McpSubmits`, `McpPuts`, `McpTimesOut` |
| `_run_server` | `McpConnects`, `McpTakes`, `McpAnswers`, `McpCrashes` |
| `SandboxFiles`, `_copytree_with_hardlinks`, `apply_patch` with its strategies | `Clone`, `BeginPatch`, `TryGit`, `TryPython`, `CommitPatch`, `CommitIgnored`, `NotePatched`, `RepairFailed` |
| death, `_prepare_develop_resume`, removal | `Die`, `ResumeClean`, `ResumeDirty`, `Teardown`, `TeardownStops` |
| `EventStream`, `record_event` and its retry | `Flush`, `CommitEvent`, `FlushAgain` |
| `_task_event_stream` | `Connect`, `ReadTask`, `ReadEvents`, `StreamTimeout`, `SendDone` |
| `useTaskStream` | `Drop`, `Refetch` |
| `ChatTurn`, `chat_send` and its providers | `SendMessage`, `Token`, `ProviderFails`, `CallsTool`, `ToolEnds`, `AnswerDone` |
| the persisting thread; the page leaves | `InsertTask`, `SubmitTask`, `PersistFails`; `Abort` |
| `KnowledgeIndex`, sync, upload, deletion | `EditFile`, `SyncReads`, `SyncCommits`, `SyncInvalidates`, `Upload`, `DeleteDocument` |
| `CardGenerator`, search and cache | `CardBegins`, `CardCommits`; `SearchBegins`, `SearchReads`, `SearchPuts`, `Expires` |
| `AgenticRetrieval`, the rounds of `cc_agent_loop.py` | `StartRound`, `ProviderAnswersCc`, `ProviderFailsCc`, `NotJson`, `SaysDone`, `Decides`, `ToolRuns`, `NoRoundLeft`, `Crashes`, `Serve` |
| `AgentMemory`, the hook of a failed gate | `GateFailed`, `NotStored`, `StoreNew`, `FindSimilar`, `MergeMemory` |
| promotion at a status, failures, the end of a job | `ReachStatus`, `Promote`, `WriteFailure`, `FinishTask`, `JobDies`, `Decide`, `DayPasses` |
| `PlaybookPromotion`, `_record_playbook_promotion_candidate` | `WritesCandidate`, `Counts`, `StoresRollup`, `RecordingFails`, `CommitsApproval`, `Granted`, `Rejected`, `PrDies`, `SweepsWorkspace` |
| `RepositoryRegistry`, `repository_registry.py` | `Begins`, `Refused`, `Clears`, `ClearFails`, `Extracts`, `ExtractFails`, `Clones`, `CloneFails`, `Abandons`, `Registers`, `RegistersUnread`, `RegisterFails`, `DeletesRecord`, `FindsNothing`, `RemovesTree`, `LeavesTree`, `Restart` |
| `QaBenchmark`, the loop of `run_qa_benchmark.py` | `Preflight`, `Reach`, `Submit`, `PollFails`, `PollTimesOut`, `TaskEnds`, `ReadFails`, the judges, `Recorded`, `Paused`, `OpensArtifact`, `WritesArtifact`, `QaFinish`, `Killed` |

Three of them need a word. In `McpClient` every start makes a new loop, numbered by the
start; a caller that times out leaves its request where it is. In `EventStream` an event
is its `created_at`, taken at the flush, and its random id; times may tie. Of two writers the
one that waits for the database's lock commits an event that is ordered before one already
read, be it older or of the same time with a smaller id: it is `late`. In
`RepositoryRegistry` a directory is the set of requests whose files are in it; a name
whose requests overlapped, failed or died is in `regUnsure` (a `rmtree` that raises half way,
`ClearFails`, among them), and nothing is claimed of it. A name whose files stayed when its
record went is in `regLeft`: the errors of a deletion are ignored (`LeavesTree`), and a
registry that cannot be read counts as empty, so that the registration of another name drops
the record (`RegistersUnread`).

## Runs

| Run | Module, configuration | Instance | Asks |
|---|---|---|---|
| `runtime_operators` | `MCTaskRuntime`, `TaskRuntimeOperators.cfg` | 1 task, 2 operators, 1 approval, 1 crash, 1 lost commit, ages 0..2 | every interleaving of job, watchdog, two operators, a crash, the resume and a commit that is lost keeps `PendingFlagBacked` |
| `runtime_restart` | `MCTaskRuntime`, `TaskRuntimeRestart.cfg` | 1 task, 1 operator, 2 approvals, 2 crashes, ages 0..2 | `PendingFlagBacked` with an approval of an earlier pause; through crashes and resumes a plan behind an approval needs it (`ExecutionNeedsGrant`); a flight ends, or a flag has leaked (`FlightEndsOrLeaks`); the thread of a hung job is given back, unless the task was rolled back, or failed by the sweep beside its resumed job (`SlotRecovered`) |
| `develop_gates` | `MCDevelopPipeline`, `DevelopPipelineGates.cfg` | 3 versions, 1 compile repair per visit, one attempt each of conformance retry, semantic and reservation repair; plan approval, contracts, completeness, cap approval, manual edits | the approval shows all `git diff` tells of the sandbox, which has compiled (`ShownIsCompiled`); no question twice (`NoRepeatedQuestion`); no silent return (`NoSilentReturn`) |
| `develop_work` | `MCDevelopPipeline`, `DevelopPipelineWork.cfg` | two retries, two repairs, one attempt each, room for more versions than the budgets allow | the gates of the reset lists have judged the sandbox or what `git diff` tells of it (`ResetsRerun`); budgets bound the work (`WorkIsBounded`); refinement of `JiraRelease` (`ReleaseIsGranted`) |
| `develop_ends` | `MCDevelopPipeline`, `DevelopPipelineLive.cfg` | 3 versions, one coverage retry, one crash | a pass ends or waits (`PassEnds`) |
| `task_effects` | `MCTaskEffects`, `TaskEffects.cfg` | comment and transition, the same switched off, one guarded request, two patches and a transition; 2 approvals, one retry, 6 rows, one crash or lost commit, a rollback at any time | what is done outside was granted, once per grant, is recorded, is complete and is taken back |
| `services` | `MCServices`, `Services.cfg` | pool, MCP client, sandbox, stream, chat, agentic search, registry, index, memory, promotion, benchmark, one at a time | each keeps its promises under the concurrency and failures it meets, and comes to an end |
| `stages` | `MCStages`, `Stages.cfg` | planning, batches, call, command-line agent, blocks, loop, compile repair, review, workspace, one at a time | plans are reviewed, patches checked, answers kept, repairs judged, questions backed; every stage ends |

Four more configurations state what a comment in the repository says and find a
behaviour of the code that contradicts it: `runtime_orphan`, `runtime_sweep`,
`develop_grant` and `planning_contracts`; see
[Where code and comments part](#where-code-and-comments-part).

`MCServices` and `MCStages` put components that share no variable beside each other.
Their interleaving would multiply states and show nothing, so `focus`, chosen at the
start, says which one moves; the others stay in one initial state. A behaviour of such
a run is one of a single component, and a property that joins those of several (each
component's own definitions, named in it) is about whichever is in focus.

### What the properties say

Of the runtime:

- `PendingFlagBacked`: a row with `pending_approval` has an approval an operator
  can decide. Otherwise nobody could unblock the task, and resume and sweep
  would both skip it.
- `ExecutionNeedsGrant`: a plan the reviewer put behind an approval does not
  enter EXECUTING before an approval of that task was granted, in any sequence of
  crashes, resumes and requests. "Granted" is what `APPROVAL_GRANTED` in the
  event log says, which survives a commit that loses the approval row.
- `FlightEndsOrLeaks`, `SlotRecovered`: the watchdog's two promises. The watchdog loses sight
  of a task that was rolled back, or that the sweep has failed beside its resumed job
  (`OutOfSight`).

Of the develop pipeline:

- `ShownIsCompiled`: the diff a human is asked to sign is all that `git diff` tells of the
  code in the sandbox, and that code, as it stands, has passed the compile gate. It relates
  the copies of the code over several passes; a repair that forgot to drop one cached
  result, or a refresh left out, breaks it. That `git diff` tells the whole is a different
  matter, and false after a repair that reached beyond the paths it is asked about;
  `ShownIsJudged`, a part of `RepairsAreJudged` below, says when it is true.
- `ResetsRerun`: the two reset lists do what they list: gates on both lists for any
  mixture of repairs and retries (`RepairReruns`), a gate on one of them as long as only
  that reset was used (`RetryReruns`). Tests, compiler and artifact check have judged the
  sandbox, the other gates what is shown.
- `NoRepeatedQuestion`: a grant lets the task pass the place where it asked.
  The compile approval is exempt: it may be granted to try again.
- `NoSilentReturn`: the evidence gate returns silently while an exhausted compile
  repair is flagged; no pass reaches it with the flag up. If one did, the task
  would stay EXECUTING with nothing to wait for.
- `WorkIsBounded`: every reset keeps the attempt counters.
- `ReleaseIsGranted`: one transition, after its own grant, never after a
  rejection. It holds when no plan or conflict approval stands in front and no
  crash comes between the transition and its record (`develop_grant` and the
  hazards list say why).
- `PassEnds`: a pass, with the passes it calls, ends or waits for a human.

Of what is done outside:

- `GuardedNeedsGrant`: every effect of a guarded tool was made under an approval that an
  operator granted. `approval_id` is enough for the gateway; that
  it is the id of a grant is what the pauses, the resumed rows and the resume together
  see to, and a lost commit or a second pass could break it.
- `GrantIsUsedOnce`: under one grant a tool acts at most once per place in the plan and
  attempt the gateway may make; without a crash no patch is applied twice.
- `EffectsAreRecorded`: without a crash or a lost commit, what a finished call did is in
  a finished row another session can read. A rollback starts from these.
- `CompletedMeansDone`: COMPLETED means that every call of the plan acted, but for a
  comment that failed before a transition, and but for a write-back that is switched off.
- `RollbackRestores`: a rollback during which no pipeline worked and whose steps
  succeeded leaves the HEAD of the sandbox as before the first patch and nothing to grant.
  If it has undone a patch, no edit of a tracked file is left, only files git does not know;
  with none to undo, what a refused patch has left stays.
- `PlanEnds`: a pass ends, since its calls give up after their attempts.

Of the services, in the order of the cfg:

- `CountersHold`: the executor's counters never report load that is not there, its alarm
  has a cause, and a single pool counts exactly.
- `McpSentOnce`: no call is sent to a server twice or after it was refused or raised;
  an answer is that of the caller's own request.
- `SharedFilesAgree`: strict patches spare the source repository, and a file that
  sandbox and source share by a hard link is the same in both. (A lenient patch is
  written in place and reaches the source; see below.)
- `PageFollowsTask`: a connection is sent no event twice and none out of order, and the
  page shows the status the stream has seen once its refetch is done.
- `ChatKeepsItsWord`: a message makes at most one task, an acknowledgement none with a
  pipeline; an answer is of one provider; the page is told of the task that exists.
- `SearchesFind`: each document has its full-text row whatever syncs, uploads, deletions
  and card builders do to each other (`EveryDocumentIsFound`); a full-text row that lags
  is not taken for fresh (`LagIsFound`); results cached for a source other than the
  default one, under which searches of all sources are cached too, cite no other
  (`ScopedResults`); an agentic answer cites what a tool found (`ServedIsFound`) and
  outlasts the overall timeout by one round at most (`OvershootIsBounded`).
- `RecordHasTree`: a registered repository is the whole directory of the request that
  registered it, and an unregistered name has no files but those a deletion could not remove
  or whose record was dropped unread.
- `LessonsAreEarned`: a finished task leaves no memory waiting for its promotion; of the
  tasks with one diff one has counted all, if it could read every file; a blocked draft is no
  evidence.
- `ScoresHold`: exit code 0 vouches for the scores; a model's credit is agreed; bursts
  are waited out; a kill costs at most one question.
- `NothingIsTakenBack` (what steps may not do): nothing is sent after `stop` has
  returned (`McpStopIsFinal`); a resume brings back the tree of its checkpoint
  (`ResumeRestores`); what a stream passes over was committed after an event ordered behind
  it by (created_at, id) (`SkipsOnlyLate`); the record of a repository goes when its name is
  deleted, or when the file could not be read while another name was registered, and then its
  files stay (`OthersAreKept`); a memory in use stays usable, and indexed unless its own index
  entry could not be rewritten (`SettledStays`).
- `ServicesEnd`: the job, call, stream, message, search, request or benchmark in focus
  comes to its end.

Of the stages:

- `PlanIsReviewed`: what is executed is the very plan the reviewer approved or an
  operator was shown and granted, it was made from an issue that was read, keeps its
  contracts unless it was replaced before they were added, and has targets.
- `PatchesAreChecked`: a file recorded as patched is in the merged diff, in whatever order
  the results came; a stage that keeps its deadline leaves no call behind; a provider's
  diff is returned only after both checks; the number of calls is bounded over retries,
  recoveries, validations and providers together.
- `AnswersAreKept`: what a failed attempt of an agent edited is not returned, what the
  last one did is, and no worktree or branch is left; blocks apply to the file on disk
  and add up; turns alternate and quotas hold.
- `RepairsAreJudged`: a gate that passed has seen all files of the change, those only a
  repair wrote included; they are named; the loop is stuck only when nothing was
  repaired; what is shown for the Jira approval is all that `git diff` tells of code that was
  compiled, was let through by the gates a repair resets, across nested calls, and is the
  whole code if no refine or semantic repair was made; repairs stay within their budgets.
- `AskedIsBacked`: the approval is about a diff each file of which has evidence, and so is
  what is released, even when a conformance retry after the grant has made the code again;
  the diff kept in the workspace is the one shown, and no task is refused for want of an
  intent that was never lost.
- `StagesEnd`: the stage in focus comes to a verdict, a failure or a question.

### Bounds, and why they are enough

- `MaxCrashes`, `MaxLockLosses`, `MaxPools` and their like count in the guards of the
  actions they bound; `Ages` bounds a checkpoint's age. No state constraint is used.
- One task in `TaskRuntime`: rows, approvals and flags of different tasks meet only in the
  pool, which `PipelineExecutor` models for itself, with several jobs. Where tasks do meet
  (memory, promotion) there are two.
- Two operators with one approval: enough for two decisions of one approval, and for
  a decision beside an abandon or a rollback; two approvals with one operator: an approval
  of an earlier pause that is decided during a later one. Two of both and a lost commit
  exceed what TLC does in minutes; the theorems cover them.
- Two crashes: a crash, and one in the middle of what the first resume started.
- Ages 0 to 2 with both thresholds 1, the code's defaults being equal: young and too old; a
  tick of one unit between the two readings of the clock crosses both.
- `DevelopPipeline`: `MaxEdits` bounds the versions, in the guard of each step
  that makes one; `Budget` and `MaxRounds` are the program's own settings, whose
  defaults are the values used (one attempt of each repair, two of conformance,
  one compile round). Three versions are a generation and two changes, enough for
  a change between any gate and the approval and another after that;
  `develop_work` has more versions than its budgets can use up. One crash is enough: the
  checkpoints keep no trace of an earlier one.
- `TaskEffects`: six rows are the calls of the longest plan, once more after a grant or a
  crash; one retry is the gateway's default for Jira and internal APIs.
- `Services.cfg`: three jobs on two workers, so that one waits, and two pools; two MCP
  calls (one behind the other in a queue) and two starts; two tracked files and a new one
  under two patches and one fault; two writers and two events of two times and two ids,
  enough for a tie and a late one, and a broken connection; two messages over a chain of
  two providers with one tool call; two search providers, two files, three rounds; three
  requests over two names; two sources in two versions; two tasks, two memories, one
  death; two tasks and two diffs with a threshold of two; three questions, two judge
  samples, one backoff.
- `Stages.cfg`: all five scenarios with a chain of two planners and one death; an
  existing and a planned file in two workers with one retry and one restart; a chain of
  two generators, one validation retry; two files and a new one for an agent that may
  fail once; two blocks over texts in which an anchor occurs never, once or several
  times; four turns; three repair rounds; four changes of the code in `ReviewGates`, in
  any mixture of its repairs, two of them semantic; two files, two attempts, one failed
  write and one death for the workspace.
- The proofs do away with these bounds for the properties they cover.

`CHECK_DEADLOCK FALSE` is set everywhere: a task ends and a component comes to rest, and
then nothing need happen. That nothing stops before is what the liveness properties ask.

### Fairness

`PipelineExecutor`: a thread inside `submit_pipeline_job` or a job goes on. The queue of
a `ThreadPoolExecutor` is first in, first out, and there are finitely many jobs, so that
weak fairness of their steps together is enough. Nobody is obliged to submit or shut down.

`TaskRuntime`: threads keep running, so a request that has begun is carried
through, the last commit of a pipeline is followed by its return, a job with a
raised flag reaches its next `record_event`, a queued job is taken when the pool
is free again and again; the watchdog's loop runs for ever (`stale_watchdog.py`
catches every exception of a pass), and startup completes. A pipeline is **not**
obliged to reach its next status: a model call or a repair loop may hang for
good, which is what the watchdog is for. That a cancelled job reaches its next
`record_event` is what `task_cancel.py` assumes of its checks: `SlotRecovered`
and `FlightEndsOrLeaks` rest on it, and a thread that blocks for ever in a single
call keeps its slot. No operator is obliged to do anything, and the process is
not obliged to crash.

`DevelopPipeline`, `TaskEffects`: the thread of a pass goes on (weak, for the steps of the
pass together). Nothing obliges a human to answer, a process to die, or to be resumed.

`MCStages`: weak fairness of the steps of the stage in focus. Each call of a model, an
agent, a compiler or a search has a timeout in the code, which is an action of the
models beside the answer; a worker of `CodegenBatches` is obliged to nothing, and the stage
may wait for its pool (`drain`). No death, decision or sweep is assumed.

`MCServices`: weak fairness of the caller's steps of an MCP call, whose timeout is among
them, and nothing of the server or the loop; of a connection's reading steps; of a turn,
a search, a request for a repository and the benchmark, whose calls have timeouts. Strong
fairness of the stream's timeout alone: it is looked at in each tick between two reads,
so it is enabled again and again but not always. Nothing is assumed of writers, of the
page, of the index, of memory and of promotion, which have no liveness property.

## Proofs

Assumptions on the constants, stated where they are declared: there is a task;
tasks and operators are distinct; `None` is no approval and `NoTask` no task; bounds,
ages and thresholds are natural numbers; the set of jobs of the executor is finite and it
has at least one thread; of a write-back plan all calls but the last are comments, and
only a plan of the scenario "develop" has patches (`tools/gateway.py:514` raises without
the payload that only this pipeline builds); 0 is no MCP call and `NoRequest` no request;
the ids of memories are numbers; there is a diff, and a first version of the code; the
sources of a search are finitely many; a chain of generators has a first; a loop has a
turn, and quotas are numbers; the files a plan touches exist in its context and those it
adds do not, and its stubs are finitely many; texts are sequences of tokens, and a missing
file is none; the files of a task are in its sandbox, and an error without a file name
is about none of them; the files an agent may add are not there; the budgets of repairs are
numbers. TLC evaluates each of these on the instance of a run.

| Theorem | States | Argument |
|---|---|---|
| `TaskRuntimeProofs!TypeCorrect` | `Spec => []TypeOK` | one lemma per group of actions; `MovedType` and `OneThreadStep` reduce a step to the record of one thread |
| `TaskRuntimeSafety!PendingFlagIsBacked` | `Spec => []PendingFlagBacked` | `FlagInv`, below |
| `TaskRuntimeSafety!ExecutionIsGranted` | `Spec => ExecutionNeedsGrant` | `GuardInv`, on top of `FlagInv` |
| `DevelopPipelineProofs!TypeCorrect` | `Spec => []TypeOK` | `WholeDiff`, below |
| `DevelopPipelineProofs!NeverReturnsSilently` | `Spec => []NoSilentReturn` | `CapWaits`, below |
| `DevelopPipelineProofs!ReleaseGranted` | `OwnGrantOnly => (Spec => ReleaseIsGranted)` | `ReleaseInv`; each step is a step of `JiraRelease` or one it does not see |
| `DevelopPipelineSafety!ShownCompiled` | with `Uninterrupted` and `NothingWaived`: `Spec => []ShownIsCompiled` | `TreeInv`, `TellsInv` and `CompiledInv`, below |
| `DevelopPipelineSafety!NothingAskedTwice` | with `Uninterrupted`: `Spec => NoRepeatedQuestion` | `AnsweredInv`, below |
| `DevelopPipelineSafety!ResetsJudgeAnew` | with `Uninterrupted`, `NothingWaived` and `RepairsOnly`: `Spec => []ResetsRerun` | `SameInv` and `JudgedInv`, below |
| `DevelopPipelineSafety!BudgetsBoundWork` | with `Uninterrupted`, `RepairsOnly` and no feature repair: `Spec => []WorkIsBounded` | `WorkInv`, below |
| `TaskEffectsProofs!TypesCorrect` | `Spec => []TypeOK` | `Typed`, the types of the records, then the order of rows |
| `TaskEffectsProofs!GuardedCorrect` | `Spec => []GuardedNeedsGrant` | `Granted`, below |
| `TaskEffectsProofs!CompletedCorrect` | `Spec => []CompletedMeansDone` | `Carried`, on top of `Granted` |
| `TaskEffectsProofs!RecordsCorrect` | `Spec => []EffectsAreRecorded` | `Recorded`, on top of `Carried` |
| `TaskEffectsProofs!RollbackCorrect` | `Spec => []RollbackRestores` | `PatchesInOrder`, `Undoing`, `Undisturbed`, `LeftKnown`, `UndoneIsClean`, below |
| `TaskEffectsProofs!GrantPaysOnce` | `Spec => []GrantIsUsedOnce` | `Counted` and `PatchesRemembered`, below |
| `McpClientProofs!McpTypeCorrect` | `McpSpec => []McpTypeOK` | one lemma per group of actions over the record of one server or one call |
| `McpClientProofs!McpCallsCorrect` | `McpSpec => []McpSentOnce` | `Sound`, below |
| `McpClientProofs!McpStopCorrect` | `McpSpec => McpStopIsFinal` | `Final`, below |
| `ServicesProofs!PoolTypeCorrect` | `Spec => []TypeOK` | inductive as it stands |
| `ServicesProofs!CountersCorrect` | `Spec => []CountersHold` | `CountersInv` strengthens the counter invariants: a process that made no pool has no job under way, `_max_workers` follows the pool, and the alarm is only raised on counters that justify it. `MoveCount` says what one job's move does to the cardinalities |
| `ServicesProofs!RegTypeCorrect` | `RegSpec => []RegTypeOK` | inductive as it stands |
| `ServicesProofs!RecordCorrect` | `RegSpec => []RecordHasTree` | `NamesAreSound`, below |
| `ServicesProofs!SharedCorrect`, `ResumeCorrect` | `BoxSpec => []SharedFilesAgree`, `BoxSpec => ResumeRestores` | `StrictInv`, below |
| `ServicesProofs!PageCorrect`, `SkipsCorrect` | `StreamSpec => []PageFollowsTask`, `StreamSpec => SkipsOnlyLate` | `StreamInv`, below |
| `ServicesProofs!ChatCorrect` | `ChatSpec => []ChatKeepsItsWord` | `ChatInv`, below |
| `ServicesProofs!SettledCorrect` | `MemSpec => [](PromotedWhenDone /\ SettledStays)` | `MemInv`, below |
| `ServicesProofs!ScoresCorrect` | `QaSpec => []ScoresHold` | `JudgeInv`, `ArtifactInv`, `CleanInv`, `TailInv`, below |
| `ServicesProofs!ServicesTypesCorrect` | `ServicesSpec => []ServicesTypeOK` | the types of each module; what they need beyond themselves is below |
| `ServicesProofs!SearchesCorrect` | `ServicesSpec => []SearchesFind` | `IndexInv`, `CcInv` and the registry's, below |
| `ServicesProofs!LessonsCorrect` | `ServicesSpec => []LessonsAreEarned` | `MemInv` and `PrInv` |
| `ServicesProofs!NothingTakenBack` | `ServicesSpec => NothingIsTakenBack` | the action properties of the components |
| `StagesProofs!StagesTypesCorrect` | `StagesSpec => []StagesTypeOK` | the types of each stage; what they need beyond themselves is below |
| `StagesProofs!PlanCorrect` | `StagesSpec => []PlanIsReviewed` | `PlnInv`, below |
| `StagesProofs!PatchesCorrect` | `StagesSpec => []PatchesAreChecked` | `BatInv` for the batches, `Checked` and `GenSpent` for a call, below |
| `StagesProofs!AnswersCorrect` | `StagesSpec => []AnswersAreKept` | `CliInv`, `AdInv` and `AgInv`, below |
| `StagesProofs!JudgedCorrect` | `StagesSpec => []RepairsAreJudged` | `RepInv` and `RevInv`, below |
| `StagesProofs!AskedCorrect` | `StagesSpec => []AskedIsBacked` | `WsInv`, below |

### The runtime

`PendingFlagBacked` is not inductive. A session clears the flag only when its
view shows it raised, so the invariant must say that whoever is about to decide
the approval that backs the flag will clear it: `FlagInv` adds what each view may
believe relative to the row, and that an approval seen by a decider belongs to
its task. `GuardInv` says that a thread which stands where EXECUTING may be
entered next either has an approving verdict or belongs to a task with a grant,
and that no stored checkpoint lets a resume come out at such a place.

### The develop pipeline

The types of `DevelopPipeline` are not inductive either. A diff that
`_refresh_codegen_diff_from_sandbox` takes after a patch on a patched sandbox leads
to its version from that sandbox only, so the patch stage must not meet it on a
fresh clone. `WholeDiff` says why it does not: such a diff is in a `pipeline_state`
only while the patch is recorded there, whatever forgets the record forgets the
diff too (`_reset_for_conformance_retry`) or goes back to a checkpoint of the stage
codegen (`_prepare_develop_resume`), and those hold whole diffs. `CapWaits` says
that the flag `compile_repair_cap_exceeded` is up only in a task that waits for the
compile approval or has failed, and in no checkpoint a resume continues from.
`ReleaseInv` says that from the Jira stage on the grant is there, that the number of
transitions follows the stage, and that no question is open whose answer would pass
for the grant of the Jira approval.

The properties of `DevelopPipelineSafety` relate the copies of the code: the diff of the
pass, the one in `pipeline_state`, what the sandbox holds, what each gate has cleared, and
what a human was shown. `TreeInv` ties them together at each stage: the
sandbox is empty until the patch is made, holds the diff of the pass from then on,
and a recorded patch is in it. `TellsInv` says that `git diff` tells something of every
version, and all of one still to be made. `CompiledInv` says that, outside a repair, a cached
compile result means that the compiler has cleared the sandbox as it is and the diff in
`pipeline_state` is what `git diff` tells of it, and that the stages after the compile gate
have such a result. `AnsweredInv`
says of every question that was granted why it will not be asked again: its flag is set,
its result is cached, or the code it was about is gone, every version being made once.
`SameInv` says that a pass sees one diff, in its variable and in
`pipeline_state`, and that it is what `git diff` tells of the sandbox. `JudgedInv` says of
each gate whose result no reset has dropped, and which is cached or lies behind the pass,
that it has cleared the sandbox, if it is one that looks there, or else this diff, or that a
human has granted it. `WorkInv` counts the versions made
against the budgets spent, the repair under way and the diff at hand.

What these theorems assume, and why:

| Assumption | Means | Without it |
|---|---|---|
| `OwnGrantOnly` | the Jira approval is required, no approval of the plan or of a conflict, `MaxCrashes = 0` | the statement is false: another grant passes for the one of Jira (`develop_grant`); and when a conformance retry after the grant has written new checkpoints, a resume from one of them finds the grant and not the transition, and makes it again (TLC, `MaxCrashes = 1`) |
| `Uninterrupted` | `MaxCrashes = 0` | a checkpoint knows less than the pass that died; after a death between the commit of a patch and its record `ShownIsCompiled` is false |
| `NothingWaived` | neither "feature_repair" nor "compile_skip" in `Allow` | a feature repair merges a diff that is never applied; without a toolchain nothing is compiled |
| `RepairsOnly` | no rounds of compile repair, completeness check or edit by an operator | these add work, and versions, that the two properties do not count; `DevelopPipelineWork.cfg` checks the same restriction |

They are the restrictions of the runs' configurations, and nothing else of the instance
is fixed: budgets, gates, approvals and required questions are arbitrary.

### The effects of tools

`Granted` says that the approval a pass carries, the one a call
past its gate carries, and the one of every effect made so far was granted, and that a
guarded tool has one. "Was granted" includes an approval a rollback has written CANCELLED
over after an operator granted it. `Carried` says that every call of
the plan before the position of the pass has acted (or is the excused comment), that the
call under way is the one of the plan at this place, and that what `pipeline_state`
remembers has acted. `Recorded` holds while nothing dies and no commit is lost: the rows
a session sees are committed but for that of the call under way, each effect has a row of
its tool, and this row is that call's or is final.

`PatchesInOrder` says that rows are used in their order, that the first patch made was
made on the tree of the repository, that a patch that waits lies above those made, and
that one row at most waits, for the approval the pass carries, asks for or waits for.
`Undisturbed` says that a rollback nothing was granted beside has seen all that is
pending, and `Undoing` that, while it undoes without error, the oldest row it has left is
the first patch; so the last tree it restores is that of the repository. `LeftKnown` says
that what is left in the sandbox besides its commits is explained by a patch that is just
failing or by the row of a patch, made or refused; `UndoneIsClean` that a quiet rollback
which has undone a row leaves files only.

`Counted` bounds what was done under a grant by the place of the pass: what the approval
it carries has `Paid` is at most what is `Allowed` for the calls behind it, and the
attempts of the call under way that may have acted. A retry after a lost answer is the
hard case: the attempt acted, and nobody knows. `PatchesRemembered` says that, while
nothing dies, each patch made is remembered in `pipeline_state` or has just returned, so
that a later pass, under another grant, does not make it again.

### The services

`Sound` of `McpClientProofs` says of a call that it is in one queue at one position at
most, that a queued one was put and not sent, that one being served was sent once, and
that its record fits: what was sent was put, what was put has a loop, a call that is
idle, checked, refused or raised is on none, an answered one has its own answer. Without
the uniqueness of the position the invariant would not survive `McpTakes`. `Final` says
that the current loop is no newer than the starts and that a client that stops was
started; and that every server state a call has looked up, and every queue that is not
empty, is of the last start at most and, if its loop runs, belongs to the current loop
of a started client. That is why nothing is left for a loop that `stop` has ended.

`NamesAreSound` says of every name outside `regUnsure` that one
request at most works on it, that the tree and the record fit its step (no tree when
it fills the directory, the whole tree of its own when it registers, no record when it
removes), and that with none at work record and tree match: the whole tree of a record's own
request, and without a record no tree, or the name is in `regLeft`. A name on which requests
overlapped, failed or died is in `regUnsure` for good.

| Invariant | Says |
|---|---|
| `StrictInv` (sandbox) | the strategy that writes through hard links is at work only for a patch that need not be strict, and such a patch is on record as `lenient` |
| `StreamInv` (stream) | no two events have one (created_at, id) (`EventsDiffer`); the cursor is at an event, what was sent is not ordered behind it, and what was not sent is, or is late; the page is behind only while it is about to fetch or has an event to read |
| `ChatInv` (chat) | what the thread of a turn can be doing, which rows it can have made, and that the turn that is open is the last and the page knows |
| `MemInv` (memory) | what a session sees contains what is usable in the committed tables; a usable memory is settled, and indexed unless its own index entry could not be rewritten; a task that is done has been promoted, in what its writer sees, and committed once its job is idle |
| `PrInv` (promotion) | of the tasks whose clean candidates for one diff were counted with every file read, the one that counted last has counted all |
| `IndexInv` (index) | a card is about the content of its hash, and a document that has this hash has the full-text row of it; what is about to be cached for the search of one source cites no other |
| `CcInv` (search) | evidence is not what only a failed tool named; the time is at most the budget and what the round under way has taken |
| `JudgeInv`, `ArtifactInv`, `CleanInv`, `TailInv` (benchmark) | the judge still needs a sample, and a model's credit was agreed; the artifact lacks at most the last record, and is torn only in the middle of a write; exit code 0 has only valid records behind it; the lost questions at the end are at most those the bursts and the counter account for |

The types of the benchmark need more than themselves: the locals of a question fit the
step (`CurFits`), there is room for the question that is asked (`WithinRows`) and for
the sample that is taken (`WithinSamples`).
A theorem about `MCServices` follows since each of its steps is for each component a step
of its own or a stutter.

### The stages

| Invariant | Says |
|---|---|
| `PlnInv` (planning) | a checkpoint, committed or in the session, holds a plan as it is committed; before the review none of a later stage is there, and one that waits for an approval belongs to a job that waits, went on or failed; row and session agree on the plan that was reviewed, and its verdict is the one on record; whoever knows an issue has read it. The ids of the plans need `PlnCounts`: one plan for the job, and one more for each death before the review |
| `BatInv` (batches) | until the merge, a file recorded as patched is in the result of a batch that holds it (`BatBacked`); no call waits once the pool is being closed, and none waits or runs once the results are merged, unless the deadline was over (`BatPool`) |
| `Checked`, `GenSpent` (call) | what waits for the second check has passed the first; the calls made are bounded by the providers, attempts, recoveries and validations used up, at each place of the call |
| `CliInv` (agent) | an attempt begins on the repository, or on views no attempt has touched, and what it leaves has its own edits alone (`CliClean`, `CliWorked`) |
| `AdInv` (blocks) | a file has a text in the making just when it has one before, which is the text on disk; and as long as no block was refused, the length of each file is that of its original and what the blocks so far have added (`AdAddsUp`) |
| `AgInv` (loop) | two messages for each turn, their roles alternating; a tool ran at most once in each turn and within its quota |
| `RepInv` (compile repair) | what was written is named, or touched in the round that runs, unless a round was cut short; a round runs only while there are rounds left |
| `RevInv` (review) | unless an exception was lost, the innermost call has the diff `git diff` tells of the sandbox and the count of the repairs, and every gate it has behind it, or has a cached result of, has judged what it looks at (`RevRuns`, `RevSeen`); the diff tells the whole as long as no refine or semantic repair was made (`RevWhole`); `revMade` within its budgets follows |
| `WsInv` (workspace) | the one attempt keeps its index through checkpoints and resumes; no checkpoint a job resumes from holds the verdict of the gate; a diff that was judged is backed; without faults and deaths the directory has what the job has |

The gates of `RevInv` are the hard case: a repair calls the pipeline from inside a gate, with
a `pipeline_state` of its own. The invariant is about the innermost call alone: each call
returns what the one it made returns, so that an outer call never goes on with what it knew,
unless it catches an exception of an inner one (`revLost`).

Two definitions are recursive: the batches that hold one file to be touched each
(`OwnUpTo`) and the sum of `EditsAddUp`, a fold of the community modules. Such a function
is a CHOOSE, and nothing about it can be proved before it exists. `OwnExists` and
`SumsExist` show that it does, by the least counterexample (`LeastNumber`, from the
well-foundedness of the numbers) and not by the induction rule of the library, which takes
an operator. From there `OwnBatchesAreTargets` and `PartSumAdds` follow, and with the latter
`EditsAddUp` for any number of blocks.

The strengthened invariants that were in doubt were checked with TLC before they were proved.

### Model-checked only

- Every liveness property, since TLAPS cannot reason about `ENABLED`:
  `FlightEndsOrLeaks`, `SlotRecovered`, `PassEnds`, `PlanEnds`, `ServicesEnd`,
  `StagesEnd`.
- The counterexamples of the next section.

## Where code and comments part

Each is a run whose single property states what a comment says; TLC finds the
behaviour.

| Run, property | Comment | Code |
|---|---|---|
| `runtime_orphan`, `NoOrphanServed` | `main.py:45` the sweep fails tasks no thread works on | an EXECUTING row with an awaiting-approval checkpoint counts as resumable, and the resume returns at once (`orchestrator/service.py:3649`) |
| `runtime_sweep`, `SweepSparesResumed` | `main.py:50` the tasks it fails have "no executor thread alive to resume them" | the resume and the sweep have equal thresholds by default (`core/config.py:26-27`) and read the clock twice (`main.py:310-311`): a task may be resumed and then swept, while its job is queued or runs |
| `develop_grant`, `TransitionNeedsGrant` | `service.py:9922` pause here so a human can review the diff and either grant or reject | a grant of the plan or of a conflict, made while no Jira approval is pending, counts as the Jira grant (3609) |
| `planning_contracts`, `ContractsReachGates` | `service.py:3241` every gate that consumes `plan_json` picks up the contracts | they are put in place into a dictionary the scope guard or a backfill has already had committed; nothing marks the column as changed, and the session of a grant reads the plan without them (3243-3248) |

While reading the code for the models we met more behaviours worth knowing, which no
run singles out. Some are behaviours of the models, some lie just beside them.

Of the runtime:

- Only a job clears a cancellation flag. One raised when none runs makes the watchdog's
  own `set_task_status` raise, pass after pass (`services/stale_watchdog.py:141`; line 23
  promises a ceiling). `FlightEndsOrLeaks` makes the exception explicit.
- A QUEUED task may wait for ever: CREATED and ROLLED_BACK are not in
  `_IN_FLIGHT_STATUSES` (`stale_watchdog.py:65`), and a job that hangs there keeps
  its thread. `SlotRecovered` makes the exception explicit, and that of a task the sweep has
  failed beside its resumed job.
- A worker may commit its next status between the watchdog's mark and its flag;
  it then unwinds without touching the row (`services/tasks.py:72`).
- A crash just after a grant leaves AWAITING_APPROVAL with nothing to decide
  (`services/approvals.py:41-70`).
- An orphan threshold above the resume threshold would close the gap that `runtime_sweep`
  finds, at a price: a task whose checkpoint lies between the two would then be neither
  resumed nor failed at that start.

Of tools and their effects:

- A rollback beside a pipeline misses what is not committed, and what the pipeline does
  next; an approval requested meanwhile survives it. The inverses of Jira calls are
  placeholders (`services/rollback.py`).
- When a comment is made and the gated transition behind it waits, the comment is made
  again after the grant: a plan starts from its first call.
- A call that fails once and then acts leaves `comment_error` on a COMPLETED task; a
  single tool writes the checkpoint `review_post` after its success, so a crash there
  carries it out again.
- A patch refused half way has changed files (`sandbox.py:424-462`). Only undoing another
  patch, or a resume from a codegen checkpoint, cleans the sandbox after it, and a rollback
  never removes files git does not know.
- `_execute_develop_tool` (`service.py:10266-10300`) leaves a tool that timed out running
  on the session of the pipeline that went on.

Of planning and the develop pipeline:

- The conformance check runs again after the Jira grant, on the refreshed diff; a block
  regenerates the code and ships it under the old grant (`service.py:9437`, 3551).
- A conformance retry keeps the results of acceptance, semantic review, runtime
  validation, symbols, features and artifact (14163, against the comment at 14157), and a
  repair after the last gates those of failing test, goals and artifact (13365).
- The diff a human is shown may be less than what is in the sandbox, though a comment wants
  it to "reflect the sandbox tree that gates saw" (2500). `git diff` is asked about a list of
  paths that a repair does not extend (2464-2477): what a semantic repair edits outside of it
  (8777-8786) is compiled and committed (8905), but neither shown nor read by the gates that
  read the diff. `ShownIsCompiled` and `ResetsRerun` therefore speak of what `git diff`
  tells; that among the repairs of `ReviewGates` only the refine and the semantic ones make
  it less than the whole is checked and proved (`RepairsAreJudged`). The files of a round of
  compile repair that timed out, and of an edit by hand, may be left out as well.
- The review reads the diff bound before the compile repair (9378); the symbol
  graph is built from the source repository, not from the sandbox (8227).
- With `feature_repair` among the settings `ShownIsCompiled` fails: the repaired diff is
  merged into `pipeline_state` and never applied (8016). With a crash after the
  commit of the patch it fails too: the resume takes the patched commit as
  `pre_codegen_snapshot_id` and applies the patch again (7160).
- A batch that is collected later overwrites the outcome of a file an earlier one had
  (5873-5877); a deadline with a retry makes a call twice; the contract gate is skipped
  when the diff comes from a checkpoint; a result with a diff and no `files_changed` is
  lost; `plan_codegen_conflict` ends as FAILED (6820-6832).
- A compile repair whose rounds only timed out ends as stuck, against the comment at
  11085; the files such a round wrote are not named. Without a toolchain the gate counts
  as passed.
- An exception out of a repair that runs inside the `try` of its gate is swallowed (9041),
  and the outer pass goes on with a `pipeline_state` of its own.
- The preplan's candidates are checked against a manifest that is still empty
  (2926-2930), and a death between the checkpoint of the intake and the write of the
  intent resumes a task without one.
- A resume before the plan runs without playbook, contracts and completeness gate; a
  planner's thread that came too late still holds the session (1936-1985).

Of code generation:

- "At most two per provider call" (`codegen.py:2385`) is at most two per
  `generate_patch`; a recovery changes `context_files` for the other attempts as well.
  The loop mode raises in all its ways out (4978-4980).
- The coordinates in an answer are those of the file, the model has seen views (3381-3388);
  a temporary directory keeps what a failed attempt edited, a deletion in it is lost, and
  a death leaves worktree and branch.
- Blocks that touch the same lines are both applied (`aider_format.py:28` says they are
  counted), NEW FILE replaces an existing text; once `apply_diff` has failed, the quota
  refuses the following ones (`agent_loop.py`).

Of the services:

- A lenient patch writes through a hard link into the source repository
  (`sandbox.py:652` against 156).
- A stream ends with `stream_timeout` after half an hour whatever the task does
  (`useTaskStream.ts:9` expects the end of the task); an event committed late is passed
  over, and so is one of the cursor's own time with a smaller random id
  (`api/tasks.py:356-363`); STALE_FAILED does not end a stream.
- `task_create_failed` is told also when the row was committed (`api/chat.py:725`); after
  an abort the persisting thread goes on, and a message sent again makes a second task;
  the page keeps the text of a provider that failed.
- On a hit of the retrieval cache `record_event` is called with no task
  (`knowledge.py:358-371`), which the foreign key refuses; its key leaves out `top_k` and
  language; uploads and deletions do not invalidate it, and a result put after an
  invalidation stays. A full-text row may outlive its document.
- AWAITING_APPROVAL promotes memories as COMPLETED does; a merged memory keeps its first
  provenance; memories of failures are not in the full-text index.
- A promotion candidate is written before its approval is committed, and rejected ones
  count as well (`playbook_promotion.py:283`); a sweep of workspaces removes evidence.
- A registry that cannot be read counts as empty, and the next registration writes its own
  record alone (`repository_registry.py:102-106`, 131-135; line 4 wants user-added sources to
  "survive backend restart"). A deletion ignores the errors of `rmtree` (147-153), so files may
  stay under a name without a record.
- A candidate of another task that cannot be read is left out of the count
  (`playbook_promotion.py:310-315`); a memory whose index entry cannot be written again after
  its deletion is promoted without one (`memory.py:1073-1097`).
- The registry resolves managed repositories first and lists those of the environment
  first; the cleanup of a failed clone may remove another request's directory
  (`repository_registry.py:352-357`); an upload removes the old directory before it knows
  that the new one is good.
- A filter error of the benchmark leaves `completed=True`; its terminal statuses lack
  `stale_failed`; its artifact is truncated before it is written.

## Not modelled

- Contents: files, diffs, the text a model returns and everything that judges it by
  regular expressions, the wire formats. Where a module needs them it keeps what its
  properties tell apart: a version, a set of files, the place an edit came from.
- Components without a protocol, with the reason in `PROJECT.json`: governance and policy,
  the cache of model calls, static checks and classifiers, the repair of diffs, the
  symbol graph, integrations, metrics, configuration and the remaining read endpoints,
  the rest of the web client.
- The thresholds of the watchdog per stage are "may be stale now".
- `iterate_task` (`api/tasks.py:69-158`) starts the pipeline of a child beside that of its
  parent; nothing says which of the two should win.
- Two threads on one session: a tool or a planner that timed out goes on with the session
  of the pipeline. SQLAlchemy leaves that undefined, and so do we.
- In `TaskEffects` a decision is one step; one that had read its approval before a
  rollback cancelled it is in `TaskRuntime`, whose `Rollback` and `Grant` meet in every
  order.
- A command of git that times out in a sandbox: the exception passes the gateway, the row
  stays RUNNING. The pipeline goes on when the retry patch of the completeness check is
  refused (`service.py:7481-7492`): `DevelopPipeline` does, with the sandbox unchanged,
  `TaskEffects` fails the task.
- `ChatTurn` lets an iteration of the answer call one tool; the code calls all that the model
  asked for, one after the other (`api/chat.py:1218-1261`).
- `TaskWorkspace` has the evidence gate on; with `evidence_chain_gate_enabled` off
  (`service.py:9910-9918`) nothing is asked of the evidence.
- In `DevelopPipeline` overrides of a tool's permission; in `CodegenCli` the two ways of
  calling an agent that no caller reaches (`codegen.py:3043-3050`).

## Plan

Done: a module for each component that keeps state of its own; the runtime, the effects
of tools, the develop pipeline with its stages, and the services, each checked; every
safety property and every type invariant of the runs proved (those of the develop pipeline
under the assumptions of the table above).

Left, in this order:

1. The theorems of the develop pipeline with crashes, where they hold, and with compile
   repair rounds in the count of the work.
2. An abstract life of a task (created, in flight, waiting, ended) with `TaskRuntime` as
   its refinement.
3. Continuations and iterations: two pipelines on one session.
4. The thresholds of the watchdog with a clock.
5. The compositions that are argued and not checked: a stage of `MCStages` in the place of
   the step of `DevelopPipeline` it details.

