------------------------------ MODULE TaskPlanning ------------------------------
(***************************************************************************)
(* From a request to a plan that may be executed (orchestrator/service.py: *)
(* _bootstrap_task_impl, resume_task and what it calls, up to              *)
(* _execute_plan; agents/service.py: generate_plan and review_plan).       *)
(*                                                                         *)
(* The task is a row and the copy of it a session works on.  Every event   *)
(* commits; SQLAlchemy writes a JSON column when it was assigned since the *)
(* last flush, not when the dictionary in it was changed.  A job may die   *)
(* at any step and is resumed from the checkpoint in the row.  What models *)
(* and services answer is a choice.                                        *)
(***************************************************************************)
EXTENDS Integers, Sequences

CONSTANTS
    Scenarios,   \* of the tasks: a subset of AllScenarios
    PlnChain,    \* number of providers a plan is asked of, one after the other
    MaxPlnDeaths \* bound: deaths of the job

\* plan, develop, writeback: of a Jira issue; synthetic: develop with skip_jira_prefetch.
AllScenarios == {"plan", "develop", "synthetic", "writeback", "other"}

ASSUME PlanningAssumption ==
    Scenarios \subseteq AllScenarios /\ PlnChain \in Nat /\ MaxPlnDeaths \in Nat

VARIABLES
    plnScenario,
    plnAt,        \* where the job stands, or how the planning ended
    plnRow,       \* the committed row
    plnTask,      \* the task in the session of the job
    plnJob,       \* locals: resumed, the issue, the playbook, the providers tried
    plnApproval,  \* the approval before execution, and the plan it shows
    plnExecuted,  \* the plan handed to _execute_plan
    plnMade,      \* number of plans made
    plnVerdicts,  \* what the reviewer said of each plan, for the properties
    plnFetched,   \* the Jira issue was read, for the properties
    plnDeaths

plnVars == <<plnScenario, plnAt, plnRow, plnTask, plnJob, plnApproval, plnExecuted, plnMade,
             plnVerdicts, plnFetched, plnDeaths>>

PlanIds == 0..(MaxPlnDeaths + 1)
\* must: must_touch_files, of the knowledge base or not; new: there are expected_new_files;
\* coding: the scenario a model may have given the plan is one of code changes.
Targets == [must : {"none", "known", "unknown"}, new : BOOLEAN, coding : BOOLEAN]
\* contracts: required_contracts is in plan_json; due: a playbook was matched for it;
\* amended: plan_json was replaced before the contracts were added.
Plans == [id : PlanIds, to : Targets, contracts : BOOLEAN, due : BOOLEAN, amended : BOOLEAN]
NoPlan == [id |-> 0, to |-> [must |-> "none", new |-> FALSE, coding |-> FALSE],
           contracts |-> FALSE, due |-> FALSE, amended |-> FALSE]

CheckpointStages == <<"intake", "translate", "retrieve", "plan", "review_pre",
                      "awaiting_approval">>
StageOf == [s \in {CheckpointStages[i] : i \in DOMAIN CheckpointStages} |->
               CHOOSE i \in DOMAIN CheckpointStages : CheckpointStages[i] = s]
Verdicts == {"none", "approved", "requires_approval", "rejected"}

Checkpoints == [stage : DOMAIN StageOf, plan : Plans, issue : BOOLEAN, verdict : Verdicts]
Columns == [plan : Plans, checkpoint : Checkpoints, verdict : Verdicts]
Jobs == [resumed : BOOLEAN, issue : BOOLEAN, playbook : BOOLEAN, tried : 0..PlnChain]

PlnRunning == {"translate", "context", "retrieved", "anchors", "planning", "planned", "generated",
            "gate", "review", "decide", "ask"}
PlnEnds == {"executing", "failed"}

PlnTypeOK ==
    /\ plnScenario \in Scenarios
    /\ plnAt \in PlnRunning \cup PlnEnds \cup {"awaiting", "dead"}
    /\ plnRow \in Columns /\ plnTask \in Columns /\ plnJob \in Jobs
    /\ plnApproval \in [st : {"none", "pending", "granted", "rejected"}, plan : PlanIds]
    /\ plnExecuted \in Plans /\ plnMade \in PlanIds
    /\ plnVerdicts \in [PlanIds -> Verdicts]
    /\ plnFetched \in BOOLEAN /\ plnDeaths \in 0..MaxPlnDeaths

NewTask == [plan |-> NoPlan, verdict |-> "none",
            checkpoint |-> [stage |-> "intake", plan |-> NoPlan, issue |-> FALSE,
                            verdict |-> "none"]]
NewJob == [resumed |-> FALSE, issue |-> FALSE, playbook |-> FALSE, tried |-> 0]

PlnInit ==
    /\ plnScenario \in Scenarios /\ plnAt = "translate"
    /\ plnRow = NewTask /\ plnTask = NewTask /\ plnJob = NewJob
    /\ plnApproval = [st |-> "none", plan |-> 0] /\ plnExecuted = NoPlan /\ plnMade = 0
    /\ plnVerdicts = [i \in PlanIds |-> "none"]
    /\ plnFetched = FALSE /\ plnDeaths = 0

-----------------------------------------------------------------------------
PlnGo(here, there) == plnAt = here /\ plnAt' = there

(* _write_task_checkpoint: flushed, and committed with the next event. *)
Checkpointed(task, stage) ==
    [task EXCEPT !.checkpoint = [stage |-> stage, plan |-> task.plan, issue |-> plnJob'.issue,
                                 verdict |-> task.verdict]]

(* What the events of a step commit is the task as it was; its new checkpoint comes after. *)
CommitThenCheckpoint(stage) ==
    /\ plnRow' = [plnTask EXCEPT !.plan = plnRow.plan]
    /\ plnTask' = Checkpointed(plnTask, stage)

Saves == plnRow' = [plnTask' EXCEPT !.plan = plnRow.plan]

PlnKeepsTask == UNCHANGED <<plnRow, plnTask>>
PlnKeepsPlan == UNCHANGED <<plnExecuted, plnMade, plnVerdicts>>
PlnKeepsRest == UNCHANGED <<plnScenario, plnApproval, plnFetched, plnDeaths>>

(* The task fails, or run_pipeline_job fails it after an exception. *)
PlnFails(here) ==
    /\ PlnGo(here, "failed")
    /\ PlnKeepsTask /\ PlnKeepsPlan /\ PlnKeepsRest /\ UNCHANGED plnJob

-----------------------------------------------------------------------------
(* The request and its context. *)

(* A fallback of the translator is as good; the exception of one is not caught. *)
Translate ==
    /\ PlnGo("translate", "context")
    /\ UNCHANGED plnJob /\ CommitThenCheckpoint("translate")
    /\ PlnKeepsPlan /\ PlnKeepsRest

TranslateRaises ==
    \/ PlnFails("translate")
    \/ PlnFails("context") /\ plnScenario \in {"synthetic", "writeback"} /\ ~plnJob.resumed

(* Mutant: a job that is resumed does not need the issue. *)
NeedsIssueAtFirst ==
    plnScenario \in {"plan", "develop", "writeback"} /\ ~plnJob.issue /\ ~plnJob.resumed

NeedsIssue == plnScenario \in {"plan", "develop", "writeback"} /\ ~plnJob.issue

FetchIssue ==
    /\ PlnGo("context", "retrieved") /\ NeedsIssue
    /\ plnJob' = [plnJob EXCEPT !.issue = TRUE]
    /\ plnFetched' = TRUE
    /\ CommitThenCheckpoint("retrieve")
    /\ PlnKeepsPlan /\ UNCHANGED <<plnScenario, plnApproval, plnDeaths>>

(* No key in the request, an issue that is not there, a gateway that fails. *)
FetchFails == NeedsIssue /\ PlnFails("context")

(* An issue of the request's own words, or none; the knowledge of the repository is best *)
(* effort.                                                                                *)
LocalContext ==
    /\ PlnGo("context", "retrieved") /\ ~NeedsIssue
    /\ plnJob' = [plnJob EXCEPT !.issue = plnScenario # "other"]
    /\ CommitThenCheckpoint("retrieve")
    /\ PlnKeepsPlan /\ PlnKeepsRest

(* A resumed job does not ask for the playbook of the domain. *)
Classify ==
    /\ PlnGo("retrieved", "anchors")
    /\ \E match \in BOOLEAN :
           /\ match => ~plnJob.resumed
           /\ plnJob' = [plnJob EXCEPT !.playbook = match]
           /\ IF match THEN UNCHANGED plnTask /\ Saves ELSE PlnKeepsTask
    /\ PlnKeepsPlan /\ PlnKeepsRest

AnchorsMissing == PlnFails("anchors")

AnchorsFound ==
    /\ PlnGo("anchors", "planning")
    /\ UNCHANGED <<plnTask, plnJob>> /\ Saves
    /\ PlnKeepsPlan /\ PlnKeepsRest

-----------------------------------------------------------------------------
(* The plan. *)

(* What the fallback plan of the scenario aims at: paths of citations and of candidates. *)
Defaults ==
    {t \in Targets : t.must # "unknown" /\ (t.coding <=> plnScenario \in {"develop", "synthetic"})
                     /\ (~t.coding => t.must = "none" /\ ~t.new)}

(* An answer takes from the fallback plan what it leaves empty. *)
Merged(answer, default) ==
    [answer EXCEPT !.must = IF @ = "none" THEN default.must ELSE @, !.new = @ \/ default.new]

(* Tests are no targets of a code change, nor new files nobody named. *)
Sanitized(t) ==
    {t} \cup {u \in {[t EXCEPT !.must = "none"], [t EXCEPT !.new = FALSE]} : t.coding}

DroppedToEmpty(t) == t.must = "unknown" /\ ~t.new
Validated(t) == [t EXCEPT !.must = IF @ = "unknown" THEN "none" ELSE @]

(* A model answers well, and what it answers is sanitized and validated. *)
Answers == {u \in UNION {Sanitized(Merged(a, d)) : a \in Targets, d \in Defaults} :
                ~DroppedToEmpty(u)}

MakesPlan(targets) ==
    /\ PlnGo("planning", "planned")
    /\ plnMade' = plnMade + 1
    /\ \E t \in targets :
           plnTask' = [plnTask EXCEPT !.plan = [NoPlan EXCEPT !.id = plnMade + 1, !.to = t,
                                                             !.due = plnJob.playbook]]
    /\ UNCHANGED <<plnRow, plnJob, plnExecuted, plnVerdicts>> /\ PlnKeepsRest

(* A matched playbook may make the plan without a model. *)
FastPath ==
    /\ plnJob.playbook /\ plnScenario \in {"develop", "synthetic"}
    /\ MakesPlan({t \in Defaults : ~t.new})

ProviderAnswers == plnJob.tried < PlnChain /\ MakesPlan({Validated(t) : t \in Answers})

(* It raises, all its targets are unknown to the knowledge base, or it has no answer in  *)
(* time: its thread goes on, but nobody reads its result.                                   *)
ProviderFails ==
    /\ plnAt = "planning" /\ plnJob.tried < PlnChain
    /\ plnJob' = [plnJob EXCEPT !.tried = @ + 1]
    /\ plnRow' = [plnTask EXCEPT !.plan = plnRow.plan]
    /\ UNCHANGED <<plnAt, plnTask>> /\ PlnKeepsPlan /\ PlnKeepsRest

FallbackPlan == plnJob.tried = PlnChain /\ MakesPlan(Defaults)

(* The targets of the fallback are validated outside of any try. *)
FallbackRaises == plnJob.tried = PlnChain /\ PlnFails("planning")

(* New files beside existing targets must be named by the request, or the targets by it. *)
Bound(t) ==
    IF t.coding /\ t.must # "none" /\ t.new
    THEN {t, [t EXCEPT !.new = FALSE], [t EXCEPT !.must = "none"]}
    ELSE {t}

(* Targets from the playbook, or files the plan mentions where it has no target. *)
Backfilled(t) ==
    {t} \cup {u \in {[t EXCEPT !.must = "known"]} : plnJob.playbook \/ (t.must = "none" /\ ~t.new)}

Prepared(t) == IF plnJob.resumed THEN {t} ELSE UNION {Backfilled(u) : u \in Bound(t)}

(* Mutant: PLAN_GENERATED is recorded before the contracts are added. *)
GeneratedTooEarly ==
    /\ PlnGo("planned", "generated")
    /\ \E t \in Prepared(plnTask.plan.to), amended \in BOOLEAN :
           /\ amended => ~plnJob.resumed
           /\ t.new # plnTask.plan.to.new \/ t.must \notin {"none", plnTask.plan.to.must} => amended
           /\ plnTask' = [plnTask EXCEPT !.plan.to = t,
                                         !.plan.contracts = plnJob.playbook,
                                         !.plan.amended = amended]
           /\ plnRow' = [plnTask' EXCEPT !.plan.contracts = FALSE]
    /\ PlnKeepsPlan /\ PlnKeepsRest /\ UNCHANGED plnJob

(* The scope guard and the two backfills may each replace plan_json, and their event      *)
(* commits it; the contracts are then added to the dictionary in place, so that the event *)
(* PLAN_GENERATED commits them only when nothing else has written the column.               *)
Generated ==
    /\ PlnGo("planned", "generated")
    /\ \E t \in Prepared(plnTask.plan.to), amended \in BOOLEAN :
           /\ amended => ~plnJob.resumed
           /\ t.new # plnTask.plan.to.new \/ t.must \notin {"none", plnTask.plan.to.must} => amended
           /\ plnTask' = [plnTask EXCEPT !.plan.to = t,
                                         !.plan.contracts = plnJob.playbook,
                                         !.plan.amended = amended]
           /\ plnRow' = [plnTask' EXCEPT !.plan.contracts = plnJob.playbook /\ ~amended]
    /\ PlnKeepsPlan /\ PlnKeepsRest /\ UNCHANGED plnJob

SavePlan ==
    /\ PlnGo("generated", IF plnJob.resumed THEN "review" ELSE "gate")
    /\ UNCHANGED plnJob
    /\ plnTask' = Checkpointed(plnTask, "plan") /\ Saves
    /\ PlnKeepsPlan /\ PlnKeepsRest

(* PLAN_UNDER_SPECIFIED; no playbook, no feature or an exception lets the plan through. *)
GateBlocks == plnJob.playbook /\ PlnFails("gate")

GatePasses ==
    /\ PlnGo("gate", "review")
    /\ PlnKeepsTask /\ UNCHANGED plnJob /\ PlnKeepsPlan /\ PlnKeepsRest

-----------------------------------------------------------------------------
(* The review and the approval. *)

(* Mutant: only new files count as missing. *)
HasNoTargetsNew(t) == t.coding /\ t.must = "none" /\ t.new

HasNoTargets(t) == t.coding /\ t.must = "none" /\ ~t.new

(* Missing information, unknown or disabled tools, and no targets for a code change reject. *)
ReviewPlan ==
    /\ PlnGo("review", "decide")
    /\ UNCHANGED plnJob
    /\ \E v \in Verdicts \ {"none"} :
           /\ HasNoTargets(plnTask.plan.to) => v = "rejected"
           /\ plnTask' = Checkpointed([plnTask EXCEPT !.verdict = v], "review_pre")
           /\ plnVerdicts' = [plnVerdicts EXCEPT ![plnTask.plan.id] = v]
    /\ plnRow' = [plnTask EXCEPT !.plan = plnRow.plan]
    /\ UNCHANGED <<plnExecuted, plnMade>> /\ PlnKeepsRest

(* Mutant: what is not rejected is executed. *)
ExecuteUnlessRejected ==
    /\ PlnGo("decide", "executing") /\ plnTask.verdict # "rejected"
    /\ plnExecuted' = plnTask.plan
    /\ UNCHANGED <<plnTask, plnJob, plnMade, plnVerdicts>> /\ Saves
    /\ PlnKeepsRest

ExecuteApproved ==
    /\ PlnGo("decide", "executing") /\ plnTask.verdict = "approved"
    /\ plnExecuted' = plnTask.plan
    /\ UNCHANGED <<plnTask, plnJob, plnMade, plnVerdicts>> /\ Saves
    /\ PlnKeepsRest

(* REVIEW_PASSED; a resumed job asks without it. *)
PassWithGate ==
    /\ PlnGo("decide", "ask") /\ plnTask.verdict = "requires_approval"
    /\ IF plnJob.resumed THEN PlnKeepsTask ELSE UNCHANGED plnTask /\ Saves
    /\ UNCHANGED plnJob /\ PlnKeepsPlan /\ PlnKeepsRest

(* The approval, its checkpoint and the status are committed together. *)
AskApproval ==
    /\ PlnGo("ask", "awaiting")
    /\ plnApproval' = [st |-> "pending", plan |-> plnTask.plan.id]
    /\ UNCHANGED plnJob
    /\ plnTask' = Checkpointed(plnTask, "awaiting_approval") /\ Saves
    /\ PlnKeepsPlan /\ UNCHANGED <<plnScenario, plnFetched, plnDeaths>>

ReviewRejects == plnTask.verdict = "rejected" /\ PlnFails("decide")

(* The session of the request reads the row. *)
GrantPlan ==
    /\ PlnGo("awaiting", "executing")
    /\ plnApproval' = [plnApproval EXCEPT !.st = "granted"]
    /\ plnExecuted' = plnRow.plan
    /\ plnTask' = plnRow
    /\ UNCHANGED <<plnScenario, plnRow, plnJob, plnMade, plnVerdicts, plnFetched, plnDeaths>>

RejectPlan ==
    /\ PlnGo("awaiting", "failed")
    /\ plnApproval' = [plnApproval EXCEPT !.st = "rejected"]
    /\ PlnKeepsTask /\ PlnKeepsPlan /\ UNCHANGED <<plnScenario, plnJob, plnFetched, plnDeaths>>

-----------------------------------------------------------------------------
(* Deaths. *)

Die ==
    /\ plnAt \in PlnRunning /\ plnDeaths < MaxPlnDeaths
    /\ plnAt' = "dead" /\ plnDeaths' = plnDeaths + 1
    /\ plnTask' = plnRow /\ plnJob' = [NewJob EXCEPT !.resumed = TRUE]
    /\ UNCHANGED <<plnScenario, plnRow, plnApproval, plnFetched>> /\ PlnKeepsPlan

(* Mutant: a job goes on at the stage of the checkpoint, not behind it. *)
ResumesAtStage == [intake |-> "intake", translate |-> "translate", retrieve |-> "retrieve",
                   plan |-> "plan", review_pre |-> "review", awaiting_approval |-> "ask"]

ResumesAt == [intake |-> "translate", translate |-> "context", retrieve |-> "retrieved",
              plan |-> "review", review_pre |-> "decide", awaiting_approval |-> "awaiting"]

(* Mutant: the job starts with a checkpoint of its own. *)
RestoredAnew ==
    LET c == plnRow.checkpoint
    IN [plan |-> c.plan, verdict |-> c.verdict, checkpoint |-> NewTask.checkpoint]

(* The payload of the checkpoint is put back where it has something. *)
Restored ==
    LET c == plnRow.checkpoint
    IN [plnRow EXCEPT !.plan = IF c.plan.id = 0 THEN plnRow.plan ELSE c.plan,
                      !.verdict = IF c.verdict = "none" THEN plnRow.verdict ELSE c.verdict]

(* Mutant: only a job that has its issue is resumed. *)
ResumePlanningWithIssue ==
    /\ plnAt = "dead" /\ plnRow.checkpoint.issue
    /\ plnAt' = ResumesAt[plnRow.checkpoint.stage]
    /\ plnTask' = Restored /\ plnRow' = Restored
    /\ plnJob' = [plnJob EXCEPT !.issue = plnRow.checkpoint.issue]
    /\ PlnKeepsPlan /\ PlnKeepsRest

ResumePlanning ==
    /\ plnAt = "dead"
    /\ plnAt' = ResumesAt[plnRow.checkpoint.stage]
    /\ plnTask' = Restored /\ plnRow' = Restored
    /\ plnJob' = [plnJob EXCEPT !.issue = plnRow.checkpoint.issue]
    /\ PlnKeepsPlan /\ PlnKeepsRest

-----------------------------------------------------------------------------
PlnStep ==
    \/ Translate \/ TranslateRaises \/ FetchIssue \/ FetchFails \/ LocalContext
    \/ Classify \/ AnchorsMissing \/ AnchorsFound
    \/ FastPath \/ ProviderAnswers \/ ProviderFails \/ FallbackPlan \/ FallbackRaises
    \/ Generated \/ SavePlan \/ GateBlocks \/ GatePasses
    \/ ReviewPlan \/ ExecuteApproved \/ PassWithGate \/ AskApproval \/ ReviewRejects
    \/ ResumePlanning

PlnNext == PlnStep \/ GrantPlan \/ RejectPlan \/ Die

(* Calls have timeouts, and the sweep at start resumes what died; nobody must decide. *)
PlnSpec == PlnInit /\ [][PlnNext]_plnVars /\ WF_plnVars(PlnStep)

-----------------------------------------------------------------------------
(* What is executed is what was reviewed: the reviewer approved this very plan, or asked  *)
(* for an approval that showed it and was granted, however often the job has died.           *)
ExecutedIsReviewed ==
    plnAt = "executing" =>
        \/ plnVerdicts[plnExecuted.id] = "approved"
        \/ /\ plnVerdicts[plnExecuted.id] = "requires_approval"
           /\ plnApproval = [st |-> "granted", plan |-> plnExecuted.id]

(* No plan is made up for a Jira issue that was never read, in a first run or a resumed one. *)
PlannedFromIssue == plnMade > 0 /\ plnScenario \in {"plan", "develop", "writeback"} => plnFetched

(* A plan that no guard or backfill replaced keeps the contracts of its playbook up to its *)
(* execution, through approvals and deaths.                                                  *)
ContractsSurvive ==
    plnAt = "executing" /\ plnExecuted.due /\ ~plnExecuted.amended => plnExecuted.contracts

(* A task that develops is executed with something to edit, unless a model called its plan *)
(* by the name of a scenario that needs nothing.                                            *)
EditsHaveTargets ==
    plnAt = "executing" /\ plnExecuted.to.coding =>
        plnExecuted.to.must = "known" \/ plnExecuted.to.new

(* A plan that is carried out was reviewed, was made for an issue that was read, keeps its *)
(* contracts and has targets.                                                                *)
PlanIsReviewed == ExecutedIsReviewed /\ PlannedFromIssue /\ ContractsSurvive /\ EditsHaveTargets

(* Planning comes to an end or to a person. *)
PlanningIsOver == plnAt \in PlnEnds \cup {"awaiting"}

(* service.py:3242-3243 "every gate that already consumes plan_json picks up the new field": a *)
(* plan for which a playbook was matched is executed with its contracts.                        *)
ContractsReachGates == plnAt = "executing" /\ plnExecuted.due => plnExecuted.contracts
=============================================================================
