--------------------------- MODULE DevelopPipeline ---------------------------
(***************************************************************************)
(* The develop pipeline (_execute_develop_pipeline in                      *)
(* orchestrator/service.py): code generation, the patch in the sandbox,    *)
(* the gates that judge it, the repairs that change it, the approvals it   *)
(* may ask for and the Jira transition at its end.                         *)
(*                                                                         *)
(* A pass runs the stages in order and skips a stage whose result is       *)
(* cached in pipeline_state.  A repair or a retry drops some of the cached *)
(* results and begins a new pass; so does a granted approval, and so does  *)
(* a restart, from the pipeline_state of the last checkpoint.              *)
(*                                                                         *)
(* Code is a version number: every generation, repair or manual edit makes *)
(* a new one.  The same version may be known as the diff of                *)
(* pipeline_state, as the local variable diff of the pass, as the working  *)
(* tree of the sandbox and as its last commit; these four may differ, and  *)
(* that is what the module is about.  What a gate finds is a choice; the   *)
(* spec conformance check, which is a function of the diff, judges the     *)
(* same version always the same way.                                       *)
(***************************************************************************)
EXTENDS Naturals, Sequences

CONSTANTS
    Settings,       \* which optional behaviours are on, see below
    Budget,         \* attempts each kind of retry and repair may use
    MaxRounds,      \* settings.codegen_max_repair_rounds, per visit of the compile gate
    MaxEdits,       \* bound: versions of the code
    MaxCrashes      \* bound: process deaths

\* jira_approval:  settings.develop_require_jira_approval
\* plan_approval:  the reviewer may put the plan behind an approval
\* contracts:      the plan declares required_contracts, which may be found uncovered
\* incomplete:     the completeness check may find files the patch missed
\* cap_approval:   settings.codegen_repair_cap_exceeded_to_approval
\* hand_edit:      an operator may change the sandbox before granting that approval
\* feature_repair: the feature-presence gate may re-prompt for a diff
\* compile_skip:   there may be no compile check for the repository
\* conformance_error: the spec conformance check may raise, and is then skipped
AllSettings == {"jira_approval", "plan_approval", "contracts", "incomplete", "cap_approval",
                "hand_edit", "feature_repair", "compile_skip", "conformance_error"}
RetryKinds == {"coverage", "scope", "conformance"}
RepairKinds == {"refine", "semantic", "runtime", "reservation"}
Kinds == RetryKinds \cup RepairKinds

ASSUME SettingsKnown == Settings \subseteq AllSettings
ASSUME BoundsNat ==
    /\ Budget \in [Kinds -> Nat] /\ Budget["conformance"] > 0   \* counts the first attempt
    /\ MaxRounds \in Nat /\ MaxEdits \in Nat /\ MaxCrashes \in Nat

VARIABLES
    pc,         \* the stage the pass is at, or where the task has ended
    ps,         \* pipeline_state
    local,      \* the variable diff of the pass
    generated,  \* the code was generated in this pass, not found in the cache
    round,      \* compile repair rounds used in this visit
    tree, head, \* the sandbox: its working tree and its last commit; 0: as cloned
    shows,      \* what git diff tells of a version, limited to the paths it is given
    ckpt,       \* the task's checkpoint
    approval,   \* the approval the task waits for
    edits,      \* versions made so far
    cleared,    \* history: the last version each gate has let through
    blocked,    \* history: the versions the spec conformance check has blocked
    signed,     \* history: the diffs shown in granted Jira approvals
    answered,   \* history: the questions already granted
    shipped,    \* history: the Jira transitions made
    crashes

vars == <<pc, ps, local, generated, round, tree, head, shows, ckpt, approval, edits,
          cleared, blocked, signed, answered, shipped, crashes>>
pass == <<local, generated, round>>
sandbox == <<tree, head, shows, edits>>
judgements == <<cleared, blocked>>
decisions == <<approval, signed, answered>>

After == [codegen |-> "coverage", coverage |-> "scope", scope |-> "apply", apply |-> "patched",
          patched |-> "record", record |-> "retry", retry |-> "tests", tests |-> "shape",
          shape |-> "compile", compile |-> "feature", feature |-> "acceptance",
          acceptance |-> "symbols", symbols |-> "semantic", semantic |-> "runtime",
          runtime |-> "review", review |-> "conformance", conformance |-> "failing_test",
          failing_test |-> "goals", goals |-> "artifact", artifact |-> "evidence",
          evidence |-> "jira", jira |-> "transition", transition |-> "writeback",
          writeback |-> "finish", finish |-> "completed"]
Running == DOMAIN After

\* Where a pass is between the patch of a repair and its record.
Patched == [refine |-> "refine_patched", semantic |-> "semantic_patched",
            runtime |-> "runtime_patched", reservation |-> "reservation_patched"]
Repairing == {Patched[kind] : kind \in RepairKinds}
RepairStage == [refine |-> "semantic", semantic |-> "semantic", runtime |-> "runtime",
                reservation |-> "jira"]
Ended == {"completed", "failed", "returned", "orphaned"}
Places == Running \cup Repairing \cup Ended \cup {"waiting", "down"}

\* Gates, by what they read: files of the sandbox, the diff of pipeline_state, or the
\* variable diff.  The symbol graph is built from the source repository.
TreeGates == {"tests", "compile", "artifact"}
StateGates == {"feature", "acceptance", "semantic"}
LocalGates == {"shape", "runtime", "review", "failing_test", "goals", "evidence"}
CachedGates == TreeGates \cup StateGates \cup LocalGates \cup {"symbols"}
Gates == CachedGates \cup {"conformance"}
Cached == CachedGates \cup {"retry"}

Questions == {"plan", "conflict", "compile", "semantic", "reservation", "jira"}
CheckpointStages == {"review_pre", "codegen", "compile", "review_post", "awaiting_approval"}

\* pipeline_state.  result is the diff of codegen_result, base is pre_codegen_snapshot_id,
\* applied is sandbox_result, cap is compile_repair_cap_exceeded, done the other cached
\* results, spent the attempts made.
NoState == [diff |-> 0, result |-> 0, base |-> 0, applied |-> FALSE, done |-> {},
            spent |-> [k \in Kinds |-> 0],
            cap |-> FALSE, pending |-> {}, granted |-> FALSE, acked |-> FALSE, written |-> FALSE]
Asked(question, state) == [question |-> question, diff |-> state.diff]
NoQuestion == [question |-> "none", diff |-> 0]
Checkpoint(stage, state, commit) == [stage |-> stage, ps |-> state, snap |-> commit]

On(setting) == setting \in Settings

\* A diff is named by the tree it leads to from the clone; Partial(v) is a diff read from
\* v that is not all of it: it leads to v from a later commit, or it is limited to paths
\* that leave out a file in which v differs.
Versions == 0 .. MaxEdits
Partial(version) == MaxEdits + version
Diffs == 0 .. 2 * MaxEdits

\* The pass begins right after the plan review, or in the grant of its approval.
Init ==
    /\ ps = NoState /\ local = 0 /\ generated = FALSE /\ round = 0
    /\ tree = 0 /\ head = 0 /\ edits = 0
    /\ shows = [version \in Versions |-> version]
    /\ \/ /\ On("plan_approval")
          /\ pc = "waiting" /\ approval = Asked("plan", NoState)
          /\ ckpt = Checkpoint("awaiting_approval", NoState, 0)
       \/ /\ pc = "codegen" /\ approval = NoQuestion
          /\ ckpt = Checkpoint("review_pre", NoState, 0)
    /\ cleared = [g \in Gates |-> 0] /\ blocked = {}
    /\ signed = {} /\ answered = {} /\ shipped = <<>> /\ crashes = 0

-----------------------------------------------------------------------------
(* Steps of a pass.                                                        *)

Skip == pc' = After[pc]

\* A new version of the code, below the bound.
NewVersion == edits + 1
MayEdit == edits < MaxEdits

\* _execute_develop_pipeline is called again: it loads pipeline_state anew.
\* (So does resume_after_approval, from the row.)
NewPass(state) ==
    /\ pc' = "codegen" /\ ps' = state
    /\ local' = 0 /\ generated' = FALSE /\ round' = 0

\* _fail_develop_pipeline drops pipeline_state with the rest of latest_result_json.
Fail ==
    /\ pc' = "failed" /\ ps' = NoState
    /\ UNCHANGED <<pass, sandbox, ckpt, judgements, decisions, shipped, crashes>>

\* The pipeline parks the task: pipeline_state remembers the approval, the
\* checkpoint says awaiting_approval, and the pass returns.
Park(question, state) ==
    LET parked == [state EXCEPT !.pending = @ \cup {question}]
    IN  /\ pc' = "waiting" /\ ps' = parked
        /\ approval' = Asked(question, parked)
        /\ ckpt' = Checkpoint("awaiting_approval", parked, head)
        /\ UNCHANGED <<pass, sandbox, judgements, signed, answered, shipped, crashes>>

\* Code generation, unless its result is cached.  diff is bound here and only here.
CodegenCached ==
    /\ pc = "codegen" /\ ps.result # 0
    /\ local' = ps.result /\ generated' = FALSE /\ Skip
    /\ UNCHANGED <<ps, round, sandbox, ckpt, judgements, decisions, shipped, crashes>>

Codegen ==
    /\ pc = "codegen" /\ ps.result = 0 /\ MayEdit
    /\ edits' = NewVersion /\ local' = NewVersion /\ generated' = TRUE
    /\ ps' = [ps EXCEPT !.diff = NewVersion, !.result = NewVersion]
    /\ ckpt' = Checkpoint("codegen", ps', 0)
    /\ Skip
    /\ UNCHANGED <<round, tree, head, shows, judgements, decisions, shipped, crashes>>

\* _reset_for_conformance_retry: what it pops of the results modelled here, one
\* attempt of the conformance budget whoever calls it, and the sandbox is removed.
RetryDropsNoGoals == {"retry", "tests", "review", "shape", "compile", "failing_test", "evidence"}
RetryDrops == {"retry", "tests", "review", "shape", "compile", "failing_test", "goals", "evidence"}
RetryStateUncounted ==
    [ps EXCEPT !.diff = 0, !.result = 0, !.applied = FALSE, !.done = @ \ RetryDrops,
               !.pending = @ \ {"conflict"}]
RetryState ==
    [ps EXCEPT !.diff = 0, !.result = 0, !.applied = FALSE, !.done = @ \ RetryDrops,
               !.pending = @ \ {"conflict"}, !.spent["conformance"] = @ + 1]
Retry(state) ==
    /\ NewPass(state)
    /\ tree' = 0 /\ head' = 0
    /\ UNCHANGED <<edits, shows, ckpt, cleared, decisions, shipped, crashes>>

\* Batch coverage: every batch came back empty, or a must_touch file is uncovered.
CoverageRetry ==
    /\ \/ pc = "codegen" /\ ps.result = 0
       \/ pc = "coverage"
    /\ ps.spent["coverage"] < Budget["coverage"]
    /\ Retry([RetryState EXCEPT !.spent["coverage"] = @ + 1])
    /\ UNCHANGED blocked

AskConflictAgain == pc = "coverage" /\ On("contracts") /\ Park("conflict", ps)

\* Contract coverage needs locals of the code generation; with a cached result it
\* raises, and the handler goes on without it.
AskConflict ==
    /\ pc = "coverage" /\ On("contracts") /\ generated
    /\ Park("conflict", ps)

\* The patch budget's scope review asks for a smaller patch, once.
ScopeRetry ==
    /\ pc = "scope" /\ ps.spent["scope"] < Budget["scope"]
    /\ Retry([RetryState EXCEPT !.spent["scope"] = @ + 1])
    /\ UNCHANGED blocked

PassStage ==
    /\ pc \in {"coverage", "scope"} /\ Skip
    /\ UNCHANGED <<ps, pass, sandbox, ckpt, judgements, decisions, shipped, crashes>>

\* The new version the sandbox is about to hold, and what _sandbox_diff_since_pre_codegen
\* will tell of it: git diff over files_changed and the files of the plan.  An edit beyond
\* those paths (widely), or of a file git does not track, is not told at all or in part, and
\* later edits do not tell of it either, unless they have the file listed.
Told(widely) ==
    {NewVersion}
    \cup (IF widely THEN {shows[tree]} ELSE {})
    \cup (IF widely \/ shows[tree] # tree THEN {Partial(NewVersion)} ELSE {})
Changed(widely) ==
    /\ MayEdit
    /\ tree' = NewVersion /\ edits' = NewVersion
    /\ \E diff \in Told(widely) : shows' = [shows EXCEPT ![NewVersion] = diff]

\* The patch: a checkpoint with the commit before it, the patch, the commit, and the
\* record of all this with a second checkpoint.  In a sandbox that has been patched
\* before (a restart came in between) the patch may change nothing or anything: a hunk
\* whose context is not found is put where its header says (_try_python_patch).
SkipApplyIfSame ==
    /\ pc = "apply" /\ ps.applied /\ tree = local /\ pc' = "retry"
    /\ UNCHANGED <<ps, pass, sandbox, ckpt, judgements, decisions, shipped, crashes>>

SkipApply ==
    /\ pc = "apply" /\ ps.applied /\ pc' = "retry"
    /\ UNCHANGED <<ps, pass, sandbox, ckpt, judgements, decisions, shipped, crashes>>

Apply ==
    /\ pc = "apply" /\ ~ps.applied
    /\ ps' = [ps EXCEPT !.base = head]
    /\ ckpt' = Checkpoint("codegen", ps', head)
    /\ \/ /\ tree \in {0, local}
          /\ tree' = local /\ UNCHANGED <<edits, shows>>
       \/ tree # 0 /\ Changed(FALSE)
    /\ Skip
    /\ UNCHANGED <<pass, head, judgements, decisions, shipped, crashes>>

CommitPatch ==
    /\ pc = "patched" /\ head' = tree /\ Skip
    /\ UNCHANGED <<ps, pass, tree, edits, shows, ckpt, judgements, decisions, shipped, crashes>>

RecordPatch ==
    /\ pc = "record"
    /\ ps' = [ps EXCEPT !.applied = TRUE]
    /\ ckpt' = Checkpoint("codegen", ps', head)
    /\ Skip
    /\ UNCHANGED <<pass, sandbox, judgements, decisions, shipped, crashes>>

\* A new version in the sandbox, by a tool that commits it.
Edit(widely) == Changed(widely) /\ head' = NewVersion

\* The completeness check and, once, the generation of what it finds missing.
Complete ==
    /\ pc = "retry" /\ "retry" \notin ps.done
    /\ \/ On("incomplete") /\ Edit(FALSE)
       \/ UNCHANGED sandbox
    /\ ps' = [ps EXCEPT !.done = @ \cup {"retry"}] /\ Skip
    /\ UNCHANGED <<pass, ckpt, judgements, decisions, shipped, crashes>>

-----------------------------------------------------------------------------
(* Gates.                                                                  *)

Open(gate) == pc = gate /\ gate \notin ps.done
Sees(gate) ==
    IF gate \in TreeGates THEN tree
    ELSE IF gate \in StateGates THEN ps.diff
    ELSE IF gate \in LocalGates \cup {"conformance"} THEN local ELSE 0
Clear(gate) == cleared' = [cleared EXCEPT ![gate] = Sees(gate)]
Done(gate) == [ps EXCEPT !.done = @ \cup {gate}]

SkipGate ==
    /\ pc \in Cached \cap ps.done /\ Skip
    /\ UNCHANGED <<ps, pass, sandbox, ckpt, judgements, decisions, shipped, crashes>>

\* A gate lets a version through.  A gate that errors does so too; feature presence
\* and acceptance then forget to note it.  The evidence gate gives way to an exhausted
\* compile repair, and the pass returns.
PassGate(gate) ==
    /\ Open(gate) /\ gate # "compile"
    /\ Clear(gate)
    /\ \/ ps' = Done(gate)
       \/ gate \in {"feature", "acceptance"} /\ UNCHANGED ps
    /\ ckpt' = IF gate = "review" THEN Checkpoint("review_post", ps', head) ELSE ckpt
    /\ pc' = IF gate = "evidence" /\ ps.cap THEN "returned" ELSE After[gate]
    /\ UNCHANGED <<pass, sandbox, blocked, decisions, shipped, crashes>>

RefreshedNever(state) == state

\* git diff against pre_codegen_snapshot_id; an empty one is not taken over.
Refreshed(state) ==
    IF shows[tree] = shows[state.base] THEN state
    ELSE LET diff == IF state.base = 0 THEN shows[tree] ELSE Partial(tree)
         IN  [state EXCEPT !.diff = diff, !.result = diff]

CompileRepairUncapped ==
    /\ Open("compile") /\ tree # 0 /\ Changed(TRUE) /\ round' = round + 1
    /\ UNCHANGED <<pc, ps, local, generated, head, ckpt, judgements, decisions, shipped, crashes>>

\* _run_compile_repair_loop.  A repair changes files and commits nothing; the files of a
\* round that timed out are not added to files_changed.
CompileRepair ==
    /\ Open("compile") /\ tree # 0 /\ round < MaxRounds /\ Changed(TRUE)
    /\ round' = round + 1
    /\ UNCHANGED <<pc, ps, local, generated, head, ckpt, judgements, decisions, shipped, crashes>>

CompilePassed ==
    /\ Open("compile") /\ tree # 0
    /\ Clear("compile")
    /\ ps' = Refreshed(Done("compile"))
    /\ ckpt' = Checkpoint("compile", ps', head) /\ Skip
    /\ UNCHANGED <<pass, sandbox, blocked, decisions, shipped, crashes>>

\* No sandbox, no compiler for it, or no error in a file of the plan.
CompileSkipped ==
    /\ Open("compile") /\ (tree = 0 \/ On("compile_skip"))
    /\ ps' = Done("compile")
    /\ ckpt' = Checkpoint("compile", ps', head) /\ Skip
    /\ UNCHANGED <<pass, sandbox, judgements, decisions, shipped, crashes>>

CompileCapped ==
    /\ Open("compile") /\ tree # 0 /\ On("cap_approval")
    /\ Park("compile", [ps EXCEPT !.cap = TRUE])

\* The repair of feature presence merges a generated diff into the diff of
\* pipeline_state; the sandbox does not get it.
FeatureRepair ==
    /\ Open("feature") /\ On("feature_repair") /\ MayEdit
    /\ edits' = NewVersion
    /\ ps' = [Done("feature") EXCEPT !.diff = NewVersion]
    /\ cleared' = [cleared EXCEPT !["feature"] = NewVersion]
    /\ Skip
    /\ UNCHANGED <<pass, tree, head, shows, ckpt, blocked, decisions, shipped, crashes>>

SemanticBlocked == Open("semantic") /\ Park("semantic", ps)

\* check_spec_conformance judges the variable diff, in every pass: what it finds is
\* stored as a dict and therefore never found again as a ConformanceReport.
ConformancePassed ==
    /\ pc = "conformance"
    /\ \/ local \notin blocked /\ Clear("conformance")
       \/ On("conformance_error") /\ UNCHANGED cleared
    /\ Skip
    /\ UNCHANGED <<ps, pass, sandbox, ckpt, blocked, decisions, shipped, crashes>>

ConformanceRetry ==
    /\ pc = "conformance" /\ local # cleared["conformance"]
    /\ blocked' = blocked \cup {local}
    /\ ps.spent["conformance"] + 1 < Budget["conformance"]
    /\ Retry(RetryState)

-----------------------------------------------------------------------------
(* Repairs in the sandbox: quality refinement and repair of the semantic   *)
(* review, repair of runtime validation, repair of reservations.           *)

\* _reset_after_semantic_quality_refine.
RepairDrops == {"compile", "tests", "acceptance", "symbols", "semantic", "runtime", "review",
                "evidence"}

\* The findings of the semantic review name files, and the repair searches for more; these
\* may be edited whether or not the task has changed them before.
Wide == {"refine", "semantic"}

\* The Jira approval is asked for.
JiraGate == pc = "jira" /\ On("jira_approval") /\ ~ps.granted /\ ~ps.written

RepairApply(kind) ==
    /\ IF kind = "reservation" THEN JiraGate ELSE Open(RepairStage[kind])
    /\ ps.spent[kind] < Budget[kind] /\ tree # 0 /\ Edit(kind \in Wide)
    /\ pc' = Patched[kind]
    /\ UNCHANGED <<ps, pass, ckpt, judgements, decisions, shipped, crashes>>

RepairRecord(kind) ==
    /\ pc = Patched[kind]
    /\ NewPass(Refreshed([ps EXCEPT !.done = @ \ RepairDrops, !.spent[kind] = @ + 1]))
    /\ UNCHANGED <<sandbox, ckpt, judgements, decisions, shipped, crashes>>

-----------------------------------------------------------------------------
(* The end of a pass.                                                      *)

SkipJiraUngated ==
    /\ pc = "jira" /\ Skip
    /\ UNCHANGED <<ps, pass, sandbox, ckpt, judgements, decisions, shipped, crashes>>

SkipJira ==
    /\ pc = "jira" /\ ~JiraGate /\ Skip
    /\ UNCHANGED <<ps, pass, sandbox, ckpt, judgements, decisions, shipped, crashes>>

AskReservation == JiraGate /\ ~ps.acked /\ Park("reservation", ps)
AskJira == JiraGate /\ Park("jira", ps)

\* The tool jira.transition_issue, unless its result is known, and the record of it.
Transition ==
    /\ pc = "transition"
    /\ shipped' = IF ps.written THEN shipped
                   ELSE Append(shipped, [diff |-> ps.diff, tree |-> tree])
    /\ pc' = IF ps.written THEN "finish" ELSE After[pc]
    /\ UNCHANGED <<ps, pass, sandbox, ckpt, judgements, decisions, crashes>>

RecordTransition ==
    /\ pc = "writeback" /\ ps' = [ps EXCEPT !.written = TRUE] /\ Skip
    /\ UNCHANGED <<pass, sandbox, ckpt, judgements, decisions, shipped, crashes>>

Finish ==
    /\ pc = "finish" /\ Skip
    /\ UNCHANGED <<ps, pass, sandbox, ckpt, judgements, decisions, shipped, crashes>>

\* The stages that can end the task, when they have work to do.
FailStage ==
    /\ \/ pc = "codegen" /\ ps.result = 0
       \/ pc \in {"coverage", "scope"}
       \/ pc = "apply" /\ ~ps.applied
       \/ \E gate \in CachedGates \ {"semantic"} : Open(gate)
       \/ JiraGate
       \/ pc = "transition" /\ ~ps.written
    /\ Fail

ConformanceFailed ==
    /\ pc = "conformance" /\ local # cleared["conformance"]
    /\ ps.spent["conformance"] + 1 >= Budget["conformance"]
    /\ Fail

-----------------------------------------------------------------------------
(* Approvals.                                                              *)

CompileGrantedCapKept ==
    [ps EXCEPT !.pending = @ \ {"compile"}, !.done = @ \ {"compile", "evidence"}]

\* The grant of the compile approval: the compile gate runs again.
CompileGranted ==
    [ps EXCEPT !.pending = @ \ {"compile"}, !.cap = FALSE, !.done = @ \ {"compile", "evidence"}]

\* resume_after_approval.  What is neither the pending compile nor the pending
\* semantic nor the pending reservation approval counts as the Jira approval,
\* unless a different Jira approval is pending.
Answer(question) ==
    CASE question = "compile" -> CompileGranted
      [] question = "semantic" ->
            [ps EXCEPT !.pending = @ \ {"semantic"},
                       !.done = (@ \cup {"semantic"}) \ {"evidence"}]
      [] question = "reservation" ->
            [ps EXCEPT !.pending = @ \ {"reservation"}, !.acked = TRUE]
      [] OTHER ->
            IF question = "jira" \/ "jira" \notin ps.pending
              THEN [ps EXCEPT !.pending = @ \ {"jira"}, !.granted = TRUE]
              ELSE ps

Grant ==
    /\ pc = "waiting"
    /\ NewPass(Answer(approval.question))
    /\ approval' = NoQuestion
    /\ signed' = IF approval.question = "jira" THEN signed \cup {approval.diff} ELSE signed
    /\ answered' = answered \cup {<<approval.question, approval.diff, tree>>}
    /\ UNCHANGED <<sandbox, ckpt, judgements, shipped, crashes>>

Reject ==
    /\ pc = "waiting" /\ pc' = "failed" /\ approval' = NoQuestion
    /\ UNCHANGED <<ps, pass, sandbox, ckpt, judgements, signed, answered, shipped, crashes>>

\* The operator who is asked about the compile errors repairs the sandbox by hand.
HandEdit ==
    /\ pc = "waiting" /\ approval.question = "compile" /\ On("hand_edit") /\ Changed(TRUE)
    /\ UNCHANGED <<pc, ps, pass, head, ckpt, judgements, decisions, shipped, crashes>>

-----------------------------------------------------------------------------
(* Process death, and resume_task in the next process.                     *)

Crash ==
    /\ pc \in Running \cup Repairing /\ crashes < MaxCrashes
    /\ pc' = "down" /\ crashes' = crashes + 1
    /\ UNCHANGED <<ps, pass, sandbox, ckpt, judgements, decisions, shipped>>

\* An awaiting-approval checkpoint counts as resumed, and nothing runs.
ResumeWaiting ==
    /\ pc = "down" /\ ckpt.stage = "awaiting_approval" /\ pc' = "orphaned"
    /\ UNCHANGED <<ps, pass, sandbox, ckpt, judgements, decisions, shipped, crashes>>

\* The checkpoint after the plan review holds no pipeline_state: the row keeps its
\* own, if it was committed.
ResumeReview ==
    /\ pc = "down" /\ ckpt.stage = "review_pre"
    /\ \E state \in {ps, NoState} : NewPass(state)
    /\ UNCHANGED <<sandbox, ckpt, judgements, decisions, shipped, crashes>>

\* _prepare_develop_resume rolls a sandbox with uncommitted changes back.
ResumeCodegen ==
    /\ pc = "down" /\ ckpt.stage = "codegen"
    /\ IF tree # head
         THEN /\ NewPass([ckpt.ps EXCEPT !.applied = FALSE])
              /\ tree' = ckpt.snap /\ head' = ckpt.snap
         ELSE NewPass(ckpt.ps) /\ UNCHANGED <<tree, head>>
    /\ UNCHANGED <<edits, shows, ckpt, judgements, decisions, shipped, crashes>>

ResumeGated ==
    /\ pc = "down" /\ ckpt.stage \in {"compile", "review_post"}
    /\ NewPass(ckpt.ps)
    /\ UNCHANGED <<sandbox, ckpt, judgements, decisions, shipped, crashes>>

-----------------------------------------------------------------------------
PassStep ==
    \/ CodegenCached \/ Codegen \/ CoverageRetry \/ AskConflict \/ ScopeRetry \/ PassStage
    \/ SkipApply \/ Apply \/ CommitPatch \/ RecordPatch \/ Complete
    \/ SkipGate \/ \E gate \in CachedGates : PassGate(gate)
    \/ CompileRepair \/ CompilePassed \/ CompileSkipped \/ CompileCapped
    \/ FeatureRepair \/ SemanticBlocked \/ ConformancePassed \/ ConformanceRetry
    \/ \E kind \in RepairKinds : RepairApply(kind) \/ RepairRecord(kind)
    \/ SkipJira \/ AskReservation \/ AskJira
    \/ Transition \/ RecordTransition \/ Finish
    \/ FailStage \/ ConformanceFailed

Operator == Grant \/ Reject \/ HandEdit
Environment == Crash \/ ResumeWaiting \/ ResumeReview \/ ResumeCodegen \/ ResumeGated

Next == PassStep \/ Operator \/ Environment

Spec == Init /\ [][Next]_vars

\* The job of the pass goes on; nobody has to answer, and nothing has to crash.
FairSpec == Spec /\ WF_vars(PassStep)

-----------------------------------------------------------------------------
(* What is checked.                                                        *)

StateType ==
    [diff : Diffs, result : Diffs, base : Versions, applied : BOOLEAN, done : SUBSET Cached,
     spent : [Kinds -> Nat], cap : BOOLEAN, pending : SUBSET Questions, granted : BOOLEAN,
     acked : BOOLEAN, written : BOOLEAN]

\* Every variable holds what its comment says; no budget is overdrawn.
TypeOK ==
    /\ pc \in Places /\ ps \in StateType
    /\ local \in Diffs /\ generated \in BOOLEAN /\ round \in 0 .. MaxRounds
    /\ tree \in Versions /\ head \in Versions /\ edits \in Versions
    /\ shows \in [Versions -> Diffs]
    /\ ckpt \in [stage : CheckpointStages, ps : StateType, snap : Versions]
    /\ approval \in [question : Questions \cup {"none"}, diff : Diffs]
    /\ cleared \in [Gates -> Diffs] /\ blocked \subseteq Diffs
    /\ signed \subseteq Diffs /\ answered \subseteq Questions \X Diffs \X Versions
    /\ shipped \in Seq([diff : Diffs, tree : Versions])
    /\ crashes \in 0 .. MaxCrashes

AskingJira == pc = "waiting" /\ approval.question = "jira"

\* When the Jira approval is asked for, the code in the sandbox has passed the compile gate,
\* and the approval shows all that git diff tells of this code, through every chain of
\* repairs, retries, grants and manual edits: the diff is refreshed after every change
\* (_refresh_codegen_diff_from_sandbox), the cached result of the gate dropped
\* (_reset_for_conformance_retry, _reset_after_semantic_quality_refine,
\* resume_after_approval).  That git diff tells all of it is not said: an edit beyond the
\* paths it is asked about is not shown, and ReviewGates has what is left of it.
ShownIsCompiled == AskingJira => approval.diff = shows[tree] /\ tree = cleared["compile"]

\* A gate that reads the sandbox has judged what is in it, any other what is shown.
Judged(gate) == cleared[gate] = IF gate \in TreeGates THEN tree ELSE approval.diff

\* The gates both resets list have judged the sandbox and what the Jira approval shows of
\* it, in whatever order repairs and retries followed each other; after repairs only, so
\* have the others of _reset_after_semantic_quality_refine, or a human instead of the
\* semantic review.
RepairReruns ==
    /\ AskingJira => \A gate \in {"tests", "compile", "review", "evidence"} : Judged(gate)
    /\ AskingJira /\ ps.spent["conformance"] = 0 =>
         /\ Judged("acceptance") /\ Judged("runtime")
         /\ Judged("semantic") \/ <<"semantic", approval.diff, tree>> \in answered

\* After retries only, so have the others _reset_for_conformance_retry lists.
RetryReruns ==
    AskingJira /\ (\A kind \in RepairKinds : ps.spent[kind] = 0) =>
        \A gate \in {"shape", "failing_test", "goals"} : Judged(gate)

\* What a reset drops is judged anew before the approval, whichever resets there were.
ResetsRerun == RepairReruns /\ RetryReruns

\* Nobody is asked again what was granted for the same diff and the same sandbox.  (The
\* compile approval is different: it may be granted to try again.)
NoRepeatedQuestion ==
    [][pc # "waiting" /\ pc' = "waiting" /\ approval'.question # "compile"
         => <<approval'.question, approval'.diff, tree>> \notin answered]_vars

\* The evidence gate's silent return, which would leave the task executing with nothing
\* to wait for, is not taken: each way into another pass clears the flag it tests.
NoSilentReturn == pc # "returned"

\* The attempts of a budget, together.
Total(count) ==
    count["coverage"] + count["scope"] + count["conformance"] + count["refine"]
    + count["semantic"] + count["runtime"] + count["reservation"]

\* Retries and repairs have budgets that a reset does not give back, so that the work on
\* a task is bounded however its passes follow each other: one generation or repair for
\* each attempt of a budget.  (What the compile repair, the completeness check and the
\* operator may add is not counted here.)
WorkIsBounded == edits <= Total(Budget)

\* A pass, with all the passes it calls, comes to an end.
PassEnds == pc \in Running ~> pc \notin Running \cup Repairing

\* Seen from Jira: what JiraRelease promises.  A rejected or failed task has ended.
ReleasePhase ==
    IF pc \in Ended THEN "ended"
    ELSE IF AskingJira THEN "asked"
    ELSE IF ps.granted THEN "authorised" ELSE "working"
Release == INSTANCE JiraRelease WITH phase <- ReleasePhase, releases <- Len(shipped)

\* When no other approval stands before it, the Jira transition comes after a grant of its
\* own and only once, through every repair, retry and answer of the pass (the gate and the
\* write-back of _execute_develop_pipeline).
ReleaseIsGranted == Release!Spec

-----------------------------------------------------------------------------
(* What a comment or a document says.                                      *)

\* service.py:9921 "pause here so a human can review the diff/summary and either grant
\* (-> Jira transitions) or reject".
TransitionNeedsGrant == shipped # <<>> => signed # {}

=============================================================================
