------------------------------- MODULE MCStages -------------------------------
(* Small instances of the stages of a pipeline: planning, the calls of the models in their   *)
(* batches, the command line tools, the blocks and the loop they may answer with, the repair  *)
(* of what does not compile, the gates of the review and the workspace's evidence.  They share *)
(* no variable, so a behaviour is one of a single component, the one in focus, while the      *)
(* others stay where they begin.                                                               *)
EXTENDS TaskPlanning, CodegenBatches, CodegenCall, CodegenCli, AiderBlocks, AgentLoop,
        CompileRepair, ReviewGates, TaskWorkspace

VARIABLE focus

CONSTANTS f1, n1, p1

(* One file to edit and one to add. *)
MCExisting == <<f1>>
MCPlanned == <<n1>>
(* Texts in which an anchor occurs never, once, or several times. *)
MCTrees == {[p \in Paths |-> t] : t \in {NoText, <<>>, <<"b", "a">>, <<"a", "a", "a">>}}
MCViews == {[p \in Paths |-> t] : t \in {NoText, <<"b">>, <<"a">>}}
MCAnchors == {<<>>, <<"a">>, <<"b">>, <<"a", "a">>}
MCReplacements == {<<>>, <<"b">>, <<"a", "b">>}
MCQuota == [t \in LoopTools |-> IF t = "read_file" THEN 2 ELSE 1]
MCBudget == [k \in RevKinds |-> IF k = "semantic" THEN 2 ELSE 1]

Components == {"planning", "batches", "call", "cli", "blocks", "loop", "repair", "review",
               "workspace"}

stagesVars == <<focus, plnVars, batVars, genVars, cliVars, adVars, agVars, repairVars, revVars,
                wsVars>>

(* A component that is not in focus begins in one state. *)
StagesInit ==
    /\ focus \in Components
    /\ focus # "planning" => plnScenario = "develop"
    /\ focus # "call" => genSetup = [enforced |-> TRUE, validated |-> TRUE, way |-> "recipe"]
    /\ focus # "cli" => /\ cliMode = [kind |-> "worktree", source |-> TRUE]
                        /\ cliView = [f \in CliFiles \cup CliNew |-> None]
    /\ focus # "blocks" => /\ adDisk = [p \in Paths |-> <<>>]
                           /\ adView = [p \in Paths |-> NoText]
    /\ focus # "loop" => agCaller = "test"
    /\ focus # "repair" => /\ repMode = [asks |-> "absent", anchored |-> TRUE]
                           /\ repTree = NoErrors /\ repChanged = Allowed
    /\ focus # "review" => revVerified = TRUE
    /\ focus # "workspace" => wsIssue = [jira |-> TRUE, named |-> {}, new |-> {}]
    /\ PlnInit /\ BatInit /\ GenInit /\ CliInit /\ AdInit /\ AgInit /\ RepairInit /\ RevInit
    /\ WsInit

(* A component that is not in focus stays where it is. *)
OthersStay ==
    /\ IF focus = "planning" THEN TRUE ELSE UNCHANGED plnVars
    /\ IF focus = "batches" THEN TRUE ELSE UNCHANGED batVars
    /\ IF focus = "call" THEN TRUE ELSE UNCHANGED genVars
    /\ IF focus = "cli" THEN TRUE ELSE UNCHANGED cliVars
    /\ IF focus = "blocks" THEN TRUE ELSE UNCHANGED adVars
    /\ IF focus = "loop" THEN TRUE ELSE UNCHANGED agVars
    /\ IF focus = "repair" THEN TRUE ELSE UNCHANGED repairVars
    /\ IF focus = "review" THEN TRUE ELSE UNCHANGED revVars
    /\ IF focus = "workspace" THEN TRUE ELSE UNCHANGED wsVars

StagesNext ==
    /\ UNCHANGED focus /\ OthersStay
    /\ \/ focus = "planning" /\ PlnNext
       \/ focus = "batches" /\ BatNext
       \/ focus = "call" /\ GenNext
       \/ focus = "cli" /\ CliNext
       \/ focus = "blocks" /\ AdNext
       \/ focus = "loop" /\ AgNext
       \/ focus = "repair" /\ RepairNext
       \/ focus = "review" /\ RevNext
       \/ focus = "workspace" /\ WsNext

(* The fairness of each component, while it is in focus. *)
StagesFairness ==
    /\ WF_plnVars(focus = "planning" /\ PlnStep)
    /\ WF_batVars(focus = "batches" /\ StageStep)
    /\ WF_genVars(focus = "call" /\ GenNext)
    /\ WF_cliVars(focus = "cli" /\ CliStep)
    /\ WF_adVars(focus = "blocks" /\ AdNext)
    /\ WF_agVars(focus = "loop" /\ AgNext)
    /\ WF_repairVars(focus = "repair" /\ RepairNext)
    /\ WF_revVars(focus = "review" /\ RevNext)
    /\ WF_wsVars(focus = "workspace" /\ WsStep)

StagesSpec == StagesInit /\ [][StagesNext]_stagesVars /\ StagesFairness

-----------------------------------------------------------------------------
(* Properties of several components, a behaviour being one of the component in focus. *)

(* Every component keeps its types. *)
StagesTypeOK ==
    /\ PlnTypeOK /\ BatTypeOK /\ GenTypeOK /\ CliTypeOK /\ AdTypeOK /\ AgTypeOK /\ RepairTypeOK
    /\ RevTypeOK /\ WsTypeOK

(* A patch that is asked for of a model is validated before it is returned                      *)
(* (CodegenService.generate_patch), merged before it is recorded (orchestrator/service.py), and  *)
(* asked for a bounded number of times, by calls that the stage waits for.                        *)
PatchesAreChecked == PatchedIsMerged /\ NoStrayCall /\ ReturnedIsChecked /\ CallsAreBounded

(* However a model answers, by edits in a worktree (_call_claude_code), in blocks                *)
(* (_parse_response_aider) or turn by turn (services/agent_loop.py), its answer is taken whole,   *)
(* once and for the files as they are, and nothing of it is left behind.                          *)
AnswersAreKept ==
    /\ LastTryOnly /\ WorkIsReturned /\ NothingLeft
    /\ AppliesToOriginal /\ EditsAddUp
    /\ TurnsAlternate /\ QuotaHolds

(* What a repair has changed is judged again before a person is asked, and repairs end           *)
(* (_run_compile_repair_loop, _execute_develop_pipeline).                                         *)
RepairsAreJudged ==
    /\ PassedCompiles /\ RepairsAreNamed /\ StuckIsUnrepaired
    /\ ShownIsJudged /\ RepairsAreBounded

(* The component in focus comes to its end: planning to a plan that is carried out, a failure  *)
(* or a question; the codegen stage to a judgement or the pool it has to close; a call of a      *)
(* generator, of a command-line agent and an answer in blocks to a diff or an error; the loop to *)
(* its last turn; the compile gate to a verdict; the review and the work to a decision.           *)
Over ==
    CASE focus = "planning" -> PlanningIsOver
      [] focus = "batches" -> StageIsOver
      [] focus = "call" -> CallIsOver
      [] focus = "cli" -> CliIsOver
      [] focus = "blocks" -> AnswerIsOver
      [] focus = "loop" -> LoopIsOver
      [] focus = "repair" -> RepairIsOver
      [] focus = "review" -> ReviewIsOver
      [] focus = "workspace" -> WorkIsOver
StagesEnd == []<>Over
=============================================================================
