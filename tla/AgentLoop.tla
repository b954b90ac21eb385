------------------------------- MODULE AgentLoop -------------------------------
(***************************************************************************)
(* The multi-turn loop of services/agent_loop.py, and its one caller,      *)
(* CodeGenerator._run_agent_loop (services/codegen.py): a model reads and  *)
(* searches through tools, each with a quota, until it hands in a diff,    *)
(* gives up, or runs out of turns or of time.                              *)
(*                                                                         *)
(* The loop takes answers that are texts, and its unit tests give it such; *)
(* the code generator gives it a pair, the text and the reasoning, and     *)
(* looks for a helper that the module of the loop does not define.         *)
(***************************************************************************)
EXTENDS Integers, Sequences

CONSTANTS
    MaxTurns,  \* codegen_agent_max_turns
    Loaded,    \* files of candidate_files
    Quota      \* soft_max_calls_per_tool: a function from LoopTools to numbers

LoopTools == {"read_file", "search_symbol", "list_directory", "apply_diff"}

ASSUME LoopAssumption ==
    /\ MaxTurns \in Nat \ {0}
    /\ Quota \in [LoopTools -> Nat]

VARIABLES
    agCaller,   \* who gave llm_call: a "test", or the "codegen"
    agPhase,    \* "turn" | "after" | "ended"
    agTurn,     \* turn_idx
    agUsed,     \* per_tool_count
    agMessages, \* roles of the messages
    agReason,   \* terminated_reason
    agDiff,     \* files of final_diff
    agOutcome   \* what the caller of _run_agent_loop gets

agVars == <<agCaller, agPhase, agTurn, agUsed, agMessages, agReason, agDiff, agOutcome>>

Reasons == {"none", "done", "cannot_proceed", "budget_turns", "budget_seconds", "error",
            "diff_emitted"}
Outcomes == {"none", "result", "CodegenError", "TypeError", "ImportError"}

AgTypeOK ==
    /\ agCaller \in {"test", "codegen"}
    /\ agPhase \in {"turn", "after", "ended"}
    /\ agTurn \in 0..MaxTurns
    /\ agUsed \in [LoopTools -> 0..MaxTurns]
    /\ agMessages \in Seq({"user", "assistant"}) /\ Len(agMessages) <= 2 * MaxTurns + 1
    /\ agReason \in Reasons /\ agDiff \subseteq Loaded /\ agOutcome \in Outcomes

AgInit ==
    /\ agCaller \in {"test", "codegen"}
    /\ agPhase = "turn" /\ agTurn = 0 /\ agUsed = [t \in LoopTools |-> 0]
    /\ agMessages = <<"user">>
    /\ agReason = "none" /\ agDiff = {} /\ agOutcome = "none"

-----------------------------------------------------------------------------
(* Mutant: one turn more than the limit. *)
AskingOnceMore == agPhase = "turn" /\ agTurn <= MaxTurns

Asking == agPhase = "turn" /\ agTurn < MaxTurns

EndWith(reason) == agReason' = reason /\ agPhase' = "after"

(* A chain that begins with the mock provider is refused before the loop. *)
NoModel ==
    /\ agPhase = "turn" /\ agTurn = 0 /\ agCaller = "codegen"
    /\ agOutcome' = "CodegenError" /\ agPhase' = "ended"
    /\ UNCHANGED <<agCaller, agTurn, agUsed, agMessages, agReason, agDiff>>

(* The time and the turns are looked at before each call. *)
OutOfTime ==
    /\ Asking
    /\ EndWith("budget_seconds")
    /\ UNCHANGED <<agCaller, agTurn, agUsed, agMessages, agDiff, agOutcome>>

(* Mutant: the turns end behind the last one. *)
OutOfTurnsLate ==
    /\ agPhase = "turn" /\ agTurn > MaxTurns
    /\ EndWith("budget_turns")
    /\ UNCHANGED <<agCaller, agTurn, agUsed, agMessages, agDiff, agOutcome>>

OutOfTurns ==
    /\ agPhase = "turn" /\ agTurn = MaxTurns
    /\ EndWith("budget_turns")
    /\ UNCHANGED <<agCaller, agTurn, agUsed, agMessages, agDiff, agOutcome>>

(* The call raises; or the answer is empty, which a pair never is. *)
CallFails ==
    /\ Asking
    /\ EndWith("error")
    /\ UNCHANGED <<agCaller, agTurn, agUsed, agMessages, agDiff, agOutcome>>

(* parse_model_response searches a pair as if it were a text, outside of every try. *)
AnswersPair ==
    /\ Asking /\ agCaller = "codegen"
    /\ agOutcome' = "TypeError" /\ agPhase' = "ended"
    /\ UNCHANGED <<agCaller, agTurn, agUsed, agMessages, agReason, agDiff>>

(* A terminal marker wins over a tool call in the same answer. *)
Gives(reason) ==
    /\ Asking /\ agCaller = "test" /\ reason \in {"done", "cannot_proceed"}
    /\ agMessages' = Append(agMessages, "assistant")
    /\ EndWith(reason)
    /\ UNCHANGED <<agCaller, agTurn, agUsed, agDiff, agOutcome>>

(* Mutant: an answer that is refused has no reply. *)
NextTurnSilent ==
    /\ agMessages' = Append(agMessages, "assistant")
    /\ agTurn' = agTurn + 1
    /\ UNCHANGED <<agCaller, agPhase, agReason, agDiff, agOutcome>>

(* The reply that keeps the loop going: a reminder after prose, an error for an unknown tool or *)
(* for one whose quota is used up, or the result of the tool.                                    *)
NextTurn ==
    /\ agMessages' = agMessages \o <<"assistant", "user">>
    /\ agTurn' = agTurn + 1
    /\ UNCHANGED <<agCaller, agPhase, agReason, agDiff, agOutcome>>

TalksOrMisnames ==
    /\ Asking /\ agCaller = "test"
    /\ NextTurn /\ UNCHANGED agUsed

OverQuota(t) ==
    /\ Asking /\ agCaller = "test" /\ agUsed[t] >= Quota[t]
    /\ NextTurn /\ UNCHANGED agUsed

(* Mutant: one run more than the quota. *)
RunsOnceMore(t) ==
    /\ Asking /\ agCaller = "test" /\ agUsed[t] <= Quota[t]
    /\ agUsed' = [agUsed EXCEPT ![t] = @ + 1]

Runs(t) ==
    /\ Asking /\ agCaller = "test" /\ agUsed[t] < Quota[t]
    /\ agUsed' = [agUsed EXCEPT ![t] = @ + 1]

(* What a tool that runs finds, and that it finds nothing, goes back to the model: a file of the *)
(* context or of the disk, lines that name a symbol, the entries of a directory, an argument that *)
(* is wrong or blocks that do not apply.                                                          *)
Explores(t) ==
    /\ Runs(t)
    /\ NextTurn

(* The blocks are applied to the files of the context alone; of those a diff may be left empty. *)
Applies(files) ==
    /\ Runs("apply_diff") /\ files \subseteq Loaded
    /\ agMessages' = Append(agMessages, "assistant")
    /\ agDiff' = files
    /\ EndWith("diff_emitted")
    /\ UNCHANGED <<agCaller, agTurn, agOutcome>>

(* _run_agent_loop: a diff is the result; else a patch is to be written from what the loop has   *)
(* read, and build_context_bundle is imported for that.  A test looks at the result of the loop.  *)
Hand ==
    /\ agPhase = "after"
    /\ agOutcome' = IF agCaller = "test" THEN "none"
                    ELSE IF agReason = "diff_emitted" /\ agDiff # {} THEN "result"
                    ELSE "ImportError"
    /\ agPhase' = "ended"
    /\ UNCHANGED <<agCaller, agTurn, agUsed, agMessages, agReason, agDiff>>

AgNext ==
    \/ NoModel \/ OutOfTime \/ OutOfTurns \/ CallFails \/ AnswersPair \/ TalksOrMisnames \/ Hand
    \/ \E r \in {"done", "cannot_proceed"} : Gives(r)
    \/ \E t \in LoopTools : OverQuota(t) \/ Explores(t)
    \/ \E files \in SUBSET Loaded : Applies(files)

(* A call of the model has a timeout. *)
AgSpec == AgInit /\ [][AgNext]_agVars /\ WF_agVars(AgNext)

-----------------------------------------------------------------------------
(* The model is asked only when the last word is the harness's, and each of its answers has had *)
(* one reply, whatever was wrong with it.                                                         *)
TurnsAlternate ==
    /\ \A i \in DOMAIN agMessages : agMessages[i] = (IF i % 2 = 1 THEN "user" ELSE "assistant")
    /\ Asking => Len(agMessages) = 2 * agTurn + 1

(* A tool runs no more often than its quota over all the turns; a diff is that of a run of        *)
(* apply_diff within its quota, so that none comes after refusals that have used it up.           *)
QuotaHolds ==
    /\ \A t \in LoopTools : agUsed[t] <= Quota[t]
    /\ agReason = "diff_emitted" => agUsed["apply_diff"] \in 1..Quota["apply_diff"]

(* The loop ends within its turns, however the model answers. *)
LoopIsOver == agPhase = "ended"
=============================================================================
