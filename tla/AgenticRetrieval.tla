---------------------------- MODULE AgenticRetrieval ----------------------------
(***************************************************************************)
(* The retrieval in which a model decides what to look for                 *)
(* (services/cc_agent_loop.py with services/cc_agent.py), and what         *)
(* KnowledgeService._try_cc_agentic_retrieval (services/knowledge.py)      *)
(* makes of it: rounds of a decision, asked of the first provider that     *)
(* answers, and of the tool the decision names.  Without a usable result   *)
(* the search goes on in the index, as KnowledgeIndex has it.              *)
(***************************************************************************)
EXTENDS Integers, Sequences, SequencesExt

CONSTANTS
    CcProviders,   \* providers in cc_agent_provider_chain
    CcFiles,       \* files a tool can find
    MaxRounds,     \* cc_agent_max_rounds
    MaxToolCalls,  \* cc_agent_max_tool_calls
    OverallTime,   \* cc_agent_overall_timeout_s, in units of time
    CallTime,      \* cc_agent_per_call_timeout_s
    TopK           \* top_k of the search

ASSUME RetrievalAssumption ==
    /\ {CcProviders, MaxRounds, OverallTime, CallTime, TopK} \subseteq Nat \ {0}
    /\ MaxToolCalls \in Nat /\ IsFiniteSet(CcFiles)

VARIABLES
    ccPhase,     \* "round" | "ask" | "decided" | "tool" | "over" | "served" | "index"
    ccRound,     \* rounds_run
    ccProvider,  \* fallback_step, from 1
    ccAllowed,   \* timeout_s of the round's calls
    ccTime,      \* time since the start
    ccBad,       \* invalid_json_count
    ccTools,     \* tool_calls
    ccEvidence,  \* files of evidence_items, in the order they were found
    ccFailed,    \* files only named by a tool that reported an error
    ccReason,    \* fallback_reason
    ccCited      \* files of the citations

ccTurn == <<ccRound, ccProvider, ccAllowed>>
ccFound == <<ccEvidence, ccFailed>>
ccVars == <<ccPhase, ccTurn, ccTime, ccBad, ccTools, ccFound, ccReason, ccCited>>

CcTypeOK ==
    /\ ccPhase \in {"round", "ask", "decided", "tool", "over", "served", "index"}
    /\ ccRound \in 0..MaxRounds /\ ccProvider \in 1..CcProviders /\ ccAllowed \in 0..CallTime
    /\ ccTime \in Nat /\ ccBad \in 0..2 /\ ccTools \in 0..MaxToolCalls
    /\ ccEvidence \in Seq(CcFiles) /\ ccFailed \subseteq CcFiles /\ ccCited \in Seq(CcFiles)
    /\ ccReason \in {"none", "overall_timeout", "all_providers_failed", "invalid_json",
                     "budget_exhausted", "crashed"}

CcInit ==
    /\ ccPhase = "round" /\ ccRound = 0 /\ ccProvider = 1 /\ ccAllowed = 0 /\ ccTime = 0
    /\ ccBad = 0 /\ ccTools = 0 /\ ccEvidence = <<>> /\ ccFailed = {}
    /\ ccReason = "none" /\ ccCited = <<>>

CcMin(a, b) == IF a < b THEN a ELSE b
CcMax(a, b) == IF a < b THEN b ELSE a

-----------------------------------------------------------------------------
OverWith(reason) == ccPhase' = "over" /\ ccReason' = reason

(* The repository is not there, when the loop starts or when a tool runs. *)
Crashes ==
    /\ \/ ccPhase = "tool"
       \/ ccPhase = "round" /\ ccRound = 0
    /\ ccPhase' = "index" /\ ccReason' = "crashed"
    /\ UNCHANGED <<ccTurn, ccTime, ccBad, ccTools, ccFound, ccCited>>

(* Mutant: the rounds are not counted. *)
StartRoundUncounted ==
    /\ ccPhase = "round" /\ ccTime < OverallTime
    /\ ccPhase' = "ask" /\ ccProvider' = 1 /\ ccAllowed' = CallTime
    /\ UNCHANGED <<ccRound, ccReason, ccTime, ccBad, ccTools, ccFound, ccCited>>

(* Mutant: the time is not looked at. *)
StartRoundLate ==
    /\ ccPhase = "round" /\ ccRound < MaxRounds
    /\ ccPhase' = "ask" /\ ccRound' = ccRound + 1 /\ ccProvider' = 1 /\ ccAllowed' = CallTime
    /\ UNCHANGED <<ccReason, ccTime, ccBad, ccTools, ccFound, ccCited>>

(* The time is looked at here alone; what is left of it bounds each call of the round. *)
StartRound ==
    /\ ccPhase = "round" /\ ccRound < MaxRounds
    /\ IF ccTime >= OverallTime
       THEN OverWith("overall_timeout") /\ UNCHANGED <<ccRound, ccProvider, ccAllowed>>
       ELSE /\ ccPhase' = "ask" /\ ccRound' = ccRound + 1 /\ ccProvider' = 1
            /\ ccAllowed' = CcMin(CallTime, CcMax(1, OverallTime - ccTime))
            /\ UNCHANGED ccReason
    /\ UNCHANGED <<ccTime, ccBad, ccTools, ccFound, ccCited>>

(* The rounds are used up, with evidence or without. *)
NoRoundLeft ==
    /\ ccPhase = "round" /\ ccRound = MaxRounds
    /\ OverWith("budget_exhausted")
    /\ UNCHANGED <<ccTurn, ccTime, ccBad, ccTools, ccFound, ccCited>>

(* A provider that is missing, times out or fails: the next one, with the same timeout. *)
ProviderFailsCc(t) ==
    /\ ccPhase = "ask" /\ t \in 0..ccAllowed
    /\ ccTime' = ccTime + t
    /\ IF ccProvider < CcProviders
       THEN ccProvider' = ccProvider + 1 /\ UNCHANGED <<ccPhase, ccReason>>
       ELSE OverWith("all_providers_failed") /\ UNCHANGED ccProvider
    /\ UNCHANGED <<ccRound, ccAllowed, ccBad, ccTools, ccFound, ccCited>>

ProviderAnswersCc(t) ==
    /\ ccPhase = "ask" /\ t \in 0..ccAllowed
    /\ ccTime' = ccTime + t /\ ccPhase' = "decided"
    /\ UNCHANGED <<ccTurn, ccBad, ccTools, ccFound, ccReason, ccCited>>

(* Mutant: the third answer without JSON ends the loop. *)
NotJsonThrice ==
    /\ ccPhase = "decided"
    /\ ccBad' = ccBad + 1
    /\ IF ccBad = 2 THEN OverWith("invalid_json") ELSE ccPhase' = "round" /\ UNCHANGED ccReason
    /\ UNCHANGED <<ccTurn, ccTime, ccTools, ccFound, ccCited>>

(* No JSON object in the text; the second in a row ends the loop. *)
NotJson ==
    /\ ccPhase = "decided"
    /\ ccBad' = ccBad + 1
    /\ IF ccBad = 1 THEN OverWith("invalid_json") ELSE ccPhase' = "round" /\ UNCHANGED ccReason
    /\ UNCHANGED <<ccTurn, ccTime, ccTools, ccFound, ccCited>>

SaysDone ==
    /\ ccPhase = "decided"
    /\ ccBad' = 0 /\ OverWith("none")
    /\ UNCHANGED <<ccTurn, ccTime, ccTools, ccFound, ccCited>>

(* An object without an action costs a round; an action beyond the budget ends the loop. *)
Decides(acts) ==
    /\ ccPhase = "decided"
    /\ ccBad' = 0
    /\ IF ~acts THEN ccPhase' = "round" /\ UNCHANGED ccReason
       ELSE IF ccTools >= MaxToolCalls THEN OverWith("budget_exhausted")
       ELSE ccPhase' = "tool" /\ UNCHANGED ccReason
    /\ UNCHANGED <<ccTurn, ccTime, ccTools, ccFound, ccCited>>

(* Mutant: the matches of a tool that reported an error count. *)
ToolRunsAnyhow(found, error, t) ==
    /\ ccPhase = "tool" /\ t \in 0..CallTime
    /\ ccTime' = ccTime + t /\ ccTools' = ccTools + 1
    /\ ccEvidence' = ccEvidence \o SetToSeq(found)
    /\ ccFailed' = IF error THEN ccFailed \union (found \ Range(ccEvidence)) ELSE ccFailed \ found
    /\ ccPhase' = "round"
    /\ UNCHANGED <<ccTurn, ccBad, ccReason, ccCited>>

(* The tool runs for as long as a call may, whatever is left; what it wrote to stderr is an      *)
(* error, and the matches of a tool with an error are no evidence.                               *)
ToolRuns(found, error, t) ==
    /\ ccPhase = "tool" /\ t \in 0..CallTime
    /\ ccTime' = ccTime + t /\ ccTools' = ccTools + 1
    /\ ccEvidence' = IF error THEN ccEvidence ELSE ccEvidence \o SetToSeq(found)
    /\ ccFailed' = IF error THEN ccFailed \union (found \ Range(ccEvidence)) ELSE ccFailed \ found
    /\ ccPhase' = "round"
    /\ UNCHANGED <<ccTurn, ccBad, ccReason, ccCited>>

(* No evidence, no provider or no time: the index is asked; else the first of the evidence is     *)
(* what the answer is written from.                                                              *)
Serve ==
    /\ ccPhase = "over"
    /\ IF ccEvidence = <<>> \/ ccReason \in {"all_providers_failed", "overall_timeout"}
       THEN ccPhase' = "index" /\ UNCHANGED ccCited
       ELSE /\ ccPhase' = "served"
            /\ ccCited' = SubSeq(ccEvidence, 1, CcMin(TopK, Len(ccEvidence)))
    /\ UNCHANGED <<ccTurn, ccTime, ccBad, ccTools, ccFound, ccReason>>

CcNext ==
    \/ Crashes \/ StartRound \/ NoRoundLeft \/ NotJson \/ SaysDone \/ Serve
    \/ \E acts \in BOOLEAN : Decides(acts)
    \/ \E t \in 0..CallTime : ProviderFailsCc(t) \/ ProviderAnswersCc(t)
    \/ \E found \in SUBSET CcFiles, error \in BOOLEAN, t \in 0..CallTime : ToolRuns(found, error, t)

(* Every call of a provider and of a tool has a timeout. *)
CcSpec == CcInit /\ [][CcNext]_ccVars /\ WF_ccVars(CcNext)

-----------------------------------------------------------------------------
(* An answer is written from files that a tool without an error has found, and never from what a  *)
(* loop that lost its providers or its time had gathered.                                         *)
ServedIsFound ==
    ccPhase = "served" =>
        /\ ccCited # <<>> /\ Range(ccCited) \intersect ccFailed = {}
        /\ ccReason \in {"none", "invalid_json", "budget_exhausted"}

(* The overall timeout is looked at between rounds and each call has a timeout of its own: a *)
(* search outlasts it by what one round can take and no more.                                  *)
OvershootIsBounded == ccTime < OverallTime + (CcProviders + 1) * CallTime

(* Whatever the providers and the tools do, the search comes to an answer or to the index. *)
RetrievalIsOver == ccPhase \in {"served", "index"}
=============================================================================
