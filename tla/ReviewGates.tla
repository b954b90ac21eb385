------------------------------ MODULE ReviewGates ------------------------------
(***************************************************************************)
(* The gates after a patch compiles and the repairs they order             *)
(* (orchestrator/service.py, from the acceptance check to the request for  *)
(* the Jira approval).  A repair patches the sandbox, drops the results of *)
(* the gates and calls the pipeline anew from where it stands: inside the  *)
(* try of the semantic review, inside that of the runtime validation, or   *)
(* outside of any.  DevelopPipeline takes the passes as one loop; here     *)
(* they are the stack of calls they are, each with a pipeline_state of its *)
(* own, and any of them may raise.                                         *)
(*                                                                         *)
(* Code is a version number.  A diff is the number of the version it tells  *)
(* of, negative where it leaves files of it out.  What a gate finds is a    *)
(* choice.                                                                  *)
(***************************************************************************)
EXTENDS Integers, Sequences, FiniteSets

CONSTANTS
    RevBudget,    \* for each kind of repair and retry, how many one pipeline_state allows
    RevVersions   \* bound: versions of the code

\* refine: semantic_review_quality_refine_max_attempts; semantic: _SR_MAX_REPAIR;
\* runtime and reservation: their max_attempts; conformance: retries.
RevKinds == {"refine", "semantic", "runtime", "reservation", "conformance"}

ASSUME ReviewAssumption == RevBudget \in [RevKinds -> Nat] /\ RevVersions \in Nat \ {0}

VARIABLES
    revStack,     \* the calls of _execute_develop_pipeline, the innermost last
    revSaved,     \* pipeline_state in latest_result_json
    revTree,      \* the version in the sandbox
    revTells,     \* what git diff, limited to the paths of the task, tells of it
    revVerified,  \* the contract coverage verdict, without which no gates count as verified
    revStatus,    \* how the task stands
    revShown,     \* the diff an approval shows
    revJudged,    \* for each gate, the code or diff it has let through last, for the properties
    revMade,      \* repairs made, for the properties
    revLost       \* an exception ended a repair, or the pass after it, for the properties

revVars == <<revStack, revSaved, revTree, revTells, revVerified, revStatus, revShown, revJudged,
             revMade, revLost>>

\* acceptance: with the symbol graph; goals: failing test, goals and symbol references.
RevGates == <<"compile", "acceptance", "semantic", "runtime", "review", "conformance", "goals",
              "artifact", "evidence">>
RevGateSet == {RevGates[i] : i \in DOMAIN RevGates}
RevVersionSet == 0..RevVersions
Partly(version) == 0 - version
RevDiffs == Partly(RevVersions)..RevVersions

RevStates == [diff : RevDiffs, done : SUBSET RevGateSet, spent : [RevKinds -> Nat]]
RevFrames == [at : RevGateSet \cup {"jira"}, diff : RevDiffs, st : RevStates]
RevEnds == {"failed", "raised", "returned", "asked_semantic", "asked_reservation", "asked_jira"}

RevTypeOK ==
    /\ revStack \in Seq(RevFrames) /\ revSaved \in RevStates
    /\ revTree \in RevVersionSet /\ revTells \in RevDiffs /\ revShown \in RevDiffs
    /\ revVerified \in BOOLEAN
    /\ revStatus \in RevEnds \cup {"running"}
    /\ revJudged \in [RevGateSet -> RevDiffs]
    /\ revMade \in [RevKinds -> Nat] /\ revLost \in BOOLEAN

RevNewState == [diff |-> 1, done |-> {}, spent |-> [k \in RevKinds |-> 0]]

(* A call loads pipeline_state; its diff is a variable of its own from then on. *)
Call(st) == [at |-> "compile", diff |-> st.diff, st |-> st]

RevInit ==
    /\ revStack = <<Call(RevNewState)>> /\ revSaved = RevNewState
    /\ revTree = 1 /\ revTells = 1 /\ revShown = 0 /\ revStatus = "running"
    /\ revVerified \in BOOLEAN
    /\ revJudged = [g \in RevGateSet |-> 0]
    /\ revMade = [k \in RevKinds |-> 0] /\ revLost = FALSE

-----------------------------------------------------------------------------
Inner == revStack[Len(revStack)]
At(g) == revStatus = "running" /\ Inner.at = g
Fresh(g) == At(g) /\ g \notin Inner.st.done

(* Mutant: the last gate is followed by the end of the call. *)
AfterToEnd(g) ==
    LET i == CHOOSE j \in DOMAIN RevGates : RevGates[j] = g
    IN IF i = Len(RevGates) THEN "asked_jira" ELSE RevGates[i + 1]

After(g) == LET i == CHOOSE j \in DOMAIN RevGates : RevGates[j] = g
            IN IF i = Len(RevGates) THEN "jira" ELSE RevGates[i + 1]

Replaced(frame) == [revStack EXCEPT ![Len(revStack)] = frame]

(* All calls return at once: each returns what the one it made returns. *)
Ends(status) ==
    /\ revStatus' = status /\ revStack' = <<>>
    /\ UNCHANGED <<revSaved, revTree, revTells, revVerified, revJudged, revMade, revLost>>

(* Mutant: a call does not move on from a gate that is done. *)
CachedStays(g) == At(g) /\ g \in Inner.st.done /\ UNCHANGED revVars

(* A gate whose result is in pipeline_state is passed over. *)
Cached(g) ==
    /\ At(g) /\ g \in Inner.st.done
    /\ revStack' = Replaced([Inner EXCEPT !.at = After(g)])
    /\ UNCHANGED <<revSaved, revTree, revTells, revVerified, revStatus, revShown, revJudged,
                   revMade, revLost>>

(* A gate lets a version through, and pipeline_state is preserved. *)
LetsThrough(g, version) ==
    LET st == [Inner.st EXCEPT !.done = @ \cup {g}]
    IN /\ revStack' = Replaced([Inner EXCEPT !.at = After(g), !.st = st])
       /\ revSaved' = st
       /\ revJudged' = [revJudged EXCEPT ![g] = version]
       /\ UNCHANGED <<revTree, revTells, revVerified, revStatus, revShown, revMade, revLost>>

Blocks(g) == Fresh(g) /\ Ends("failed") /\ UNCHANGED revShown

-----------------------------------------------------------------------------
(* Repairs. *)

(* Mutant: no repair drops the result of the compile gate. *)
KeptByAndCompiled(kind) ==
    {"compile", "artifact"} \cup IF kind = "conformance" THEN {"acceptance", "semantic", "runtime"}
                                                         ELSE {"goals"}

(* What neither _reset_after_semantic_quality_refine nor _reset_for_conformance_retry names. *)
KeptBy(kind) == IF kind = "conformance" THEN {"acceptance", "semantic", "runtime", "artifact"}
                                        ELSE {"goals", "artifact"}

(* Mutant: the state of a reset starts to count anew. *)
ResetUncounted(st, kind, diff) ==
    [diff |-> diff, done |-> st.done \cap KeptBy(kind), spent |-> [k \in RevKinds |-> 0]]

Reset(st, kind, diff) ==
    [diff |-> diff, done |-> st.done \cap KeptBy(kind),
     spent |-> [st.spent EXCEPT ![kind] = @ + 1]]

MayRepair(kind) == Inner.st.spent[kind] < RevBudget[kind] /\ revTree < RevVersions

\* What git diff tells of the next version.  A conformance retry begins with a new patch.  A
\* repair by the findings of the semantic review may reach files that are not among the
\* paths of the diff, and such a file is left out of later diffs too, unless it is listed.
Reaching == {"refine", "semantic"}
TellsOf(kind) ==
    LET omits == kind \in Reaching \/ (kind # "conformance" /\ revTells # revTree)
    IN {revTree + 1}
       \cup (IF kind \in Reaching THEN {revTells} ELSE {})
       \cup (IF omits THEN {Partly(revTree + 1)} ELSE {})

(* codegen.generate_patch, sandbox.apply_patch, the refreshed diff, the reset, and the *)
(* pipeline once more.                                                                  *)
Repair(kind) ==
    \E diff \in TellsOf(kind) :
        LET st == Reset(Inner.st, kind, diff)
        IN /\ MayRepair(kind)
           /\ revTree' = revTree + 1 /\ revTells' = diff
           /\ revStack' = Append(Replaced([Inner EXCEPT !.st = st]), Call(st))
           /\ revSaved' = st
           /\ revMade' = [revMade EXCEPT ![kind] = @ + 1]
           /\ UNCHANGED <<revVerified, revStatus, revShown, revJudged, revLost>>

(* The patch needs an approval of its own. *)
ApplyIsGated ==
    /\ At("semantic") \/ At("runtime")
    /\ Fresh(Inner.at) /\ Ends("returned") /\ UNCHANGED revShown

-----------------------------------------------------------------------------
(* The gates. *)

\* The compile gate and the artifact check read the files, the others a diff.
CompilePass == Fresh("compile") /\ LetsThrough("compile", revTree)

AcceptancePass == Fresh("acceptance") /\ LetsThrough("acceptance", Inner.st.diff)

(* A check that raises lets the version through and is not done. *)
AcceptanceRaises ==
    /\ Fresh("acceptance")
    /\ revStack' = Replaced([Inner EXCEPT !.at = "semantic"])
    /\ revJudged' = [revJudged EXCEPT !["acceptance"] = Inner.st.diff]
    /\ UNCHANGED <<revSaved, revTree, revTells, revVerified, revStatus, revShown, revMade, revLost>>

(* The verdict, the cached verdict of another task, none, or one that does not block; a *)
(* repair that breaks off leaves the verdict as it was.                                   *)
SemanticPass == Fresh("semantic") /\ LetsThrough("semantic", Inner.st.diff)

SemanticAsks ==
    /\ Fresh("semantic") /\ Ends("asked_semantic") /\ revShown' = Inner.st.diff

VerifiedGates == revVerified /\ {"compile", "acceptance"} \subseteq Inner.st.done

QualityRefine == Fresh("semantic") /\ VerifiedGates /\ Repair("refine")
SemanticRepair == Fresh("semantic") /\ ~VerifiedGates /\ Repair("semantic")

(* The variable diff of the call is what is validated, reviewed and checked. *)
RuntimePass == Fresh("runtime") /\ LetsThrough("runtime", Inner.diff)
RuntimeRepair == Fresh("runtime") /\ Repair("runtime")

ReviewPass == Fresh("review") /\ LetsThrough("review", Inner.diff)

(* The report is kept as a payload, so a later call checks again. *)
ConformancePass ==
    /\ At("conformance") /\ LetsThrough("conformance", Inner.diff)
ConformanceRetry == At("conformance") /\ Repair("conformance")
ConformanceBlocks ==
    /\ At("conformance") /\ ~MayRepair("conformance")
    /\ Ends("failed") /\ UNCHANGED revShown

GoalsPass == Fresh("goals") /\ LetsThrough("goals", Inner.diff)
ArtifactPass == Fresh("artifact") /\ LetsThrough("artifact", revTree)

(* Skipped when it is off; raises when the check does. *)
EvidencePass == Fresh("evidence") /\ LetsThrough("evidence", Inner.diff)

(* Before the Jira approval: reservations that only a person may answer. *)
ReservationAsks == At("jira") /\ Ends("asked_reservation") /\ revShown' = Inner.st.diff
ReservationRepair == At("jira") /\ Repair("reservation")

(* Required repairs that were not made. *)
ReservationFails == At("jira") /\ Ends("failed") /\ UNCHANGED revShown
JiraAsks == At("jira") /\ Ends("asked_jira") /\ revShown' = Inner.st.diff

-----------------------------------------------------------------------------
(* Exceptions. *)

(* Up the stack to the try of a semantic review or of a runtime repair: the one says the *)
(* review is done and goes on, the other fails the task.                                   *)
Catchers(n) == {k \in 1..n : revStack[k].at \in {"semantic", "runtime"}}

PropagatesFrom(n) ==
    IF Catchers(n) = {}
    THEN Ends("raised")
    ELSE LET k == CHOOSE c \in Catchers(n) : \A d \in Catchers(n) : d <= c
             frame == revStack[k]
         IN IF frame.at = "runtime"
            THEN Ends("failed")
            ELSE /\ revStack' = Append(SubSeq(revStack, 1, k - 1),
                                       [frame EXCEPT !.at = "runtime",
                                                     !.st.done = @ \cup {"semantic"}])
                 /\ revLost' = TRUE
                 /\ UNCHANGED <<revSaved, revTree, revTells, revVerified, revStatus, revJudged,
                                revMade>>

(* The runtime validation itself may raise outside of its try. *)
Raises ==
    /\ revStatus = "running" /\ Inner.at # "acceptance"
    /\ PropagatesFrom(IF Inner.at = "runtime" THEN Len(revStack) - 1 ELSE Len(revStack))
    /\ UNCHANGED revShown

(* An exception after the patch and before its record. *)
SemanticRepairRaises ==
    /\ Fresh("semantic") /\ ~VerifiedGates /\ MayRepair("semantic")
    /\ revTree' = revTree + 1 /\ revTells' \in TellsOf("semantic")
    /\ revMade' = [revMade EXCEPT !["semantic"] = @ + 1]
    /\ revLost' = TRUE
    /\ revStack' = Replaced([Inner EXCEPT !.at = "runtime", !.st.done = @ \cup {"semantic"}])
    /\ UNCHANGED <<revSaved, revVerified, revStatus, revShown, revJudged>>

-----------------------------------------------------------------------------
RevNext ==
    \/ \E g \in RevGateSet \ {"conformance"} : Cached(g)
    \/ \E g \in RevGateSet \ {"conformance", "semantic"} : Blocks(g)
    \/ CompilePass \/ AcceptancePass \/ AcceptanceRaises
    \/ SemanticPass \/ SemanticAsks \/ QualityRefine \/ SemanticRepair
    \/ RuntimePass \/ RuntimeRepair \/ ReviewPass
    \/ ConformancePass \/ ConformanceRetry \/ ConformanceBlocks
    \/ GoalsPass \/ ArtifactPass \/ EvidencePass
    \/ ReservationAsks \/ ReservationRepair \/ ReservationFails \/ JiraAsks
    \/ ApplyIsGated \/ Raises \/ SemanticRepairRaises

(* Every gate and every call has a timeout. *)
RevSpec == RevInit /\ [][RevNext]_revVars /\ WF_revVars(RevNext)

-----------------------------------------------------------------------------
(* Whoever is asked for the Jira approval is shown all that git diff tells of the sandbox.  *)
(* The code there has compiled, and the gates whose result each repair drops have let what is *)
(* shown through; without a conformance retry so have those that only repairs reset.  It is   *)
(* the whole of the code if no repair went by the findings of the semantic review.  A lost     *)
(* exception ends this.                                                                         *)
ShownIsJudged ==
    revStatus = "asked_jira" /\ ~revLost =>
        /\ revShown = revTells
        /\ revJudged["compile"] = revTree
        /\ \A g \in {"review", "conformance", "evidence"} : revJudged[g] = revShown
        /\ revMade["conformance"] = 0 =>
               \A g \in {"acceptance", "semantic", "runtime"} : revJudged[g] = revShown
        /\ (\A kind \in Reaching : revMade[kind] = 0) => revShown = revTree

(* Repairs stay within their budgets across the nested calls, unless an exception was lost *)
(* and with it the count of the calls inside.                                                *)
RepairsAreBounded ==
    ~revLost => \A k \in RevKinds : revMade[k] <= RevBudget[k]

(* The task comes to a decision, however the calls nest and raise. *)
ReviewIsOver == revStatus # "running"
=============================================================================
