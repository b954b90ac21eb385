----------------------------- MODULE CodegenBatches -----------------------------
(***************************************************************************)
(* The codegen stage of a develop pass (orchestrator/service.py,           *)
(* _execute_develop_pipeline, and services/batch_coverage.py): the files   *)
(* of the plan are dealt into batches, each a call of a model in a worker  *)
(* of a pool; what the calls return is collected up to a deadline, late    *)
(* and lost ones once more, merged by batch and judged by coverage.        *)
(* DevelopPipeline takes the whole stage as one action.                    *)
(*                                                                         *)
(* A diff either changes the code of a file or only its comments.          *)
(***************************************************************************)
EXTENDS Integers, Sequences, FiniteSets

CONSTANTS
    Existing,     \* context files that exist, as a sequence
    MustTouch,    \* must_touch_files, all of them in Existing
    Stubs,        \* new files the context holds as empty stubs
    Planned,      \* expected_new_files without a stub, as a sequence
    ParallelMax,  \* codegen_parallel_max
    MaxRecovery,  \* batch_coverage_repair_max_attempts
    MaxRevivals   \* bound: restarts of the process

TargetFiles == MustTouch \cup Stubs \cup {Planned[i] : i \in DOMAIN Planned}
Existed == {Existing[i] : i \in DOMAIN Existing}

ASSUME BatchAssumption ==
    /\ Existing \in Seq(Existed) /\ Planned \in Seq(TargetFiles) /\ IsFiniteSet(Stubs)
    /\ MustTouch \subseteq Existed /\ TargetFiles # {}
    /\ Existed \cap (TargetFiles \ MustTouch) = {}
    /\ ParallelMax \in Nat \ {0} /\ MaxRecovery \in Nat /\ MaxRevivals \in Nat

VARIABLES
    batPhase,     \* where the stage is
    batCall,      \* batch |-> the state of its future
    batAnswer,    \* batch |-> what its worker returned
    batResults,   \* results_by_idx
    batOutcomes,  \* file |-> status in batch_outcomes_by_file
    batLost,      \* timed_out_batches that are still to be handled
    batKept,      \* timed_out_futures
    batMerged,    \* codegen_result: the files of the merged diff, and those whose code it changes
    batPast       \* what went before: repairs, restarts, an expired deadline

batVars == <<batPhase, batCall, batAnswer, batResults, batOutcomes, batLost, batKept, batMerged,
             batPast>>

-----------------------------------------------------------------------------
(* The batches. *)

Companions(n) == {Existing[i] : i \in {k \in DOMAIN Existing : k <= n}}

(* Each file to be touched is a batch of its own, in the order of the context. *)
OwnUpTo[n \in 0..Len(Existing)] ==
    IF n = 0 THEN <<>>
    ELSE IF Existing[n] \in MustTouch THEN Append(OwnUpTo[n - 1], {Existing[n]})
    ELSE OwnUpTo[n - 1]
OwnBatches == OwnUpTo[Len(Existing)]

Batches == (IF Stubs = {} THEN <<>> ELSE <<Stubs \cup Companions(3)>>)
           \o OwnBatches
           \o [i \in DOMAIN Planned |-> {Planned[i]} \cup Companions(2)]
Batch == DOMAIN Batches

TargetsIn(b) == Batches[b] \cap TargetFiles

(* What a call may return: a diff within the allowed files, of its own target and of new    *)
(* files alone when the batch has one file, or an error.                                     *)
Reach(b) == IF Cardinality(Batches[b]) = 1
            THEN Batches[b] \cup (TargetFiles \ MustTouch) ELSE TargetFiles
DiffsOf(S) == {d \in [kind : {"diff"}, files : SUBSET S, code : SUBSET S] : d.code \subseteq d.files}
Errors == {[kind |-> k, files |-> {}, code |-> {}] : k \in {"phantom", "verified", "error"}}
Nil == [kind |-> "none", files |-> {}, code |-> {}]
BatAnswers(b) == DiffsOf(Reach(b)) \cup Errors
AnyAnswer == DiffsOf(TargetFiles) \cup Errors \cup {Nil}

Judgements == {"passed", "failed", "approval", "raised"}
Statuses == {"uncovered", "phantom", "verified", "patched"}

BatTypeOK ==
    /\ batPhase \in {"collect", "expire", "late", "salvage", "judge", "drain"} \cup Judgements
    /\ batCall \in [Batch -> {"queued", "running", "done", "collected", "cancelled"}]
    /\ batAnswer \in [Batch -> AnyAnswer] /\ batResults \in [Batch -> AnyAnswer]
    /\ batOutcomes \in [TargetFiles -> Statuses]
    /\ batLost \subseteq Batch /\ batKept \subseteq batLost
    /\ batMerged \in {Nil} \cup DiffsOf(TargetFiles)
    /\ batPast \in [repairs : 0..MaxRecovery, revivals : 0..MaxRevivals, expired : BOOLEAN,
                    cached : BOOLEAN]   \* codegen_result was there when the pass began

BatFresh == [b \in Batch |-> Nil]

StageStarts ==
    /\ batPhase' = "collect"
    /\ batCall' = [b \in Batch |-> "queued"] /\ batAnswer' = BatFresh /\ batResults' = BatFresh
    /\ batOutcomes' = [f \in TargetFiles |-> "uncovered"]
    /\ batLost' = {} /\ batKept' = {} /\ batMerged' = Nil

BatInit ==
    /\ batPhase = "collect"
    /\ batCall = [b \in Batch |-> "queued"] /\ batAnswer = BatFresh /\ batResults = BatFresh
    /\ batOutcomes = [f \in TargetFiles |-> "uncovered"]
    /\ batLost = {} /\ batKept = {} /\ batMerged = Nil
    /\ batPast = [repairs |-> 0, revivals |-> 0, expired |-> FALSE, cached |-> FALSE]

-----------------------------------------------------------------------------
(* The workers. *)

Busy == {b \in Batch : batCall[b] = "running"}

WorkerStarts(b) ==
    /\ batCall[b] = "queued" /\ Cardinality(Busy) < ParallelMax
    /\ batCall' = [batCall EXCEPT ![b] = "running"]
    /\ UNCHANGED <<batPhase, batAnswer, batResults, batOutcomes, batLost, batKept, batMerged, batPast>>

WorkerEnds(b) ==
    /\ batCall[b] = "running"
    /\ batCall' = [batCall EXCEPT ![b] = "done"]
    /\ \E a \in BatAnswers(b) : batAnswer' = [batAnswer EXCEPT ![b] = a]
    /\ UNCHANGED <<batPhase, batResults, batOutcomes, batLost, batKept, batMerged, batPast>>

-----------------------------------------------------------------------------
(* Collecting.  The outcome of a file is that of the batch that was last to be collected. *)

StatusOf(a, f) ==
    CASE a.kind = "diff" -> IF f \in a.code THEN "patched" ELSE "uncovered"
      [] a.kind \in {"phantom", "verified"} -> a.kind
      [] OTHER -> "uncovered"

Classified(b, a) == [f \in TargetFiles |-> IF f \in Batches[b] THEN StatusOf(a, f) ELSE batOutcomes[f]]

Stored(b, a) == IF a.kind = "diff" THEN [batResults EXCEPT ![b] = a] ELSE batResults

Pending == {b \in Batch : batCall[b] \notin {"collected", "cancelled"}}

Collect(b) ==
    /\ batPhase = "collect" /\ batCall[b] = "done"
    /\ batOutcomes' = Classified(b, batAnswer[b]) /\ batResults' = Stored(b, batAnswer[b])
    /\ batCall' = [batCall EXCEPT ![b] = "collected"] /\ batAnswer' = [batAnswer EXCEPT ![b] = Nil]
    /\ UNCHANGED <<batPhase, batLost, batKept, batMerged, batPast>>

(* An event or a commit may raise; without an expired deadline the pool is then waited for. *)
CollectRaises ==
    /\ batPhase = "collect"
    /\ batPhase' = "drain"
    /\ batCall' = [b \in Batch |-> IF batCall[b] = "queued" THEN "cancelled" ELSE batCall[b]]
    /\ UNCHANGED <<batAnswer, batResults, batOutcomes, batLost, batKept, batMerged, batPast>>

(* Mutant: the pool is not waited for. *)
DrainedAtOnce ==
    /\ batPhase = "drain"
    /\ batPhase' = "raised"
    /\ UNCHANGED <<batCall, batAnswer, batResults, batOutcomes, batLost, batKept, batMerged, batPast>>

Drained ==
    /\ batPhase = "drain" /\ Busy = {}
    /\ batPhase' = "raised"
    /\ UNCHANGED <<batCall, batAnswer, batResults, batOutcomes, batLost, batKept, batMerged, batPast>>

Deadline ==
    /\ batPhase = "collect" /\ Pending # {}
    /\ batPhase' = "expire" /\ batPast' = [batPast EXCEPT !.expired = TRUE]
    /\ UNCHANGED <<batCall, batAnswer, batResults, batOutcomes, batLost, batKept, batMerged>>

(* One pending future after the other: one that runs is kept, another cancelled, which *)
(* means nothing to one that has ended meanwhile.                                        *)
Expire(b) ==
    /\ batPhase = "expire" /\ b \in Pending \ batLost
    /\ batLost' = batLost \cup {b}
    /\ batKept' = IF batCall[b] = "running" THEN batKept \cup {b} ELSE batKept
    /\ batCall' = IF batCall[b] = "queued" THEN [batCall EXCEPT ![b] = "cancelled"] ELSE batCall
    /\ batOutcomes' = Classified(b, Nil)
    /\ UNCHANGED <<batPhase, batAnswer, batResults, batMerged, batPast>>

Expired ==
    /\ batPhase = "expire" /\ Pending \subseteq batLost
    /\ batPhase' = "late"
    /\ UNCHANGED <<batCall, batAnswer, batResults, batOutcomes, batLost, batKept, batMerged, batPast>>

-----------------------------------------------------------------------------
(* Late results and salvage, in the order of the batches. *)

NextLost(b) == b \in batLost /\ \A c \in batLost : b <= c

(* Mutant: the diff of a late result is not stored. *)
HandledUnstored(b, a) ==
    /\ batOutcomes' = Classified(b, a) /\ UNCHANGED batResults
    /\ batLost' = batLost \ {b} /\ batKept' = batKept \ {b}

Handled(b, a) ==
    /\ batOutcomes' = Classified(b, a) /\ batResults' = Stored(b, a)
    /\ batLost' = batLost \ {b} /\ batKept' = batKept \ {b}

LateResult(b) ==
    /\ batPhase = "late" /\ NextLost(b) /\ b \in batKept /\ batCall[b] = "done"
    /\ LET a == batAnswer[b] IN Handled(b, IF a.files = {} /\ a.kind = "diff" THEN Nil ELSE a)
    /\ batCall' = [batCall EXCEPT ![b] = "collected"] /\ batAnswer' = [batAnswer EXCEPT ![b] = Nil]
    /\ UNCHANGED <<batPhase, batMerged, batPast>>

(* Mutant: the wait for a late result has no timeout. *)
LateWaits(b) ==
    /\ batPhase = "late" /\ NextLost(b) /\ b \in batKept /\ batCall[b] = "running"
    /\ UNCHANGED batVars

LateTimesOut(b) ==
    /\ batPhase = "late" /\ NextLost(b) /\ b \in batKept /\ batCall[b] = "running"
    /\ Handled(b, Nil)
    /\ UNCHANGED <<batPhase, batCall, batAnswer, batMerged, batPast>>

(* A call of its own, for the targets of the batch alone. *)
SalvageStarts(b) ==
    /\ batPhase = "late" /\ NextLost(b) /\ b \notin batKept
    /\ batPhase' = "salvage"
    /\ UNCHANGED <<batCall, batAnswer, batResults, batOutcomes, batLost, batKept, batMerged, batPast>>

(* Nil: it has run into its timeout. *)
SalvageEnds(b) ==
    /\ batPhase = "salvage" /\ NextLost(b)
    /\ \E a \in DiffsOf(TargetsIn(b)) \cup Errors \cup {Nil} :
          Handled(b, IF a.files = {} /\ a.kind = "diff" THEN Nil ELSE a)
    /\ batPhase' = "late"
    /\ UNCHANGED <<batCall, batAnswer, batMerged, batPast>>

-----------------------------------------------------------------------------
(* Merging: of a file that several results change, the first result counts. *)

Changing(f) == {b \in Batch : f \in batResults[b].files}
Earliest(f) == CHOOSE b \in Changing(f) : \A c \in Changing(f) : b <= c
MergedFiles == {f \in TargetFiles : Changing(f) # {}}
MergedDiff == [kind |-> "diff", files |-> MergedFiles,
               code |-> {f \in MergedFiles : f \in batResults[Earliest(f)].code}]

Merge ==
    /\ \/ batPhase = "collect" /\ Pending = {}
       \/ batPhase = "late" /\ batLost = {}
    /\ batPhase' = "judge"
    /\ batMerged' = IF MergedFiles = {} THEN Nil ELSE MergedDiff
    /\ batResults' = BatFresh
    /\ UNCHANGED <<batCall, batAnswer, batOutcomes, batLost, batKept, batPast>>

(* check_coverage.  What is said of a new file that was not made counts only when it is an error. *)
CoverageKind ==
    LET said(s) == {f \in TargetFiles : batOutcomes[f] = s}
    IN  CASE said("phantom") \cap MustTouch # {} -> "phantom"
          [] said("phantom") \cap MustTouch = {} /\ said("uncovered") # {} -> "missing"
          [] said("phantom") \cap MustTouch = {} /\ said("uncovered") = {}
             /\ said("verified") \cap MustTouch # {} -> "plan_codegen_conflict"
          [] OTHER -> "ok"

Judged(p) ==
    /\ batPhase' = p
    /\ UNCHANGED <<batCall, batAnswer, batResults, batOutcomes, batLost, batKept, batMerged, batPast>>

(* Mutant: one recovery more than allowed. *)
MayRecoverOnceMore ==
    CoverageKind \in {"missing", "plan_codegen_conflict"} /\ batPast.repairs <= MaxRecovery

(* _prepare_batch_coverage_repair_retry: the sandbox is reset and the stage starts again. *)
MayRecover == CoverageKind \in {"missing", "plan_codegen_conflict"} /\ batPast.repairs < MaxRecovery

RecoverCoverage ==
    /\ batPhase = "judge" /\ MayRecover
    /\ StageStarts
    /\ batPast' = [batPast EXCEPT !.repairs = @ + 1, !.expired = FALSE,
                                    !.cached = FALSE]

Uncoverable ==
    /\ batPhase = "judge" /\ ~MayRecover /\ (CoverageKind # "ok" \/ batMerged = Nil)
    /\ Judged("failed")

(* The contract gate goes first: a lie fails, what it cannot verify is asked about; what is *)
(* incomplete is asked about once coverage has passed.  It reads the results of the batches, *)
(* raises without them, and that is taken for no verdict.                                     *)
Covered(contracts) ==
    /\ batPhase = "judge" /\ batMerged # Nil /\ (batPast.cached => contracts = "fulfilled")
    /\ \/ contracts = "lie" /\ Judged("failed")
       \/ contracts = "unverified" /\ Judged("approval")
       \/ contracts = "incomplete" /\ CoverageKind = "ok" /\ Judged("approval")
       \/ contracts = "fulfilled" /\ CoverageKind = "ok" /\ Judged("passed")

(* A process that dies after the checkpoint resumes with the merged diff and the outcomes it *)
(* has saved; one that dies earlier starts again.                                             *)
DieAndResume ==
    /\ batPhase \notin Judgements /\ batPast.revivals < MaxRevivals
    /\ batPast' = [batPast EXCEPT !.revivals = @ + 1, !.expired = FALSE,
                                  !.cached = batPhase = "judge" /\ batMerged # Nil]
    /\ IF batPhase = "judge" /\ batMerged # Nil
       THEN /\ batCall' = [b \in Batch |-> "cancelled"] /\ batAnswer' = BatFresh
            /\ UNCHANGED <<batPhase, batResults, batOutcomes, batLost, batKept, batMerged>>
       ELSE StageStarts

-----------------------------------------------------------------------------
StageStep ==
    \/ Drained \/ Deadline \/ Expired \/ Merge \/ RecoverCoverage \/ Uncoverable
    \/ \E b \in Batch :
          Collect(b) \/ Expire(b) \/ LateResult(b) \/ LateTimesOut(b) \/ SalvageStarts(b)
          \/ SalvageEnds(b)
    \/ \E c \in {"lie", "unverified", "incomplete", "fulfilled"} : Covered(c)

BatNext ==
    \/ StageStep \/ CollectRaises \/ DieAndResume
    \/ \E b \in Batch : WorkerStarts(b) \/ WorkerEnds(b)

(* The stage has a timeout for everything it waits for but the end of the pool. *)
BatSpec == BatInit /\ [][BatNext]_batVars /\ WF_batVars(StageStep)

-----------------------------------------------------------------------------
(* What is recorded as patched is in the merged diff, in whatever order, and through whichever *)
(* of the three ways, the results came.                                                         *)
PatchedIsMerged ==
    batPhase \in {"judge", "passed"} => {f \in TargetFiles : batOutcomes[f] = "patched"} \subseteq batMerged.files

(* A stage that ends within its deadline leaves no call of a model behind. *)
NoStrayCall == batPhase \in Judgements /\ ~batPast.expired => Busy = {}

(* Whatever the models do, the stage ends, or waits for the pool it must close. *)
StageIsOver == batPhase \in Judgements \cup {"drain"}
=============================================================================
