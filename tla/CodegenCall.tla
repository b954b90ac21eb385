------------------------------- MODULE CodegenCall -------------------------------
(***************************************************************************)
(* One call of CodeGenerator.generate_patch (services/codegen.py): the     *)
(* chain of providers, the attempts within one, the recovery from an       *)
(* EVIDENCE_GAP_REQUEST, and the validation of what comes back.            *)
(* CodegenBatches and CompileRepair take the whole call as one answer.     *)
(*                                                                         *)
(* Of a diff two facts matter: that its files are within the allowed set,  *)
(* and that self_validate takes it.                                        *)
(***************************************************************************)
EXTENDS Integers

CONSTANTS
    ChainLength,  \* providers in the chain
    MaxChecks     \* codegen_self_validation_max_retries

ASSUME CallAssumption == ChainLength \in Nat \ {0} /\ MaxChecks \in Nat

VARIABLES
    genSetup,     \* what the plan and the settings ask of the call
    genPhase,     \* where the call is
    genProvider,  \* provider_idx, from 1
    genAttempt,   \* attempt of _try_provider, from 1
    genFires,     \* _tool_loop_count
    genChecks,    \* sv_attempt
    genDiff,      \* the diff that came last
    genCalls      \* calls of a model until now

genVars == <<genSetup, genPhase, genProvider, genAttempt, genFires, genChecks, genDiff, genCalls>>

MaxGenAttempts == 3
MaxFires == 2
MostCalls == ChainLength * (1 + MaxGenAttempts + MaxChecks * MaxGenAttempts) + 2 * MaxFires

Diffs == [within : BOOLEAN, valid : BOOLEAN]
GenNoDiff == [within |-> FALSE, valid |-> FALSE]

(* A recipe answers for the providers, the agent loop is asked for them, or they are. *)
GenWays == {"recipe", "loop", "providers"}

GenTypeOK ==
    /\ genSetup \in [enforced : BOOLEAN,     \* the plan names files, and so an allowed set
                     validated : BOOLEAN,    \* the source is a git repository, and this is no repair
                     way : GenWays]          \* who answers
    /\ genPhase \in {"start", "try", "structural", "attempt", "swapped", "spans", "paths", "validate",
                     "returned", "raised"}
    /\ genProvider \in 1..ChainLength /\ genAttempt \in 1..MaxGenAttempts
    /\ genFires \in 0..MaxFires /\ genChecks \in 0..MaxChecks
    /\ genDiff \in Diffs /\ genCalls \in Nat

GenInit ==
    /\ genSetup \in [enforced : BOOLEAN, validated : BOOLEAN, way : GenWays]
    /\ genPhase = "start" /\ genProvider = 1 /\ genAttempt = 1
    /\ genFires = 0 /\ genChecks = 0 /\ genDiff = GenNoDiff /\ genCalls = 0

-----------------------------------------------------------------------------
(* A recipe answers: only the files of the diff are looked at. *)
Given(d) ==
    /\ genPhase = "start" /\ genSetup.way = "recipe"
    /\ genDiff' = d
    /\ genPhase' = IF genSetup.enforced /\ ~d.within THEN "raised" ELSE "returned"
    /\ UNCHANGED <<genSetup, genProvider, genAttempt, genFires, genChecks, genCalls>>

(* The agent loop never comes back with a diff: its result lacks what the caller reads. *)
LoopRaises ==
    /\ genPhase = "start" /\ genSetup.way = "loop"
    /\ genPhase' = "raised"
    /\ UNCHANGED <<genSetup, genProvider, genAttempt, genFires, genChecks, genDiff, genCalls>>

Begin ==
    /\ genPhase = "start" /\ genSetup.way = "providers"
    /\ genPhase' = "try"
    /\ UNCHANGED <<genSetup, genProvider, genAttempt, genFires, genChecks, genDiff, genCalls>>

(* Kotlin files go the structural way first, though not with a prompt of the validation. *)
TryProvider(structural) ==
    /\ genPhase = "try" /\ (structural => genChecks = 0)
    /\ genPhase' = IF structural THEN "structural" ELSE "attempt"
    /\ genAttempt' = 1
    /\ UNCHANGED <<genSetup, genProvider, genFires, genChecks, genDiff, genCalls>>

(* Any of the ways to ask a model has come back with a diff. *)
ModelAnswers(d) ==
    /\ genPhase \in {"structural", "attempt", "swapped", "spans"}
    /\ genDiff' = d /\ genPhase' = "paths" /\ genCalls' = genCalls + 1
    /\ UNCHANGED <<genSetup, genProvider, genAttempt, genFires, genChecks>>

(* An error that speaks of the provider, or seems to, passes the call on to the next one. *)
Fails(ofProvider) ==
    IF ofProvider /\ genProvider < ChainLength
    THEN genPhase' = "try" /\ genProvider' = genProvider + 1 /\ genChecks' = 0
    ELSE genPhase' = "raised" /\ UNCHANGED <<genProvider, genChecks>>

StructuralFails ==
    /\ genPhase = "structural"
    /\ genPhase' = "attempt" /\ genCalls' = genCalls + 1
    /\ UNCHANGED <<genSetup, genProvider, genAttempt, genFires, genChecks, genDiff>>

(* Mutant: one attempt more than the limit. *)
AttemptUnusableOnceMore(ofProvider) ==
    /\ genPhase = "attempt"
    /\ IF genAttempt <= MaxGenAttempts
       THEN genAttempt' = genAttempt + 1 /\ UNCHANGED <<genPhase, genProvider, genChecks>>
       ELSE genAttempt' = 1 /\ Fails(ofProvider)
    /\ genCalls' = genCalls + 1
    /\ UNCHANGED <<genSetup, genFires, genDiff>>

(* An answer that cannot be parsed, or a claim without evidence, is asked for again. *)
AttemptUnusable(ofProvider) ==
    /\ genPhase = "attempt"
    /\ IF genAttempt < MaxGenAttempts
       THEN genAttempt' = genAttempt + 1 /\ UNCHANGED <<genPhase, genProvider, genChecks>>
       ELSE genAttempt' = 1 /\ Fails(ofProvider)
    /\ genCalls' = genCalls + 1
    /\ UNCHANGED <<genSetup, genFires, genDiff>>

AttemptRaises(ofProvider) ==
    /\ genPhase = "attempt"
    /\ Fails(ofProvider)
    /\ genAttempt' = 1 /\ genCalls' = genCalls + 1
    /\ UNCHANGED <<genSetup, genFires, genDiff>>

(* Mutant: the recoveries are not counted. *)
AttemptGapUncounted(p) ==
    /\ genPhase = "attempt" /\ p \in {"swapped", "spans", "raised"}
    /\ genPhase' = p
    /\ genCalls' = genCalls + 1
    /\ UNCHANGED <<genSetup, genProvider, genAttempt, genFires, genChecks, genDiff>>

(* The model asks for code it was not shown: the view of the file is rebuilt around it, or, *)
(* failing that, the code is appended; the count of these is that of the whole call.          *)
AttemptGap(p) ==
    /\ genPhase = "attempt" /\ p \in {"swapped", "spans", "raised"}
    /\ IF genFires < MaxFires
       THEN genFires' = genFires + 1 /\ genPhase' = p
       ELSE genFires' = genFires /\ genPhase' = "raised"
    /\ genCalls' = genCalls + 1
    /\ UNCHANGED <<genSetup, genProvider, genAttempt, genChecks, genDiff>>

SwapFails(spans) ==
    /\ genPhase = "swapped"
    /\ genPhase' = IF spans THEN "spans" ELSE "raised"
    /\ genCalls' = genCalls + 1
    /\ UNCHANGED <<genSetup, genProvider, genAttempt, genFires, genChecks, genDiff>>

SpansFail ==
    /\ genPhase = "spans"
    /\ genPhase' = "raised" /\ genCalls' = genCalls + 1
    /\ UNCHANGED <<genSetup, genProvider, genAttempt, genFires, genChecks, genDiff>>

-----------------------------------------------------------------------------
(* _validate_diff_paths_within_allowed. *)
CheckPaths(ofProvider) ==
    /\ genPhase = "paths"
    /\ IF genSetup.enforced /\ ~genDiff.within
       THEN Fails(ofProvider)
       ELSE /\ genPhase' = IF genSetup.validated THEN "validate" ELSE "returned"
            /\ UNCHANGED <<genProvider, genChecks>>
    /\ UNCHANGED <<genSetup, genAttempt, genFires, genDiff, genCalls>>

(* Mutant: the last diff is returned whatever self_validate says. *)
ValidateGivesIn(ofProvider) ==
    /\ genPhase = "validate"
    /\ IF genDiff.valid \/ genChecks = MaxChecks
       THEN genPhase' = "returned" /\ UNCHANGED <<genProvider, genChecks>>
       ELSE genPhase' = "try" /\ genChecks' = genChecks + 1 /\ genProvider' = genProvider
    /\ UNCHANGED <<genSetup, genAttempt, genFires, genDiff, genCalls>>

(* Mutant: a diff that is refused for the last time is validated again. *)
ValidateAgain(ofProvider) ==
    /\ genPhase = "validate"
    /\ IF genDiff.valid
       THEN genPhase' = "returned" /\ UNCHANGED genChecks
       ELSE IF genChecks < MaxChecks
            THEN genPhase' = "try" /\ genChecks' = genChecks + 1
            ELSE genPhase' = "paths" /\ UNCHANGED genChecks
    /\ UNCHANGED <<genSetup, genProvider, genAttempt, genFires, genDiff, genCalls>>

(* self_validate; a diff it refuses is asked for again from the same provider. *)
Validate(ofProvider) ==
    /\ genPhase = "validate"
    /\ IF genDiff.valid
       THEN genPhase' = "returned" /\ UNCHANGED <<genProvider, genChecks>>
       ELSE IF genChecks < MaxChecks
            THEN genPhase' = "try" /\ genChecks' = genChecks + 1 /\ genProvider' = genProvider
            ELSE Fails(ofProvider)
    /\ UNCHANGED <<genSetup, genAttempt, genFires, genDiff, genCalls>>

-----------------------------------------------------------------------------
GenNext ==
    \/ LoopRaises \/ Begin \/ StructuralFails \/ SpansFail
    \/ \E d \in Diffs : Given(d) \/ ModelAnswers(d)
    \/ \E p \in {"swapped", "spans", "raised"} : AttemptGap(p)
    \/ \E x \in BOOLEAN :
          \/ TryProvider(x) \/ SwapFails(x) \/ CheckPaths(x) \/ Validate(x)
          \/ AttemptUnusable(x) \/ AttemptRaises(x)

(* Every call of a model has a timeout of its own. *)
GenSpec == GenInit /\ [][GenNext]_genVars /\ WF_genVars(GenNext)

-----------------------------------------------------------------------------
(* What providers have written is returned only after both validations, the diff of a retry, *)
(* of a recovery and of a fallback included.                                                   *)
ReturnedIsChecked ==
    genPhase = "returned" =>
        /\ genSetup.enforced => genDiff.within
        /\ genSetup.validated /\ genSetup.way # "recipe" => genDiff.valid

(* Retries, recoveries, validations and fallbacks together ask a bounded number of times; the *)
(* recoveries are counted over all providers.                                                   *)
CallsAreBounded == genCalls <= MostCalls

(* The call returns or raises. *)
CallIsOver == genPhase \in {"returned", "raised"}
=============================================================================
