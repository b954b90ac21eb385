----------------------------- MODULE CompileRepair -----------------------------
(***************************************************************************)
(* The compile gate and its repair rounds (orchestrator/service.py,        *)
(* _run_compile_repair_loop and _attempt_compile_repair): the gate runs,   *)
(* a round asks a model to repair some of the files with errors, one by    *)
(* one, within a deadline, and the gate runs again.  DevelopPipeline takes *)
(* the whole loop as one gate of a pass.                                   *)
(*                                                                         *)
(* A file is Fine or has an error; a repair of one file may give another   *)
(* an error or rid it of one.  The harness settings that choose between    *)
(* approval and failure at the end are a choice made there.                *)
(***************************************************************************)
EXTENDS Integers, Sequences, FiniteSets

CONSTANTS
    Sandboxed,       \* files of the sandbox, and NoName
    Messages,        \* what the compiler may say of a file
    NoName,          \* an error the compiler gives no file for
    Allowed,         \* allowed_paths: must_touch_files and expected_new_files
    FilesPerRound,   \* codegen_repair_files_per_round
    MaxRepairRounds  \* max_rounds

ASSUME RepairAssumption ==
    /\ NoName \in Sandboxed /\ Allowed \subseteq Sandboxed \ {NoName}
    /\ FilesPerRound \in Nat \ {0} /\ MaxRepairRounds \in Nat

VARIABLES
    repMode,     \* the compiler that is asked, and whether first_attempt_diff is there
    repTree,     \* the files as the compiler would find them
    repPhase,    \* where the loop is
    repRound,    \* round_index
    repErrors,   \* compile_errors of the gate before the round
    repQueue,    \* files this round has still to do, the one at work first
    repAttempt,  \* _repair_attempt of the file at work
    repTouched,  \* all_repair_touched
    repChanged,  \* files_changed
    repSame,     \* the consecutive tail of _failure_signature_history: signature and length
    repRetried,  \* compile_repair_intent_retry_<file>
    repDeeds     \* what repairs did, for the properties

repairVars == <<repMode, repTree, repPhase, repRound, repErrors, repQueue, repAttempt,
                repTouched, repChanged, repSame, repRetried, repDeeds>>

MaxSameFailure == 3
Fine == "fine"
Said == Messages \cup {Fine}
RepairTrees == [Sandboxed -> Said]
Named == Sandboxed \ {NoName}
NoErrors == [f \in Sandboxed |-> Fine]

\* Syntax checks of the changed files; the compiler of the verification profile, or its
\* absence.
Modes == [asks : {"syntax", "compiler", "absent"}, anchored : BOOLEAN]

RepVerdicts == {"passed", "errored", "failed", "approval", "stuck"}
Working == {"gate", "file", "call", "diff", "retry", "apply"}

RepairTypeOK ==
    /\ repMode \in Modes
    /\ repTree \in RepairTrees /\ repErrors \in RepairTrees
    /\ repPhase \in Working \cup RepVerdicts
    /\ repRound \in 0..MaxRepairRounds
    /\ repQueue \in Seq(Sandboxed) /\ repAttempt \in 0..2
    /\ repTouched \subseteq Named /\ repChanged \subseteq Named /\ repRetried \subseteq Named
    /\ repSame \in [signature : RepairTrees, times : 0..MaxSameFailure]
    /\ repDeeds \in [written : SUBSET Named,   \* files a repair wrote to
                     recent : SUBSET Named,    \* those since the tail began
                     cut : BOOLEAN]            \* a round ran out of time, or an apply failed midway

RepairInit ==
    /\ repMode \in Modes
    /\ repTree \in RepairTrees
    /\ repChanged \in SUBSET Named \ {{}}
    /\ repPhase = "gate" /\ repRound = 0 /\ repErrors = NoErrors
    /\ repQueue = <<>> /\ repAttempt = 0 /\ repTouched = {} /\ repRetried = {}
    /\ repSame = [signature |-> NoErrors, times |-> 0]
    /\ repDeeds = [written |-> {}, recent |-> {}, cut |-> FALSE]

-----------------------------------------------------------------------------
(* The gate.  The syntax checks look at the changed files only; the compiler at all. *)

Found == [f \in Sandboxed |-> IF repMode.asks = "compiler" \/ f \in repChanged THEN repTree[f] ELSE Fine]

(* Errors outside the allowed files are left out; an error without a file is not. *)
Repairable == [f \in Sandboxed |->
                  IF repMode.asks = "compiler" /\ f \notin Allowed \cup {NoName}
                  THEN Fine ELSE Found[f]]

Faulty(es) == {f \in Sandboxed : es[f] # Fine}

Unchecked == repMode.asks = "absent"

(* Mutant: errors outside the allowed files do not count. *)
RepGatePassesAllowed ==
    /\ repPhase = "gate" /\ (Unchecked \/ Repairable = NoErrors)
    /\ repErrors' = NoErrors /\ repPhase' = "passed"
    /\ UNCHANGED <<repMode, repTree, repRound, repQueue, repAttempt, repTouched, repChanged,
                   repSame, repRetried, repDeeds>>

(* Without its compiler the check is skipped, and that is a pass. *)
RepGatePasses ==
    /\ repPhase = "gate" /\ (Unchecked \/ Found = NoErrors)
    /\ repErrors' = NoErrors /\ repPhase' = "passed"
    /\ UNCHANGED <<repMode, repTree, repRound, repQueue, repAttempt, repTouched, repChanged,
                   repSame, repRetried, repDeeds>>

(* An exception of the check fails the task. *)
GateRaises ==
    /\ repPhase = "gate"
    /\ repPhase' = "failed"
    /\ UNCHANGED <<repMode, repTree, repRound, repErrors, repQueue, repAttempt, repTouched,
                   repChanged, repSame, repRetried, repDeeds>>

GateOutside ==
    /\ repPhase = "gate" /\ ~Unchecked /\ Found # NoErrors /\ Repairable = NoErrors
    /\ repPhase' = "errored"
    /\ UNCHANGED <<repMode, repTree, repRound, repErrors, repQueue, repAttempt, repTouched,
                   repChanged, repSame, repRetried, repDeeds>>

RepGateBlocks == repPhase = "gate" /\ ~Unchecked /\ Repairable # NoErrors

GateCapped ==
    /\ RepGateBlocks /\ repRound = MaxRepairRounds
    /\ repErrors' = Repairable /\ repPhase' \in {"approval", "failed"}
    /\ UNCHANGED <<repMode, repTree, repRound, repQueue, repAttempt, repTouched, repChanged,
                   repSame, repRetried, repDeeds>>

(* The first FilesPerRound of the errors, one for each file, in the compiler's order. *)
Orders(S) == {q \in UNION {[1..n -> S] : n \in 1..FilesPerRound} :
                 /\ \A i, j \in DOMAIN q : i # j => q[i] # q[j]
                 /\ Len(q) = FilesPerRound \/ Len(q) = Cardinality(S)}

(* Mutant: one round more than the limit. *)
GateFailsOnceMore ==
    /\ RepGateBlocks /\ repRound <= MaxRepairRounds
    /\ repErrors' = Repairable
    /\ repQueue' \in Orders(Faulty(Repairable))
    /\ repPhase' = "file" /\ repTouched' = {}
    /\ UNCHANGED <<repMode, repTree, repRound, repAttempt, repChanged, repSame, repRetried,
                   repDeeds>>

GateFails ==
    /\ RepGateBlocks /\ repRound < MaxRepairRounds
    /\ repErrors' = Repairable
    /\ repQueue' \in Orders(Faulty(Repairable))
    /\ repPhase' = "file" /\ repTouched' = {}
    /\ UNCHANGED <<repMode, repTree, repRound, repAttempt, repChanged, repSame, repRetried,
                   repDeeds>>

-----------------------------------------------------------------------------
(* One file after the other. *)

NextFile == repQueue' = Tail(repQueue) /\ repAttempt' = 0 /\ repPhase' = "file"

(* An error without a file is passed over. *)
SkipUnnamed ==
    /\ repPhase = "file" /\ repQueue # <<>> /\ Head(repQueue) = NoName
    /\ NextFile
    /\ UNCHANGED <<repMode, repTree, repRound, repErrors, repTouched, repChanged, repSame,
                   repRetried, repDeeds>>

(* file_started; a repair the harness or the structural path has made needs no attempt. *)
StartFile(fixed) ==
    /\ repPhase = "file" /\ repQueue # <<>> /\ Head(repQueue) # NoName
    /\ repPhase' = IF fixed THEN "diff" ELSE "call"
    /\ repAttempt' = 1
    /\ UNCHANGED <<repMode, repTree, repRound, repErrors, repQueue, repTouched, repChanged,
                   repSame, repRetried, repDeeds>>

(* The file is gone, the structural call ran into its timeout, an attempt did, or the    *)
(* answer holds no diff of this file: the next file, without another attempt.             *)
LeaveFile ==
    /\ repPhase = "call"
    /\ NextFile
    /\ UNCHANGED <<repMode, repTree, repRound, repErrors, repTouched, repChanged, repSame,
                   repRetried, repDeeds>>

AttemptFails ==
    /\ repPhase = "call"
    /\ IF repAttempt = 1 THEN repAttempt' = 2 /\ UNCHANGED <<repQueue, repPhase>> ELSE NextFile
    /\ UNCHANGED <<repMode, repTree, repRound, repErrors, repTouched, repChanged, repSame,
                   repRetried, repDeeds>>

AttemptAnswers ==
    /\ repPhase = "call"
    /\ repPhase' = "diff"
    /\ UNCHANGED <<repMode, repTree, repRound, repErrors, repQueue, repAttempt, repTouched,
                   repChanged, repSame, repRetried, repDeeds>>

(* The intent check: a diff that drops what the first attempt added gets one retry, *)
(* once in the life of the task.                                                      *)
DiffKeeps ==
    /\ repPhase = "diff"
    /\ repPhase' = "apply"
    /\ UNCHANGED <<repMode, repTree, repRound, repErrors, repQueue, repAttempt, repTouched,
                   repChanged, repSame, repRetried, repDeeds>>

DiffDrops ==
    /\ repPhase = "diff" /\ repMode.anchored
    /\ IF Head(repQueue) \in repRetried
       THEN NextFile /\ repRetried' = repRetried
       ELSE /\ repPhase' = "retry" /\ repRetried' = repRetried \cup {Head(repQueue)}
            /\ UNCHANGED <<repQueue, repAttempt>>
    /\ UNCHANGED <<repMode, repTree, repRound, repErrors, repTouched, repChanged, repSame,
                   repDeeds>>

(* The answer to the retry is checked in the same way; one that fails is the last. *)
RetryAnswers(drops) ==
    /\ repPhase = "retry"
    /\ IF drops THEN NextFile ELSE repPhase' = "apply" /\ UNCHANGED <<repQueue, repAttempt>>
    /\ UNCHANGED <<repMode, repTree, repRound, repErrors, repTouched, repChanged, repSame,
                   repRetried, repDeeds>>

Wrote(f) == [repDeeds EXCEPT !.written = @ \cup {f}, !.recent = @ \cup {f}]

(* The diff is cut down to the file at work; what it does to others is what they make of it. *)
Apply(x, g, y) ==
    /\ repPhase = "apply"
    /\ repTree' = [repTree EXCEPT ![g] = y, ![Head(repQueue)] = x]
    /\ repTouched' = repTouched \cup {Head(repQueue)}
    /\ repDeeds' = Wrote(Head(repQueue))
    /\ NextFile
    /\ UNCHANGED <<repMode, repRound, repErrors, repChanged, repSame, repRetried>>

(* The strategy that failed may have written the file. *)
ApplyFails(x) ==
    /\ repPhase = "apply"
    /\ repTree' = [repTree EXCEPT ![Head(repQueue)] = x]
    /\ repDeeds' = [Wrote(Head(repQueue)) EXCEPT !.cut = TRUE]
    /\ NextFile
    /\ UNCHANGED <<repMode, repRound, repErrors, repTouched, repChanged, repSame,
                   repRetried>>

-----------------------------------------------------------------------------
(* The end of a round. *)

(* The signature is that of the errors the gate found before the round. *)
Signed == IF repSame.times > 0 /\ repSame.signature = repErrors
          THEN [repSame EXCEPT !.times = @ + 1] ELSE [signature |-> repErrors, times |-> 1]

Unrepaired ==
    /\ repSame' = Signed
    /\ repRound' = repRound + 1
    /\ repPhase' = IF Signed.times = MaxSameFailure THEN "stuck" ELSE "gate"

(* Mutant: what a round repairs is not merged into files_changed. *)
EndRoundUnmerged ==
    /\ repPhase = "file" /\ repQueue = <<>>
    /\ IF repTouched # {}
       THEN /\ repSame' = [signature |-> NoErrors, times |-> 0]
            /\ repRound' = repRound + 1 /\ repPhase' = "gate"
            /\ repDeeds' = [repDeeds EXCEPT !.recent = {}]
       ELSE Unrepaired /\ UNCHANGED repDeeds
    /\ repTouched' = {}
    /\ UNCHANGED <<repMode, repTree, repErrors, repQueue, repAttempt, repChanged, repRetried>>

(* Mutant: every round counts as one that repaired nothing. *)
EndRoundSigned ==
    /\ repPhase = "file" /\ repQueue = <<>>
    /\ repChanged' = repChanged \cup repTouched
    /\ Unrepaired
    /\ repTouched' = {}
    /\ UNCHANGED <<repMode, repTree, repErrors, repQueue, repAttempt, repRetried, repDeeds>>

(* Mutant: rounds that repair something are not counted. *)
EndRoundUncounted ==
    /\ repPhase = "file" /\ repQueue = <<>>
    /\ IF repTouched # {}
       THEN /\ repChanged' = repChanged \cup repTouched
            /\ repSame' = [signature |-> NoErrors, times |-> 0]
            /\ repPhase' = "gate"
            /\ repDeeds' = [repDeeds EXCEPT !.recent = {}]
            /\ UNCHANGED repRound
       ELSE Unrepaired /\ UNCHANGED <<repChanged, repDeeds>>
    /\ repTouched' = {}
    /\ UNCHANGED <<repMode, repTree, repErrors, repQueue, repAttempt, repRetried>>

EndRound ==
    /\ repPhase = "file" /\ repQueue = <<>>
    /\ IF repTouched # {}
       THEN /\ repChanged' = repChanged \cup repTouched
            /\ repSame' = [signature |-> NoErrors, times |-> 0]
            /\ repRound' = repRound + 1 /\ repPhase' = "gate"
            /\ repDeeds' = [repDeeds EXCEPT !.recent = {}]
       ELSE Unrepaired /\ UNCHANGED <<repChanged, repDeeds>>
    /\ repTouched' = {}
    /\ UNCHANGED <<repMode, repTree, repErrors, repQueue, repAttempt, repRetried>>

(* The deadline is looked at before each file and each attempt; the files the round *)
(* has repaired until then are not reported.                                          *)
RoundTimesOut ==
    /\ \/ repPhase = "file" /\ repQueue # <<>>
       \/ repPhase = "call"
    /\ repQueue' = <<>> /\ repAttempt' = 0 /\ repTouched' = {}
    /\ Unrepaired
    /\ repDeeds' = [repDeeds EXCEPT !.cut = TRUE]
    /\ UNCHANGED <<repMode, repTree, repErrors, repChanged, repRetried>>

-----------------------------------------------------------------------------
RepairNext ==
    \/ RepGatePasses \/ GateRaises \/ GateOutside \/ GateCapped \/ GateFails
    \/ SkipUnnamed \/ (\E fixed \in BOOLEAN : StartFile(fixed))
    \/ LeaveFile \/ AttemptFails \/ AttemptAnswers \/ DiffKeeps \/ DiffDrops
    \/ \E drops \in BOOLEAN : RetryAnswers(drops)
    \/ \E x \in Said : ApplyFails(x) \/ \E g \in Sandboxed, y \in Said : Apply(x, g, y)
    \/ EndRound \/ RoundTimesOut

(* Every call of a model and every run of the compiler has a timeout. *)
RepairSpec == RepairInit /\ [][RepairNext]_repairVars /\ WF_repairVars(RepairNext)

-----------------------------------------------------------------------------
(* When the gate has passed, every file of the change compiles, those only a repair has *)
(* written included, unless there was no compiler to ask or a round was cut short.      *)
PassedCompiles ==
    repPhase = "passed" /\ ~Unchecked /\ ~repDeeds.cut =>
        \A f \in repChanged \cup repDeeds.written : repTree[f] = Fine

(* What repairs wrote is named in files_changed, from which the gate, the reviews and the  *)
(* diff an operator sees are made, unless a round was cut short.                            *)
RepairsAreNamed ==
    repPhase \in RepVerdicts /\ ~repDeeds.cut => repDeeds.written \subseteq repChanged

(* The loop gives up as stuck only when the rounds it counts repaired nothing. *)
StuckIsUnrepaired == repPhase = "stuck" /\ ~repDeeds.cut => repDeeds.recent = {}

(* A verdict comes, though models hang, answer nothing or break other files. *)
RepairIsOver == repPhase \in RepVerdicts
=============================================================================
