----------------------------- MODULE TaskWorkspace -----------------------------
(***************************************************************************)
(* The scratch directory of a task (services/task_workspace.py), what the  *)
(* develop pipeline writes to it (orchestrator/service.py, _workspace_...) *)
(* and the gate before the approval that reads it back                     *)
(* (services/evidence_chain.py).                                           *)
(*                                                                         *)
(* A write that raises is dropped without a word (_workspace_call).  The   *)
(* files survive the death of a job; what the job knew is put back from    *)
(* the checkpoint in the row of the task.  What models and searches answer *)
(* is a choice.  All the sources the pipeline writes count as strong.      *)
(***************************************************************************)
EXTENDS Integers, FiniteSets

CONSTANTS
    WsFiles,     \* files of the repository
    MaxWsFaults, \* bound: writes to the directory that raise
    MaxWsDeaths, \* bound: deaths of the job
    MaxAttempts  \* bound: diffs the code generator makes

ASSUME WorkspaceAssumption ==
    MaxWsFaults \in Nat /\ MaxWsDeaths \in Nat /\ MaxAttempts \in Nat \ {0}

VARIABLES
    wsIssue,  \* where the issue comes from, the files its text names, planned new files
    wsAt,     \* where the job stands, or what became of the task
    wsDisk,   \* the directory: intent, files of the manifest, diffs of the attempts
    wsRow,    \* the checkpoint: its stage and the pipeline state in it
    wsState,  \* pipeline state: index of the attempt, diff, flags
    wsKnown,  \* candidate files were found before the plan
    wsCounts  \* faults, deaths and diffs so far

wsVars == <<wsIssue, wsAt, wsDisk, wsRow, wsState, wsKnown, wsCounts>>

Changes == SUBSET WsFiles
States == [index : 0..MaxAttempts, diff : Changes, validated : BOOLEAN, capped : BOOLEAN,
           granted : BOOLEAN, backing : Changes]
WsStages == {"intake", "translate", "retrieve", "plan", "codegen", "compile",
             "awaiting_approval"}

WsRunning == {"intake", "translate", "context", "plan", "codegen", "compile", "gate", "ask"}
WsOver == {"released", "failed", "no_intent", "weak", "untracked", "claims", "mismatch"}

WsTypeOK ==
    /\ wsIssue \in [jira : BOOLEAN, named : Changes, new : Changes]
    /\ wsAt \in WsRunning \cup WsOver \cup {"resume", "cap", "approval", "swept"}
    /\ wsDisk \in [intent : {"none", "request", "issue"}, rows : Changes,
                  diffs : [1..MaxAttempts -> Changes]]
    /\ wsRow \in [stage : WsStages, state : States] /\ wsState \in States
    /\ wsKnown \in BOOLEAN
    /\ wsCounts \in [faults : 0..MaxWsFaults, deaths : 0..MaxWsDeaths, made : 0..MaxAttempts]

NoDisk == [intent |-> "none", rows |-> {}, diffs |-> [n \in 1..MaxAttempts |-> {}]]
NewState == [index |-> 0, diff |-> {}, validated |-> FALSE, capped |-> FALSE,
             granted |-> FALSE, backing |-> {}]

WsInit ==
    /\ wsIssue \in [jira : BOOLEAN, named : Changes, new : Changes]
    /\ wsAt = "intake" /\ wsDisk = NoDisk
    /\ wsRow = [stage |-> "intake", state |-> NewState] /\ wsState = NewState
    /\ wsKnown = FALSE /\ wsCounts = [faults |-> 0, deaths |-> 0, made |-> 0]

-----------------------------------------------------------------------------
WsGo(here, there) == wsAt = here /\ wsAt' = there

(* The directory becomes disk, or an exception of the write is swallowed. *)
Writes(disk) ==
    \/ wsDisk' = disk /\ UNCHANGED wsCounts
    \/ /\ wsCounts.faults < MaxWsFaults /\ UNCHANGED wsDisk
       /\ wsCounts' = [wsCounts EXCEPT !.faults = @ + 1]

(* The manifest is read, extended and replaced: one bad item loses them all. *)
WithEvidence(disk, files) == [disk EXCEPT !.rows = @ \cup files]

WsCheckpoint(stage) == wsRow' = [stage |-> stage, state |-> wsState']

WsKeepsTask == UNCHANGED <<wsIssue, wsKnown>>

WriteIntent ==
    /\ WsGo("intake", "translate")
    /\ Writes([wsDisk EXCEPT !.intent = "request"])
    /\ UNCHANGED wsState /\ WsCheckpoint("intake") /\ WsKeepsTask

WsTranslate ==
    /\ WsGo("translate", "context")
    /\ UNCHANGED <<wsDisk, wsState, wsCounts>> /\ WsCheckpoint("translate") /\ WsKeepsTask

(* What a search finds: evidence of the task only when the issue is not from Jira. *)
Prefetched(disk, found) == IF wsIssue.jira THEN disk ELSE WithEvidence(disk, found)

(* Mutant: the intent is not written again. *)
ReadIssueUnwritten ==
    /\ WsGo("context", "plan") /\ wsCounts.deaths = 0
    /\ \E found \in Changes :
           Writes(Prefetched(WithEvidence(wsDisk, wsIssue.named), found))
    /\ UNCHANGED wsState /\ WsCheckpoint("retrieve") /\ WsKeepsTask

(* The intent is written again with the body of the issue; the files it names are evidence. *)
ReadIssue ==
    /\ WsGo("context", "plan") /\ wsCounts.deaths = 0
    /\ \E found \in Changes :
           Writes(Prefetched(WithEvidence([wsDisk EXCEPT !.intent = "issue"], wsIssue.named),
                             found))
    /\ UNCHANGED wsState /\ WsCheckpoint("retrieve") /\ WsKeepsTask

(* A resumed job reads the issue, searches for either kind of it and writes no intent. *)
ReadIssueAgain ==
    /\ WsGo("context", "plan") /\ wsCounts.deaths > 0
    /\ \E found \in Changes : Writes(WithEvidence(wsDisk, found))
    /\ UNCHANGED wsState /\ WsCheckpoint("retrieve") /\ WsKeepsTask

(* The module that makes evidence of the candidate files does not exist: the import    *)
(* raises inside its own try.  A resumed job looks for no candidates.                   *)
MakePlan ==
    /\ WsGo("plan", "codegen")
    /\ wsKnown' \in IF wsCounts.deaths = 0 THEN BOOLEAN ELSE {wsKnown}
    /\ UNCHANGED <<wsIssue, wsDisk, wsState, wsCounts>> /\ WsCheckpoint("plan")

-----------------------------------------------------------------------------
(* The attempts. *)

Attempts(disk) == {n \in 1..MaxAttempts : disk.diffs[n] # {}}

(* The index stays in the pipeline state: the attempts of a state share a directory. *)
AttemptIndex(state) ==
    IF state.index > 0 THEN state.index
    ELSE 1 + Cardinality(Attempts(wsDisk))

(* Mutant: the diff after the repairs is not written to the directory. *)
ShowsUnwritten(diff) ==
    /\ wsState' = [wsState EXCEPT !.diff = diff, !.index = AttemptIndex(wsState)]
    /\ UNCHANGED <<wsDisk, wsCounts>>

(* The diff of the state is replaced, and with it the one in the directory. *)
Shows(diff) ==
    /\ wsState' = [wsState EXCEPT !.diff = diff, !.index = AttemptIndex(wsState)]
    /\ Writes([wsDisk EXCEPT !.diffs[AttemptIndex(wsState)] = diff])

Generate ==
    /\ WsGo("codegen", "compile")
    /\ wsCounts.made < MaxAttempts
    /\ \E diff \in Changes \ {{}} :
           /\ wsState' = [wsState EXCEPT !.diff = diff, !.index = AttemptIndex(wsState)]
           /\ wsDisk' = [wsDisk EXCEPT !.diffs[AttemptIndex(wsState)] = diff]
    /\ wsCounts' = [wsCounts EXCEPT !.made = @ + 1]
    /\ WsCheckpoint("codegen") /\ WsKeepsTask

(* The compiler passes; repairs may have changed more files, and the diff is taken anew. *)
CompilePasses ==
    /\ WsGo("compile", "gate")
    /\ \E diff \in Changes \ {{}} :
           IF diff = wsState.diff THEN UNCHANGED <<wsState, wsDisk, wsCounts>> ELSE Shows(diff)
    /\ WsCheckpoint("compile") /\ WsKeepsTask

(* Out of repair rounds: somebody is asked. *)
CapExceeded ==
    /\ WsGo("compile", "cap")
    /\ wsState' = [wsState EXCEPT !.capped = TRUE]
    /\ WsCheckpoint("awaiting_approval") /\ UNCHANGED <<wsDisk, wsCounts>> /\ WsKeepsTask

(* The sandbox may have been repaired by hand: the compiler runs again, and so does the gate. *)
GrantCap ==
    /\ WsGo("cap", "compile")
    /\ wsState' = [wsState EXCEPT !.capped = FALSE, !.validated = FALSE]
    /\ UNCHANGED <<wsDisk, wsRow, wsCounts>> /\ WsKeepsTask

(* Mutant: the gate stays passed. *)
RetryStaysValidated ==
    /\ WsGo("gate", "codegen") /\ wsCounts.made < MaxAttempts
    /\ wsState' = [wsState EXCEPT !.diff = {}]
    /\ UNCHANGED <<wsDisk, wsRow, wsCounts>> /\ WsKeepsTask

(* The conformance gate, which judges in each pass before this one, starts over with the code;  *)
(* the checkpoint is the one of the code that is dropped.                                         *)
WsRetry ==
    /\ WsGo("gate", "codegen") /\ wsCounts.made < MaxAttempts
    /\ wsState' = [wsState EXCEPT !.diff = {}, !.validated = FALSE]
    /\ UNCHANGED <<wsDisk, wsRow, wsCounts>> /\ WsKeepsTask

WsFails ==
    /\ wsAt \in WsRunning /\ wsAt' = "failed"
    /\ UNCHANGED <<wsDisk, wsRow, wsState, wsCounts>> /\ WsKeepsTask

-----------------------------------------------------------------------------
(* The gate. *)

(* Files of the attestation, which must be of the diff, and planned new files. *)
Excused(attested) == attested \cup wsIssue.new

IntentMissing == wsDisk.intent # "issue"
WeakEvidence == wsDisk.rows = {}
Untracked(excused) == wsState.diff \ (wsDisk.rows \cup excused)

GateDecides(verdict, excused) ==
    /\ wsAt = "gate" /\ ~wsState.validated
    /\ wsState' = [wsState EXCEPT !.validated = TRUE, !.backing = excused]
    /\ wsAt' = verdict
    /\ UNCHANGED <<wsDisk, wsRow, wsCounts>> /\ WsKeepsTask

(* The first finding that blocks. *)
GateRefuses ==
    \/ IntentMissing /\ GateDecides("no_intent", {})
    \/ ~IntentMissing /\ WeakEvidence /\ GateDecides("weak", {})
    \/ /\ ~IntentMissing /\ ~WeakEvidence
       /\ \E attested \in SUBSET wsState.diff :
              Untracked(Excused(attested)) # {} /\ GateDecides("untracked", Excused(attested))

(* The model's claims are too few that are confident and cite evidence. *)
ClaimsRefuse == ~IntentMissing /\ ~WeakEvidence /\ GateDecides("claims", {})

(* The attestation names a file that is not in the diff. *)
AttestationRefuses ==
    /\ ~IntentMissing /\ ~WeakEvidence
    /\ \E attested \in Changes :
           ~attested \subseteq wsState.diff /\ GateDecides("mismatch", Excused(attested))

GateCloses ==
    /\ ~IntentMissing /\ ~WeakEvidence
    /\ \E attested \in SUBSET wsState.diff :
           Untracked(Excused(attested)) = {} /\ GateDecides("ask", Excused(attested))

(* In the pass after the grant. *)
GateSkipped ==
    /\ WsGo("gate", "ask") /\ wsState.validated
    /\ UNCHANGED <<wsDisk, wsRow, wsState, wsCounts>> /\ WsKeepsTask

AskJira ==
    /\ WsGo("ask", "approval") /\ ~wsState.granted
    /\ UNCHANGED <<wsDisk, wsState, wsCounts>> /\ WsCheckpoint("awaiting_approval") /\ WsKeepsTask

(* The pipeline runs again, over its cached results up to the conformance gate. *)
GrantJira ==
    /\ WsGo("approval", "gate")
    /\ wsState' = [wsState EXCEPT !.granted = TRUE]
    /\ UNCHANGED <<wsDisk, wsRow, wsCounts>> /\ WsKeepsTask

Release ==
    /\ WsGo("ask", "released") /\ wsState.granted
    /\ UNCHANGED <<wsDisk, wsRow, wsState, wsCounts>> /\ WsKeepsTask

-----------------------------------------------------------------------------
WsDie ==
    /\ wsAt \in WsRunning \ {"intake"} /\ wsCounts.deaths < MaxWsDeaths
    /\ wsAt' = "resume" /\ wsState' = wsRow.state
    /\ wsCounts' = [wsCounts EXCEPT !.deaths = @ + 1]
    /\ UNCHANGED <<wsDisk, wsRow>> /\ WsKeepsTask

(* The patch and what compiles are cached with the code they are about; a checkpoint of an   *)
(* approval is not resumed, and the watchdog fails the task.                                     *)
WsResumesAt == [intake |-> "translate", translate |-> "context", retrieve |-> "plan",
                plan |-> "codegen", codegen |-> "compile", compile |-> "gate",
                awaiting_approval |-> "failed"]

(* Mutant: a job that had only its intent is not resumed. *)
WsResumeLater ==
    /\ wsAt = "resume" /\ wsRow.stage # "intake"
    /\ wsAt' = WsResumesAt[wsRow.stage]
    /\ UNCHANGED <<wsDisk, wsRow, wsState, wsCounts>> /\ WsKeepsTask

WsResume ==
    /\ wsAt = "resume"
    /\ wsAt' = WsResumesAt[wsRow.stage]
    /\ UNCHANGED <<wsDisk, wsRow, wsState, wsCounts>> /\ WsKeepsTask

(* At a start of the process, long after the task has ended. *)
Sweep ==
    /\ wsAt \in WsOver /\ wsAt' = "swept"
    /\ wsDisk' = NoDisk
    /\ UNCHANGED <<wsRow, wsState, wsCounts>> /\ WsKeepsTask

WsStep ==
    \/ WriteIntent \/ WsTranslate \/ ReadIssue \/ ReadIssueAgain \/ MakePlan
    \/ Generate \/ CompilePasses \/ CapExceeded \/ WsRetry \/ WsFails
    \/ GateRefuses \/ ClaimsRefuse \/ AttestationRefuses \/ GateCloses \/ GateSkipped
    \/ AskJira \/ Release \/ WsResume

WsNext == WsStep \/ GrantCap \/ GrantJira \/ WsDie \/ Sweep

(* Every stage ends; the approvals are somebody's to give. *)
WsSpec == WsInit /\ [][WsNext]_wsVars /\ WF_wsVars(WsStep)

-----------------------------------------------------------------------------
(* Who is asked for the Jira approval is asked about a diff of which every file is backed *)
(* by a row of the manifest, by the attestation or by the plan, for an issue on record,   *)
(* whatever was repaired, retried, granted or resumed before; and the task is released    *)
(* with such a diff, even if the code was made again after the grant.                      *)
DiffIsBacked ==
    wsAt \in {"approval", "released"} =>
        /\ wsDisk.intent = "issue"
        /\ wsState.diff # {} /\ wsState.diff \subseteq wsDisk.rows \cup wsState.backing

(* The diff in the directory of the attempt is the one the approval shows, when no write  *)
(* failed and no job died.                                                                  *)
AttemptIsShown ==
    wsAt \in {"approval", "released"} /\ wsCounts.faults = 0 /\ wsCounts.deaths = 0 =>
        wsDisk.diffs[wsState.index] = wsState.diff

(* Without a death or a failed write, a task whose issue was read is not refused for want *)
(* of its intent.                                                                           *)
RefusedForReason ==
    wsAt = "no_intent" => wsCounts.faults > 0 \/ wsCounts.deaths > 0

(* Who is asked is asked about a diff that is backed and kept, and who is refused was not     *)
(* forgotten.                                                                                *)
AskedIsBacked == DiffIsBacked /\ AttemptIsShown /\ RefusedForReason

(* The pipeline comes to an end or waits for somebody. *)
WorkIsOver == wsAt \in WsOver \cup {"cap", "approval", "swept"}
=============================================================================
