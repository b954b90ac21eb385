------------------------------- MODULE CodegenCli -------------------------------
(***************************************************************************)
(* One call of a command-line agent that edits files itself                *)
(* (services/codegen.py: _call_claude_code with a worktree of the source   *)
(* repository or a temporary directory, _call_codex).                      *)
(*                                                                         *)
(* A text is what it was made from (the file, the truncated view the       *)
(* prompt shows, the model's words) and the attempt that last edited it, 0 *)
(* for none.  What an attempt edits, creates or deletes before it ends,    *)
(* fails or is killed is a choice.                                         *)
(***************************************************************************)
EXTENDS Integers, FiniteSets

CONSTANTS
    CliFiles,    \* files of the repository
    CliNew,      \* files it does not have
    CliRetries,  \* cli_max_retries
    MaxCliFaults \* bound: directories that cannot be removed

ASSUME CliAssumption ==
    CliFiles \cap CliNew = {} /\ CliRetries \in Nat /\ MaxCliFaults \in Nat

VARIABLES
    cliMode,   \* worktree, tempdir or codex; and whether it is told where the source is
    cliView,   \* the texts in the prompt
    cliAt,     \* what the call is doing
    cliDir,    \* the texts in the working directory
    cliTries,  \* attempts so far
    cliSaid,   \* files the last answer prints whole
    cliDiff,   \* the changes returned: from which text to which
    cliLeft,   \* what is left in the repository: worktree, branch
    cliFaults

cliVars == <<cliMode, cliView, cliAt, cliDir, cliTries, cliSaid, cliDiff, cliLeft, cliFaults>>

All == CliFiles \cup CliNew
Tries == 0..(CliRetries + 1)
CliTexts == [of : {"file", "view", "words", "nothing"}, try : Tries]

None == [of |-> "nothing", try |-> 0]
File == [of |-> "file", try |-> 0]
View == [of |-> "view", try |-> 0]
NoDiff == [f \in {} |-> [from |-> None, to |-> None]]
Steps == {"start", "run", "reset", "extract"}
CliOutcomes == {"returned", "raised"}

CliTypeOK ==
    /\ cliMode \in [kind : {"worktree", "tempdir", "codex"}, source : BOOLEAN]
    /\ cliView \in [All -> CliTexts] /\ cliDir \in [All -> CliTexts] /\ cliTries \in Tries
    /\ cliAt \in Steps \cup CliOutcomes \cup {"ended_returned", "ended_raised", "dead"}
    /\ cliSaid \subseteq All /\ cliLeft \subseteq {"worktree", "branch"}
    /\ DOMAIN cliDiff \subseteq All
    /\ \A f \in DOMAIN cliDiff : cliDiff[f] \in [from : CliTexts, to : CliTexts]
    /\ cliFaults \in 0..MaxCliFaults

Repository == [f \in All |-> IF f \in CliFiles THEN File ELSE None]
CliViews == {v \in [All -> {None, File, View}] : \A f \in CliNew : v[f] = None}

(* A worktree has a source. *)
CliInit ==
    /\ cliMode \in {m \in [kind : {"worktree", "tempdir", "codex"}, source : BOOLEAN] :
                        m.kind = "worktree" => m.source}
    /\ cliView \in CliViews /\ cliAt = "start" /\ cliDir = [f \in All |-> None]
    /\ cliTries = 0 /\ cliSaid = {} /\ cliDiff = NoDiff /\ cliLeft = {} /\ cliFaults = 0

-----------------------------------------------------------------------------
CliGo(here, there) == cliAt = here /\ cliAt' = there
CliKeeps == UNCHANGED <<cliMode, cliView>>
Ran == UNCHANGED <<cliDiff, cliLeft, cliFaults>>
CliAborts(here) ==
    /\ CliGo(here, "raised")
    /\ CliKeeps /\ Ran /\ UNCHANGED <<cliDir, cliTries, cliSaid>>

Shown == {f \in All : cliView[f] # None}

(* The text written for a file of the prompt: the one on the disk where there is a source. *)
Written(f) ==
    IF cliMode.kind = "tempdir" /\ cliMode.source THEN Repository[f] ELSE cliView[f]

AddWorktree ==
    /\ cliMode.kind = "worktree" /\ CliGo("start", "run")
    /\ cliDir' = Repository /\ cliLeft' = {"worktree", "branch"}
    /\ UNCHANGED <<cliTries, cliSaid, cliDiff, cliFaults>> /\ CliKeeps

MakeTempdir ==
    /\ cliMode.kind # "worktree" /\ CliGo("start", "run")
    /\ cliDir' = [f \in All |-> IF f \in Shown THEN Written(f) ELSE None]
    /\ UNCHANGED <<cliTries, cliSaid>> /\ CliKeeps /\ Ran

(* git worktree add fails, before or after it made the branch. *)
AddFails ==
    /\ cliMode.kind = "worktree" /\ CliGo("start", "raised")
    /\ cliLeft' \in {{}, {"branch"}}
    /\ UNCHANGED <<cliDir, cliTries, cliSaid, cliDiff, cliFaults>> /\ CliKeeps

-----------------------------------------------------------------------------
(* The attempts. *)

Edited(dir, edits, deletes, try) ==
    [f \in All |-> IF f \in deletes THEN None
                   ELSE IF f \in edits
                        THEN [of |-> IF dir[f].of = "nothing" THEN "words" ELSE dir[f].of,
                              try |-> try]
                        ELSE dir[f]]

(* Mutant: one attempt more than the limit. *)
MaxTriesOnceMore == IF cliMode.kind = "codex" THEN 1 ELSE 2 + CliRetries

MaxTries == IF cliMode.kind = "codex" THEN 1 ELSE 1 + CliRetries

Works ==
    /\ cliTries' = cliTries + 1
    /\ \E edits, deletes \in SUBSET All :
           /\ edits \cap deletes = {} /\ \A f \in deletes : cliDir[f] # None
           /\ cliDir' = Edited(cliDir, edits, deletes, cliTries')
    /\ CliKeeps /\ Ran

AttemptEnds ==
    /\ CliGo("run", "extract") /\ Works
    /\ cliSaid' \in IF cliMode.kind = "codex" THEN {{}} ELSE SUBSET All

(* Another exit code, or no end in time: the process is killed. *)
CliAttemptFails ==
    /\ cliAt = "run" /\ Works /\ UNCHANGED cliSaid
    /\ cliAt' = IF cliTries' < MaxTries THEN "reset" ELSE "raised"

(* Mutant: a worktree is not reset. *)
ResetDirOfViews ==
    IF cliMode.kind = "worktree" THEN cliDir
    ELSE [f \in All |-> IF f \in Shown THEN Written(f) ELSE cliDir[f]]

(* Files of the prompt are written again; git also removes what is new. *)
ResetDir ==
    IF cliMode.kind = "worktree" THEN Repository
    ELSE [f \in All |-> IF f \in Shown THEN Written(f) ELSE cliDir[f]]

CliReset ==
    /\ CliGo("reset", "run")
    /\ cliDir' = ResetDir
    /\ UNCHANGED <<cliTries, cliSaid>> /\ CliKeeps /\ Ran

(* Counts as an attempt that failed. *)
ResetFails ==
    /\ cliAt = "reset"
    /\ cliTries' = cliTries + 1
    /\ cliAt' = IF cliTries' < MaxTries THEN "reset" ELSE "raised"
    /\ UNCHANGED <<cliDir, cliSaid>> /\ CliKeeps /\ Ran

-----------------------------------------------------------------------------
(* The answer. *)

Change(from, to, files) == [f \in files |-> [from |-> from[f], to |-> to[f]]]

(* Mutant: new files are not added to the index. *)
GitChangesTracked == {f \in CliFiles : cliDir[f] # Repository[f]}

(* git diff HEAD, with the new files and without .claude. *)
GitChanges == {f \in All : cliDir[f] # Repository[f]}

(* The files that are there and differ from the prompt's. *)
ScannedChanges ==
    IF cliMode.kind = "worktree" THEN {f \in Shown : cliDir[f] # cliView[f]}
    ELSE {f \in All : cliDir[f] # None /\ cliDir[f] # cliView[f]}

Printed == [f \in All |-> [of |-> "words", try |-> cliTries]]

Returns(diff) ==
    /\ CliGo("extract", "returned")
    /\ cliDiff' = diff
    /\ UNCHANGED <<cliDir, cliTries, cliSaid, cliLeft, cliFaults>> /\ CliKeeps

ReturnGitDiff ==
    /\ cliMode.kind = "worktree" /\ GitChanges # {}
    /\ Returns(Change(Repository, cliDir, GitChanges))

NothingForGit == cliMode.kind = "worktree" => GitChanges = {}

ReturnScanned ==
    /\ NothingForGit /\ ScannedChanges # {}
    /\ Returns(Change(cliView, cliDir, ScannedChanges))

ReturnPrinted ==
    /\ NothingForGit /\ ScannedChanges = {} /\ cliSaid # {}
    /\ Returns(Change(cliView, Printed, cliSaid))

NoChange == NothingForGit /\ ScannedChanges = {} /\ cliSaid = {} /\ CliAborts("extract")

(* Mutant: the branch is not deleted. *)
CleanUpWorktree ==
    /\ cliAt \in CliOutcomes
    /\ cliAt' = IF cliAt = "returned" THEN "ended_returned" ELSE "ended_raised"
    /\ \/ cliLeft' = cliLeft \ {"worktree"} /\ UNCHANGED cliFaults
       \/ /\ cliFaults < MaxCliFaults /\ cliFaults' = cliFaults + 1 /\ UNCHANGED cliLeft
    /\ cliDir' = [f \in All |-> None] /\ cliSaid' = {}
    /\ UNCHANGED <<cliTries, cliDiff>> /\ CliKeeps

(* Mutant: only a call that returns is cleaned up after. *)
CleanUpReturned ==
    /\ cliAt = "returned" /\ cliAt' = "ended_returned"
    /\ \/ cliLeft' = {} /\ UNCHANGED cliFaults
       \/ /\ cliFaults < MaxCliFaults /\ cliFaults' = cliFaults + 1 /\ UNCHANGED cliLeft
    /\ cliDir' = [f \in All |-> None] /\ cliSaid' = {}
    /\ UNCHANGED <<cliTries, cliDiff>> /\ CliKeeps

(* In any case: the worktree, its directory and its branch are removed, each best effort. *)
CleanUp ==
    /\ cliAt \in CliOutcomes
    /\ cliAt' = IF cliAt = "returned" THEN "ended_returned" ELSE "ended_raised"
    /\ \/ cliLeft' = {} /\ UNCHANGED cliFaults
       \/ /\ cliFaults < MaxCliFaults /\ cliFaults' = cliFaults + 1 /\ UNCHANGED cliLeft
    /\ cliDir' = [f \in All |-> None] /\ cliSaid' = {}
    /\ UNCHANGED <<cliTries, cliDiff>> /\ CliKeeps

(* The process of the backend dies: nothing sweeps worktrees at a start. *)
CliDies ==
    /\ cliAt \in Steps /\ cliAt' = "dead"
    /\ UNCHANGED <<cliDir, cliTries, cliSaid>> /\ CliKeeps /\ Ran

CliStep ==
    \/ AddWorktree \/ MakeTempdir \/ AddFails
    \/ AttemptEnds \/ CliAttemptFails \/ CliReset \/ ResetFails
    \/ ReturnGitDiff \/ ReturnScanned \/ ReturnPrinted \/ NoChange \/ CleanUp

CliNext == CliStep \/ CliDies

(* Every process is waited for with a timeout. *)
CliSpec == CliInit /\ [][CliNext]_cliVars /\ WF_cliVars(CliStep)

-----------------------------------------------------------------------------
(* What an attempt that failed has edited is not returned; but in a temporary directory   *)
(* a file the prompt does not show stays.                                                   *)
LastTryOnly ==
    \A f \in DOMAIN cliDiff :
        cliMode.kind = "worktree" \/ f \in Shown => cliDiff[f].to.try \in {0, cliTries}

(* With a worktree, all that the attempt edited, created or deleted is returned, as       *)
(* changes of the files of the repository.                                                  *)
WorkIsReturned ==
    cliAt = "returned" /\ cliMode.kind = "worktree" /\ GitChanges # {} =>
        /\ DOMAIN cliDiff = {f \in All : cliDir[f].try > 0 \/ (f \in CliFiles /\ cliDir[f] = None)}
        /\ \A f \in DOMAIN cliDiff : cliDiff[f].from.of # "view"

(* A call that ends leaves no worktree and no branch in the repository of the source,      *)
(* unless they could not be removed.                                                        *)
NothingLeft == cliAt \in {"ended_returned", "ended_raised"} /\ cliFaults = 0 => cliLeft = {}

(* Every call returns or raises, unless its process dies. *)
CliIsOver == cliAt \in {"ended_returned", "ended_raised", "dead"}
=============================================================================
