----------------------------- MODULE SandboxFiles -----------------------------
(***************************************************************************)
(* services/sandbox.py: the working copy of a task, made from the source   *)
(* repository, patched by the first strategy that works, and brought back  *)
(* to a snapshot when a run is resumed over half-applied changes           *)
(* (orchestrator/service.py, _prepare_develop_resume).                     *)
(*                                                                         *)
(* A file holds the patch that was last written to it; 0 is the original.  *)
(* A source directory without .git is copied by hard links: source and     *)
(* sandbox share a file until something replaces it in the sandbox.        *)
(***************************************************************************)
EXTENDS Integers, Sequences, FiniteSets

CONSTANTS
    Files,          \* tracked files of the repository
    NewFiles,       \* files patches may create
    MaxPatches,     \* bound: patches applied
    MaxBoxFaults    \* bound: interruptions, failed commits and failed removals

ASSUME SandboxAssumption ==
    /\ Files \cap NewFiles = {}
    /\ MaxPatches \in Nat /\ MaxBoxFaults \in Nat

VARIABLES
    source,      \* content of the files of the source repository
    box,         \* content of the working tree, Gone for no such file
    linked,      \* files of the sandbox that are still the source's
    boxPhase,    \* what the sandbox is doing
    patch,       \* the call of apply_patch: commit, strict_only
    history,     \* commits: the tree each holds
    snapshot,    \* the commit the checkpoint names, 0 for none
    patches,     \* calls so far
    lenient,     \* some of them were not strict_only
    boxFaults

boxVars == <<source, box, linked, boxPhase, patch, history, snapshot, patches, lenient, boxFaults>>

All == Files \cup NewFiles
Gone == -1
Content == -1..MaxPatches
Trees == [All -> Content]

(* git, python, p1: the strategies, in the order they are tried. *)
BoxPhases == {"absent", "ready", "git", "python", "p1", "applied", "stopped", "failed"}

BoxTypeOK ==
    /\ source \in [Files -> Content] /\ box \in Trees /\ linked \subseteq Files
    /\ boxPhase \in BoxPhases
    /\ patch \in [commit : BOOLEAN, strict : BOOLEAN]
    /\ history \in Seq(Trees)
    /\ snapshot \in Nat /\ snapshot <= Len(history)
    /\ patches \in 0..MaxPatches /\ lenient \in BOOLEAN /\ boxFaults \in 0..MaxBoxFaults

Empty == [f \in All |-> Gone]

BoxInit ==
    /\ source = [f \in Files |-> 0]
    /\ box = Empty /\ linked = {}
    /\ boxPhase = "absent" /\ history = <<>>
    /\ patch = [commit |-> TRUE, strict |-> TRUE]
    /\ snapshot = 0 /\ patches = 0 /\ lenient = FALSE /\ boxFaults = 0

Committed(f) == history # <<>> /\ history[Len(history)][f] # Gone
Clean == history # <<>> /\ box = history[Len(history)]
Fault == boxFaults < MaxBoxFaults /\ boxFaults' = boxFaults + 1

-----------------------------------------------------------------------------
(* clone: hard links where the source has no .git, except for files that cannot be *)
(* linked; copies otherwise.  Both end with a commit of what was copied.            *)
Clone ==
    /\ boxPhase = "absent"
    /\ box' = [f \in All |-> IF f \in Files THEN source[f] ELSE Gone]
    /\ linked' \in SUBSET Files
    /\ history' = <<box'>>
    /\ boxPhase' = "ready"
    /\ UNCHANGED <<source, patch, snapshot, patches, lenient, boxFaults>>

(* The patch of the develop pipeline is committed, after a checkpoint with snapshot_id; *)
(* the patches of the repairs stay in the working tree.                                  *)
BeginPatch(commit, strict) ==
    /\ boxPhase = "ready" /\ patches < MaxPatches
    /\ patches' = patches + 1
    /\ patch' = [commit |-> commit, strict |-> strict]
    /\ lenient' = (lenient \/ ~strict)
    /\ snapshot' = IF commit THEN Len(history) ELSE snapshot
    /\ boxPhase' = "git"
    /\ UNCHANGED <<source, box, linked, history, boxFaults>>

Patched(fs) == [f \in All |-> IF f \in fs THEN patches ELSE box[f]]

(* Mutant: git apply writes into the files there are. *)
TryGitInPlace(fs) ==
    /\ boxPhase \in {"git", "p1"}
    /\ box' = Patched(fs)
    /\ source' = [f \in Files |-> IF f \in fs \cap linked THEN patches ELSE source[f]]
    /\ \/ boxPhase' = "applied" /\ fs # {}
       \/ boxPhase = "git" /\ boxPhase' = IF patch.strict THEN "failed" ELSE "python"
       \/ boxPhase = "p1" /\ boxPhase' = "failed"
    /\ UNCHANGED <<linked, patch, history, snapshot, patches, lenient, boxFaults>>

(* git apply and patch write a new file and rename it over the old one.  A strategy    *)
(* that fails may have written some files, and the next one goes on from there; the    *)
(* four git strategies may be tried one after the other.                                *)
TryGit(fs) ==
    /\ boxPhase \in {"git", "p1"}
    /\ box' = Patched(fs) /\ linked' = linked \ fs
    /\ \/ boxPhase' = "applied" /\ fs # {}
       \/ boxPhase = "git" /\ boxPhase' = IF patch.strict THEN "failed" ELSE "python"
       \/ boxPhase = "p1" /\ boxPhase' = "failed"
    /\ UNCHANGED <<source, patch, history, snapshot, patches, lenient, boxFaults>>

(* target.write_text writes into the file there is. *)
TryPython(fs) ==
    /\ boxPhase = "python"
    /\ box' = Patched(fs)
    /\ source' = [f \in Files |-> IF f \in fs \cap linked THEN patches ELSE source[f]]
    /\ \/ boxPhase' = "applied" /\ fs # {}
       \/ boxPhase' = "p1"
    /\ UNCHANGED <<linked, patch, history, snapshot, patches, lenient, boxFaults>>

(* git add -A and git commit take in all the working tree holds, the leftovers of a *)
(* repair that failed too.                                                          *)
CommitPatch ==
    /\ boxPhase = "applied"
    /\ history' = IF patch.commit THEN Append(history, box) ELSE history
    /\ boxPhase' = "ready"
    /\ UNCHANGED <<source, box, linked, patch, snapshot, patches, lenient, boxFaults>>

(* The checkpoint that follows the patch. *)
NotePatched ==
    /\ boxPhase = "ready" /\ snapshot # Len(history)
    /\ snapshot' = Len(history)
    /\ UNCHANGED <<source, box, linked, boxPhase, patch, history, patches, lenient, boxFaults>>

(* The exit code of a failed commit only leaves after_sha at before_sha. *)
CommitIgnored ==
    /\ boxPhase = "applied" /\ patch.commit /\ Fault
    /\ boxPhase' = "ready"
    /\ UNCHANGED <<source, box, linked, patch, history, snapshot, patches, lenient>>

(* SandboxError: what was written stays.  A repair that fails is passed over; otherwise *)
(* the task fails, and the sandbox is left to be swept.                                  *)
RepairFailed ==
    /\ boxPhase = "failed" /\ ~patch.commit
    /\ boxPhase' = "ready"
    /\ UNCHANGED <<source, box, linked, patch, history, snapshot, patches, lenient, boxFaults>>

(* The process dies. *)
Die ==
    /\ boxPhase \in {"ready", "git", "python", "p1", "applied"} /\ Fault
    /\ boxPhase' = "stopped"
    /\ UNCHANGED <<source, box, linked, patch, history, snapshot, patches, lenient>>

(* Resume at the stage codegen: reset --hard restores what the commit has, clean -fd    *)
(* removes what is untracked.  Without a snapshot, or when git fails, the run fails.     *)
Reset == [f \in All |-> IF history[snapshot][f] # Gone \/ Committed(f)
                        THEN history[snapshot][f] ELSE box[f]]

Cleaned == [f \in All |-> IF history[snapshot][f] = Gone THEN Gone ELSE Reset[f]]

ResumeClean ==
    /\ boxPhase = "stopped" /\ Clean
    /\ boxPhase' = "ready"
    /\ UNCHANGED <<source, box, linked, patch, history, snapshot, patches, lenient, boxFaults>>

(* Mutant: the files a reset replaces are taken to be links still. *)
ResumeDirtyLinked ==
    /\ boxPhase = "stopped" /\ ~Clean
    /\ \/ /\ snapshot > 0
          /\ box' = Cleaned
          /\ history' = SubSeq(history, 1, snapshot)
          /\ boxPhase' = "ready"
       \/ boxPhase' = "failed" /\ UNCHANGED <<box, history>>
    /\ UNCHANGED <<source, linked, patch, snapshot, patches, lenient, boxFaults>>

ResumeDirty ==
    /\ boxPhase = "stopped" /\ ~Clean
    /\ \/ /\ snapshot > 0
          /\ box' = Cleaned
          /\ linked' = {f \in linked : Cleaned[f] = box[f]}
          /\ history' = SubSeq(history, 1, snapshot)
          /\ boxPhase' = "ready"
       \/ boxPhase' = "failed" /\ UNCHANGED <<box, linked, history>>
    /\ UNCHANGED <<source, patch, snapshot, patches, lenient, boxFaults>>

(* Mutant: the snapshot of the removed sandbox is kept. *)
TeardownKeepsSnapshot ==
    /\ boxPhase = "ready"
    /\ box' = Empty /\ linked' = {} /\ history' = <<>>
    /\ boxPhase' = "absent"
    /\ UNCHANGED <<source, snapshot, patch, patches, lenient, boxFaults>>

(* _reset_for_conformance_retry removes the sandbox, the next pass clones it anew. *)
Teardown ==
    /\ boxPhase = "ready"
    /\ box' = Empty /\ linked' = {} /\ history' = <<>> /\ snapshot' = 0
    /\ boxPhase' = "absent"
    /\ UNCHANGED <<source, patch, patches, lenient, boxFaults>>

(* A removal that stops at a file it cannot delete is passed over, and what is left of *)
(* the sandbox is patched.                                                              *)
TeardownStops(removed) ==
    /\ boxPhase = "ready" /\ Fault
    /\ box' = [f \in All |-> IF f \in removed THEN Gone ELSE box[f]]
    /\ linked' = linked \ removed
    /\ UNCHANGED <<source, boxPhase, patch, history, snapshot, patches, lenient>>

BoxNext ==
    \/ Clone \/ (\E commit, strict \in BOOLEAN : BeginPatch(commit, strict))
    \/ \E fs \in SUBSET All : TryGit(fs) \/ TryPython(fs) \/ TeardownStops(fs)
    \/ CommitPatch \/ NotePatched \/ CommitIgnored \/ RepairFailed \/ Die
    \/ ResumeClean \/ ResumeDirty \/ Teardown

BoxSpec == BoxInit /\ [][BoxNext]_boxVars

-----------------------------------------------------------------------------
(* The source repository is as it was, whatever is patched in the sandbox. *)
SourceUntouched == source = [f \in Files |-> 0]

(* Strict patches go through git alone and spare the source, links or not. *)
StrictSparesSource == ~lenient => SourceUntouched

(* A file that is still shared reads the same on both sides: whatever gave the sandbox  *)
(* a content of its own, patch, reset or removal, has broken the link.                   *)
LinkedIsShared == \A f \in linked : box[f] = source[f]

(* The sandbox and the source repository, whose files it links, agree where they are one file, *)
(* and strict patches spare the source.                                                          *)
SharedFilesAgree == StrictSparesSource /\ LinkedIsShared

(* A run resumed over half-applied changes works on the very tree of its checkpoint,     *)
(* new files and the leftovers of failed repairs included.                                *)
ResumeRestores ==
    [][boxPhase = "stopped" /\ boxPhase' = "ready" =>
          /\ box' = history'[Len(history')]
          /\ box # history[Len(history)] => box' = history[snapshot]]_boxVars
=============================================================================
