------------------------------ MODULE ToolGateway ------------------------------
(***************************************************************************)
(* The tool gateway (tools/gateway.py): every tool call of a task leaves a *)
(* ToolExecution row, waits for an approval when its category asks for one,*)
(* and is attempted again after a retryable failure.                       *)
(*                                                                         *)
(* The gateway only flushes.  What it writes is visible to other sessions  *)
(* (a rollback, an operator) when the next record_event commits, and it is *)
(* gone when the process dies before that or when record_event rolls the   *)
(* session back on a locked database.  So `row` is what the session of the *)
(* pipeline sees and `kept` is what is committed.                          *)
(*                                                                         *)
(* The outside world is what the calls have done to it: `effects`, in the  *)
(* order in which it happened, `tree`, the commits of the sandbox, and      *)
(* `left`, what its working tree holds besides: a patch may be applied in   *)
(* part before it is refused, and git may fail to commit one that was.      *)
(***************************************************************************)
EXTENDS Integers, Sequences, FiniteSets

CONSTANTS
    Guarded,     \* tools whose category is APPROVAL_REQUIRED, after overrides
    RetryCount,  \* jira_retry_count, internal_api_retry_count
    Approvals,   \* approval rows that may be created
    None,        \* approval_id is None
    MaxRows      \* bound: ToolExecution rows of the task

Comment == "jira.add_comment"
Transition == "jira.transition_issue"
Request == "internal_api.request"
Patch == "sandbox.apply_patch"
Tools == {Comment, Transition, Request, Patch}

ASSUME GatewayAssumption ==
    /\ Guarded \subseteq Tools
    /\ RetryCount \in Nat /\ MaxRows \in Nat
    /\ None \notin Approvals

VARIABLES
    row,      \* ToolExecution rows as the session of the pipeline sees them
    kept,     \* the committed rows
    gate,     \* approval rows
    call,     \* the call the pipeline is in
    effects,  \* what calls did outside, in order
    tree,     \* HEAD of the sandbox, as the rows whose patches it contains
    left      \* changes of the working tree that are not in HEAD

gatewayVars == <<row, kept, gate, call, effects, tree, left>>

Rows == 1..MaxRows

RowStatuses == {"absent", "RUNNING", "PENDING_APPROVAL", "SUCCEEDED", "FAILED",
                "TIMED_OUT"}
(* withdrawn: CANCELLED written over a grant, which the event log still tells. *)
GateStatuses == {"unused", "flushed", "pending", "granted", "rejected", "cancelled", "withdrawn"}
Phases == {"none", "lookup", "post", "confirm", "failed", "returned", "raised", "gated"}

Row == [tool : Tools, appr : Approvals \cup {None}, status : RowStatuses,
        attempts : Nat, inverse : {"none", "git_revert", "placeholder"},
        before : Seq(Rows)]

(* `row` 0: the session has lost the row, so what is written to it is lost. *)
Call == [phase : Phases, row : Rows \cup {0}, tool : Tools,
         appr : Approvals \cup {None}, attempt : Nat,
         retryable : BOOLEAN, timedOut : BOOLEAN]

(* edits: changes of files git knows, from HEAD or from its index; files: untracked ones. *)
Leftovers == {"edits", "files"}

Effect == [tool : Tools, row : Rows \cup {0}, appr : Approvals \cup {None}]

GatewayTypeOK ==
    /\ row \in [Rows -> Row] /\ kept \in [Rows -> Row]
    /\ gate \in [Approvals -> GateStatuses]
    /\ call \in Call
    /\ effects \in Seq(Effect)
    /\ tree \in Seq(Rows) /\ left \subseteq Leftovers

NoRow == [tool |-> Request, appr |-> None, status |-> "absent", attempts |-> 0,
          inverse |-> "none", before |-> <<>>]
NoCall == [phase |-> "none", row |-> 0, tool |-> Request, appr |-> None,
           attempt |-> 0, retryable |-> FALSE, timedOut |-> FALSE]

(* The approvals there are at first are the business of the task. *)
GatewayInit ==
    /\ row = [i \in Rows |-> NoRow] /\ kept = row
    /\ call = NoCall
    /\ effects = <<>> /\ tree = <<>> /\ left = {}

-----------------------------------------------------------------------------
(* What a commit of the session of the pipeline, and the loss of one, make of the rows. *)

CommitGate == [a \in Approvals |-> IF gate[a] = "flushed" THEN "pending" ELSE gate[a]]
DropGate == [a \in Approvals |-> IF gate[a] = "flushed" THEN "unused" ELSE gate[a]]

Commit == kept' = row /\ gate' = CommitGate
RollBack == row' = kept /\ kept' = kept /\ gate' = DropGate

(* A write to the row of the call, unless the session has lost it. *)
Written(r, i, status, attempts) ==
    IF i = 0 THEN r
    ELSE [r EXCEPT ![i] = [@ EXCEPT !.status = status, !.attempts = attempts]]

Attempts(t) == IF t = Patch THEN 1 ELSE RetryCount + 1

FirstPhase(t) == IF t = Transition THEN "lookup" ELSE "post"

-----------------------------------------------------------------------------
(* _execute_with_span up to the loop.  The event TOOL_CALL_REQUESTED is      *)
(* committed just before, with whatever the session has pending.             *)

FreeRow(i) == row[i].status = "absent" /\ kept[i].status = "absent"
                /\ \A j \in Rows : j < i => ~(row[j].status = "absent" /\ kept[j].status = "absent")

(* A new approval has an id of its own, so which of the unused ones it takes does not matter. *)
Fresh(a) == gate[a] = "unused" /\ a = CHOOSE x \in Approvals : gate[x] = "unused"

(* _resume_pending_execution: the row a granted approval left waiting. *)
Resumable(t, a, i) ==
    a # None /\ row[i].status = "PENDING_APPROVAL" /\ row[i].appr = a /\ row[i].tool = t

Opened(t, a, i) == [NoCall EXCEPT !.row = i, !.tool = t, !.appr = a, !.attempt = 1]

ResumeCall(t, a) ==
    /\ call.phase = "none"
    /\ \E i \in Rows :
          /\ Resumable(t, a, i)
          /\ kept' = row /\ gate' = CommitGate
          /\ row' = [row EXCEPT ![i].status = "RUNNING"]
          /\ call' = [Opened(t, a, i) EXCEPT !.phase = FirstPhase(t)]
    /\ UNCHANGED <<effects, tree, left>>

(* Mutant: the category is not looked at. *)
PermittedAlways(t, a) == TRUE

(* Governance: a tool whose category is APPROVAL_REQUIRED runs with an approval_id. *)
Permitted(t, a) == t \in Guarded => a # None

NewCall(t, a) ==
    /\ call.phase = "none"
    /\ \A i \in Rows : ~Resumable(t, a, i)
    /\ Permitted(t, a)
    /\ \E i \in Rows :
          /\ FreeRow(i)
          /\ kept' = row /\ gate' = CommitGate
          /\ row' = [row EXCEPT ![i] = [NoRow EXCEPT !.tool = t, !.appr = a,
                                                     !.status = "RUNNING"]]
          /\ call' = [Opened(t, a, i) EXCEPT !.phase = FirstPhase(t)]
    /\ UNCHANGED <<effects, tree, left>>

(* ToolApprovalRequired: the row waits for a new approval; both are only flushed. *)
GatedCall(t) ==
    /\ call.phase = "none" /\ ~Permitted(t, None)
    /\ \E i \in Rows, a \in Approvals :
          /\ FreeRow(i) /\ Fresh(a)
          /\ kept' = row
          /\ row' = [row EXCEPT ![i] = [NoRow EXCEPT !.tool = t, !.appr = a,
                                                     !.status = "PENDING_APPROVAL"]]
          /\ gate' = [CommitGate EXCEPT ![a] = "flushed"]
          /\ call' = [Opened(t, a, i) EXCEPT !.phase = "gated"]
    /\ UNCHANGED <<effects, tree, left>>

OpenCall(t, a) == ResumeCall(t, a) \/ NewCall(t, a) \/ (a = None /\ GatedCall(t))

-----------------------------------------------------------------------------
(* _execute_once.  A request is one of: answered, refused or lost; a lost one *)
(* (timeout, broken connection) may have been carried out all the same.       *)

Raised(retryable, timedOut) ==
    [call EXCEPT !.phase = "failed", !.retryable = retryable, !.timedOut = timedOut]

(* GET the status and the transitions of the issue; no such transition is final. *)
LookupAnswered ==
    /\ call.phase = "lookup"
    /\ call' = [call EXCEPT !.phase = "post"]
    /\ UNCHANGED <<row, kept, gate, effects, tree, left>>

LookupFailed(retryable, timedOut) ==
    /\ call.phase \in {"lookup", "confirm"} /\ (timedOut => retryable)
    /\ call' = Raised(retryable, timedOut)
    /\ UNCHANGED <<row, kept, gate, effects, tree, left>>

(* git add -A and git commit take in what the patch and a refused one before it changed. *)
(* What they answer is not looked at: the patch counts as applied also when they failed. *)
Patched ==
    \/ tree' = Append(tree, call.row) /\ left' = {}
    \/ tree' \in {tree, Append(tree, call.row)} /\ left' \in SUBSET Leftovers \ {{}}

CarriedOut ==
    /\ effects' = Append(effects, [tool |-> call.tool, row |-> call.row, appr |-> call.appr])
    /\ IF call.tool = Patch /\ call.row # 0 THEN Patched ELSE UNCHANGED <<tree, left>>

(* The inverse the row of a success gets (_build_inverse_action). *)
InverseAction(t) == CASE t = Patch -> "git_revert"
                [] t \in {Comment, Transition} -> "placeholder"
                [] OTHER -> "none"

Succeeded ==
    /\ row' = IF call.row = 0 THEN row
              ELSE [row EXCEPT ![call.row] =
                       [@ EXCEPT !.status = "SUCCEEDED", !.attempts = call.attempt,
                                 !.inverse = InverseAction(call.tool), !.before = tree]]
    /\ call' = [call EXCEPT !.phase = "returned"]

PostAnswered ==
    /\ call.phase = "post"
    /\ CarriedOut
    /\ IF call.tool = Transition
       THEN call' = [call EXCEPT !.phase = "confirm"] /\ row' = row
       ELSE Succeeded
    /\ UNCHANGED <<kept, gate>>

(* GET the new status: a failure here raises although the issue was moved. *)
ConfirmAnswered ==
    /\ call.phase = "confirm"
    /\ Succeeded
    /\ UNCHANGED <<kept, gate, effects, tree, left>>

(* The appliers behind git apply change one file after the other: what they did before  *)
(* the last of them gave up stays.                                                       *)
Patching == call.phase = "post" /\ call.tool = Patch
MayLeave(l) == IF Patching THEN \E part \in SUBSET Leftovers : l = left \cup part ELSE l = left

PostRefused(retryable) ==
    /\ call.phase = "post" /\ (call.tool = Patch => ~retryable)
    /\ call' = Raised(retryable, FALSE)
    /\ MayLeave(left')
    /\ UNCHANGED <<row, kept, gate, effects, tree>>

PostLost(carriedOut, timedOut) ==
    /\ call.phase = "post" /\ call.tool # Patch
    /\ IF carriedOut THEN CarriedOut ELSE UNCHANGED <<effects, tree, left>>
    /\ call' = Raised(TRUE, timedOut)
    /\ UNCHANGED <<row, kept, gate>>

-----------------------------------------------------------------------------
(* The except branch of the loop. *)

(* Mutant: the retry count is compared with the wrong side. *)
AgainOnceMore == call.retryable /\ call.attempt <= Attempts(call.tool)

Again == call.retryable /\ call.attempt < Attempts(call.tool)

NextAttempt == [call EXCEPT !.phase = FirstPhase(call.tool), !.attempt = @ + 1,
                            !.retryable = FALSE, !.timedOut = FALSE]

(* TOOL_RETRY_SCHEDULED commits the row; the next attempt follows a pause. *)
Retry ==
    /\ call.phase = "failed" /\ Again
    /\ row' = Written(row, call.row, "RUNNING", call.attempt)
    /\ kept' = row'
    /\ gate' = CommitGate
    /\ call' = NextAttempt
    /\ UNCHANGED <<effects, tree, left>>

(* The same with the commit lost: a row that was never committed leaves the session. *)
RetryUnsaved ==
    /\ call.phase = "failed" /\ Again
    /\ RollBack
    /\ call' = IF call.row # 0 /\ kept[call.row].status = "absent"
               THEN [NextAttempt EXCEPT !.row = 0] ELSE NextAttempt
    /\ UNCHANGED <<effects, tree, left>>

(* Mutant: only a failure that is final ends the call. *)
GiveUpIfFinal ==
    /\ call.phase = "failed" /\ ~call.retryable
    /\ row' = Written(row, call.row, IF call.timedOut THEN "TIMED_OUT" ELSE "FAILED",
                      call.attempt)
    /\ call' = [call EXCEPT !.phase = "raised"]
    /\ UNCHANGED <<kept, gate, effects, tree, left>>

GiveUp ==
    /\ call.phase = "failed" /\ ~Again
    /\ row' = Written(row, call.row, IF call.timedOut THEN "TIMED_OUT" ELSE "FAILED",
                      call.attempt)
    /\ call' = [call EXCEPT !.phase = "raised"]
    /\ UNCHANGED <<kept, gate, effects, tree, left>>

GatewayStep ==
    \/ LookupAnswered \/ PostAnswered \/ ConfirmAnswered
    \/ \E r \in BOOLEAN : PostRefused(r)
    \/ \E b, o \in BOOLEAN : LookupFailed(b, o) \/ PostLost(b, o)
    \/ Retry \/ GiveUp
=============================================================================
