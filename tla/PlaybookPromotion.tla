------------------------- MODULE PlaybookPromotion -------------------------
(***************************************************************************)
(* The learning loop's draft evidence (services/playbook_promotion.py, and *)
(* _record_playbook_promotion_candidate of orchestrator/service.py).  A    *)
(* pipeline that asks a person for an approval first writes a candidate    *)
(* into the workspace of its task, then counts the clean candidates with   *)
(* the same diff in the workspaces of all tasks, and writes the count as a *)
(* rollup.  Pipelines of different tasks do this at the same time; only    *)
(* then is the approval committed and decided.                             *)
(*                                                                         *)
(* A diff, the source and the domain of a candidate are one value; its     *)
(* quality score is above or below the floor.                              *)
(***************************************************************************)
EXTENDS Naturals, FiniteSets

CONSTANTS
  PrTasks,     \* the tasks
  Diffs,       \* what candidates are matched by
  MinVerified, \* min_verified_approvals
  MaxPrFaults  \* bound on deaths of the process and failed writes or reads

ASSUME PrAssumption == Diffs # {} /\ MinVerified \in Nat \ {0} /\ MaxPrFaults \in Nat

VARIABLES
  prTask,    \* where the pipeline of a task is, and the approval it asks for
  prFile,    \* playbook_promotion_candidate.json in the task's workspace
  prRollup,  \* playbook_promotion_rollup.json in the task's workspace
  prFaults

prVars == <<prTask, prFile, prRollup, prFaults>>

NoCandidate == [there |-> FALSE, clean |-> FALSE, low |-> FALSE, diff |-> CHOOSE d \in Diffs : TRUE]
NoRollup ==
  [there |-> FALSE, ready |-> FALSE, of |-> {}, whole |-> TRUE, diff |-> NoCandidate.diff]
Working == [at |-> "work", asks |-> "none", mine |-> NoCandidate, rollup |-> NoRollup,
            noted |-> FALSE]

PrInit ==
  /\ prTask = [t \in PrTasks |-> Working]
  /\ prFile = [t \in PrTasks |-> NoCandidate]
  /\ prRollup = [t \in PrTasks |-> NoRollup]
  /\ prFaults = 0

Goes(t, at) == prTask' = [prTask EXCEPT ![t].at = at]

(* Mutant: a candidate of low quality is marked as none. *)
CandidateIfGood(asks, gates, low, diff) ==
  [there |-> ~low, clean |-> asks = "jira" /\ gates, low |-> low, diff |-> diff]

(***************************************************************************)
(* The pipeline reaches an approval: the last one, of the Jira transition, *)
(* or one over blocking reservations or an unresolved semantic review.     *)
(* Only the first makes a clean candidate, and only when every hard gate   *)
(* has passed and nothing blocks.                                          *)
(***************************************************************************)
Candidate(asks, gates, low, diff) ==
  [there |-> TRUE, clean |-> asks = "jira" /\ gates, low |-> low, diff |-> diff]

WritesCandidate(t) ==
  /\ prTask[t].at = "work"
  /\ \E asks \in {"jira", "exception"}, gates, low \in BOOLEAN, diff \in Diffs :
       LET c == Candidate(asks, gates, low, diff)
       IN /\ low => c.clean
          /\ asks = "exception" => gates
          /\ prTask' = [prTask EXCEPT ![t] = [Working EXCEPT !.at = "count", !.asks = asks,
                                                             !.mine = c]]
          /\ prFile' = [prFile EXCEPT ![t] = c]
  /\ UNCHANGED <<prRollup, prFaults>>

(* Mutant: only the task's own workspace is searched. *)
LoadedOwn(t) == [u \in PrTasks |-> IF u = t THEN prTask[t].mine ELSE NoCandidate]

(* The candidates of all workspaces, the one in hand for the task's own.   *)
Loaded(t) == [u \in PrTasks |-> IF u = t THEN prTask[t].mine ELSE prFile[u]]

(* Mutant: blocked drafts count. *)
MatchesAll(t) == {u \in PrTasks : Loaded(t)[u].there /\ Loaded(t)[u].diff = prTask[t].mine.diff}

Matches(t) == {u \in PrTasks : /\ Loaded(t)[u].there /\ Loaded(t)[u].clean
                               /\ Loaded(t)[u].diff = prTask[t].mine.diff}

(* A candidate whose file cannot be read is left out without a word.        *)
Counts(t) ==
  /\ prTask[t].at = "count"
  /\ \E unread \in SUBSET (PrTasks \ {t}) :
       LET of == Matches(t) \ unread
           ready == Cardinality(of) >= MinVerified /\ \A u \in of : ~Loaded(t)[u].low
       IN /\ unread # {} => prFaults < MaxPrFaults
          /\ prFaults' = (IF unread = {} THEN prFaults ELSE prFaults + 1)
          /\ prTask' = [prTask EXCEPT
                           ![t].at = "store",
                           ![t].rollup = [there |-> TRUE, ready |-> ready, of |-> of,
                                          whole |-> unread = {}, diff |-> prTask[t].mine.diff]]
  /\ UNCHANGED <<prFile, prRollup>>

StoresRollup(t) ==
  /\ prTask[t].at = "store"
  /\ prRollup' = [prRollup EXCEPT ![t] = prTask[t].rollup]
  /\ prTask' = [prTask EXCEPT ![t].at = "commit", ![t].noted = TRUE, ![t].rollup = NoRollup]
  /\ UNCHANGED <<prFile, prFaults>>

(* Whatever fails in between is logged and the approval asked for all the  *)
(* same.                                                                   *)
RecordingFails(t) ==
  /\ prTask[t].at \in {"count", "store"} /\ prFaults < MaxPrFaults
  /\ prFaults' = prFaults + 1
  /\ prTask' = [prTask EXCEPT ![t].at = "commit", ![t].rollup = NoRollup]
  /\ UNCHANGED <<prFile, prRollup>>

(* The approval is committed and decided.  After an exception the pipeline *)
(* goes on to the transition's approval.                                   *)
CommitsApproval(t) ==
  /\ prTask[t].at = "commit" /\ Goes(t, "waits")
  /\ UNCHANGED <<prFile, prRollup, prFaults>>

Granted(t) ==
  /\ prTask[t].at = "waits"
  /\ Goes(t, IF prTask[t].asks = "jira" THEN "approved" ELSE "work")
  /\ UNCHANGED <<prFile, prRollup, prFaults>>

Rejected(t) ==
  /\ prTask[t].at = "waits" /\ Goes(t, "rejected")
  /\ UNCHANGED <<prFile, prRollup, prFaults>>

(* The process dies before the commit: the files stay, the approval never  *)
(* was, and the resumed pipeline reaches it again.                         *)
PrDies(t) ==
  /\ prTask[t].at \in {"count", "store", "commit"} /\ prFaults < MaxPrFaults
  /\ prFaults' = prFaults + 1
  /\ prTask' = [prTask EXCEPT ![t] = Working]
  /\ UNCHANGED <<prFile, prRollup>>

(* The workspace of a task that is over is swept.                          *)
SweepsWorkspace(t) ==
  /\ prTask[t].at \in {"approved", "rejected"}
  /\ prTask' = [prTask EXCEPT ![t].at = "swept", ![t].noted = FALSE]
  /\ prFile' = [prFile EXCEPT ![t] = NoCandidate]
  /\ prRollup' = [prRollup EXCEPT ![t] = NoRollup]
  /\ UNCHANGED prFaults

PrStep == \E t \in PrTasks :
  \/ WritesCandidate(t) \/ Counts(t) \/ StoresRollup(t) \/ RecordingFails(t)
  \/ CommitsApproval(t) \/ Granted(t) \/ Rejected(t) \/ PrDies(t) \/ SweepsWorkspace(t)

PrSpec == PrInit /\ [][PrStep]_prVars

----------------------------------------------------------------------------
(* The types of the tasks and their two artifacts; a rollup counts the     *)
(* candidates of its diff, and is ready only with enough of them.          *)
PrTypeOK ==
  /\ prFaults \in 0 .. MaxPrFaults
  /\ \A t \in PrTasks :
       /\ prTask[t].at \in {"work", "count", "store", "commit", "waits", "approved", "rejected",
                            "swept"}
       /\ prFile[t].clean => prFile[t].there
       /\ prRollup[t].of \subseteq PrTasks /\ prRollup[t].diff \in Diffs
       /\ prRollup[t].ready => Cardinality(prRollup[t].of) >= MinVerified

(* No evidence is lost between tasks that record at the same time: of the  *)
(* tasks whose clean candidate of one diff was recorded and counted, with  *)
(* every file read, one has a rollup that counts them all, whatever the    *)
(* order of their writes and reads                                         *)
(* (playbook_promotion.py:290-298, 318-337, 352-364).                      *)
Noted(d) == {t \in PrTasks : /\ prTask[t].noted /\ prFile[t].clean /\ prFile[t].diff = d
                             /\ prTask[t].mine = prFile[t] /\ prRollup[t].whole}
LastWriterSeesAll ==
  \A d \in Diffs : Noted(d) # {} => \E t \in Noted(d) : Noted(d) \subseteq prRollup[t].of

(* A candidate that was blocked does not become evidence: a rollup never   *)
(* counts its own task while the candidate beside it is a draft_blocked    *)
(* one of the same recording (playbook_promotion.py:244-246, 361-363).     *)
BlockedIsNoEvidence ==
  \A t \in PrTasks : (prTask[t].noted /\ prTask[t].at # "count") =>
    (t \in prRollup[t].of <=> prFile[t].clean)
=============================================================================
