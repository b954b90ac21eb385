---------------------------- MODULE QaBenchmark ----------------------------
(***************************************************************************)
(* The accuracy benchmark of scripts/run_qa_benchmark.py: it checks the    *)
(* judge and the backend, puts the questions of the dataset to the backend *)
(* one after another, polls the task of each until it is over or its       *)
(* deadline has passed, has the answer judged, pauses when several         *)
(* questions in a row were lost to the infrastructure, and rewrites its    *)
(* artifact after every question.  The process may be killed at any step.  *)
(*                                                                         *)
(* A question has one keypoint.  Durations, diagnostics and the wording of *)
(* the summary are left out; a record holds what the loop and the exit     *)
(* code read of it.  `auto', the judge mode the constructor refuses, and   *)
(* its ladder of judges are left out.                                      *)
(***************************************************************************)
EXTENDS Naturals, Sequences, FiniteSets

CONSTANTS
  Rows,           \* the number of questions of the dataset
  Sourced,        \* those that name the source to search
  QaCounted,        \* those of the tiers A, B and C
  JudgeModes,     \* the values of --judge-mode in question
  Samples,        \* --judge-samples
  PauseOn,        \* TRUE unless --no-pause-on-burst
  BurstThreshold, \* --infra-burst-threshold
  Backoffs,       \* the length of --infra-burst-backoff
  StreakLimit,    \* SMOKE_EMPTY_STREAK_LIMIT
  EarlyWindow     \* SMOKE_EARLY_WINDOW

ASSUME QaAssumption ==
  /\ Rows \in Nat \ {0} /\ Samples \in Nat \ {0}
  /\ BurstThreshold \in Nat \ {0} /\ Backoffs \in Nat
  /\ StreakLimit \in Nat \ {0} /\ EarlyWindow \in Nat
  /\ Sourced \subseteq 1 .. Rows /\ QaCounted \subseteq 1 .. Rows
  /\ JudgeModes \subseteq {"rule", "single", "codex", "hybrid", "hybrid_v2"}
  /\ PauseOn \in BOOLEAN

VARIABLES
  qaStep,   \* what the process does next
  qaMode,   \* the judge mode of this run
  qaCur,    \* the locals of the question that is asked
  qaJudge,  \* the calls of the judge about its answer
  qaRecs,   \* `records'
  qaCount,  \* the counters of the loop
  qaAbort,  \* `abort_reason'
  qaInfra,  \* `infrastructure_failed'
  qaDisk,   \* the artifact
  qaExit    \* the exit code, "none" while the process runs

qaVars == <<qaStep, qaMode, qaCur, qaJudge, qaRecs, qaCount, qaAbort, qaInfra, qaDisk, qaExit>>

QaSteps == {"preflight", "reach", "ask", "poll", "judge", "codex", "record", "pause",
            "open", "write", "finish", "over", "killed"}
Aborts == {"none", "empty_retrieval", "source_filter", "burst_exceeded", "unreachable"}

Fresh == [status |-> "unknown", synth |-> "task_error", judge |-> "skipped",
          completed |-> FALSE, credit |-> FALSE]
NoCalls == [samples |-> 0, votes |-> 0, minimax |-> FALSE, codex |-> "none", tries |-> 0]
QaInit ==
  /\ qaStep = "preflight" /\ qaMode \in JudgeModes
  /\ qaCur = Fresh /\ qaJudge = NoCalls /\ qaRecs = <<>>
  /\ qaCount = [infra |-> 0, bursts |-> 0, seen |-> 0, empty |-> 0, streak |-> 0]
  /\ qaAbort = "none" /\ qaInfra = FALSE
  /\ qaDisk = [whole |-> TRUE, status |-> "none", rows |-> 0, abort |-> "none"]
  /\ qaExit = "none"

Larger(m, n) == IF m >= n THEN m ELSE n

(***************************************************************************)
(* Before the first question.  A judge or a backend that does not answer   *)
(* ends the run with an artifact that has no questions.                    *)
(***************************************************************************)
Preflight ==
  /\ qaStep = "preflight"
  /\ \/ qaStep' = "reach" /\ UNCHANGED qaInfra
     \/ qaMode # "rule" /\ qaStep' = "finish" /\ qaInfra' = TRUE
  /\ UNCHANGED <<qaMode, qaCur, qaJudge, qaRecs, qaCount, qaAbort, qaDisk, qaExit>>

Reach ==
  /\ qaStep = "reach"
  /\ \/ qaStep' = "ask" /\ UNCHANGED qaInfra
     \/ qaStep' = "finish" /\ qaInfra' = TRUE
  /\ UNCHANGED <<qaMode, qaCur, qaJudge, qaRecs, qaCount, qaAbort, qaDisk, qaExit>>

(***************************************************************************)
(* One question: the task is created and polled.  Whatever is raised on    *)
(* the way is an infrastructure failure of the question, and what has been *)
(* noted of it before (`completed') stays.                                 *)
(***************************************************************************)
Row == Len(qaRecs) + 1

Raised(cur, status) ==
  /\ qaCur' = [cur EXCEPT !.status = status, !.synth = "task_error"]
  /\ qaInfra' = TRUE /\ qaStep' = "record"

Submit ==
  /\ qaStep = "ask"
  /\ \/ qaStep' = "poll" /\ qaCur' = Fresh /\ UNCHANGED qaInfra
     \/ Raised(Fresh, "infrastructure_error")
  /\ qaJudge' = NoCalls
  /\ UNCHANGED <<qaMode, qaRecs, qaCount, qaAbort, qaDisk, qaExit>>

PollFails ==
  /\ qaStep = "poll"
  /\ Raised(qaCur, "infrastructure_error")
  /\ UNCHANGED <<qaMode, qaJudge, qaRecs, qaCount, qaAbort, qaDisk, qaExit>>

PollTimesOut ==
  /\ qaStep = "poll"
  /\ qaCur' = [qaCur EXCEPT !.status = "timed_out", !.synth = "timeout"]
  /\ qaStep' = "record"
  /\ UNCHANGED <<qaMode, qaJudge, qaRecs, qaCount, qaAbort, qaInfra, qaDisk, qaExit>>

(* The counters of the source filter's smoke check after a question whose  *)
(* retrieval selected nothing, something of the source asked for, or       *)
(* something of another source; and the reason to abort they give.         *)
Smoked(sel) ==
  LET c == [qaCount EXCEPT !.seen = @ + 1]
  IN CASE sel = "empty" -> [c EXCEPT !.empty = @ + 1, !.streak = @ + 1]
       [] sel = "right" -> [c EXCEPT !.streak = 0]
       [] sel = "cross" -> c
SmokeAbort(sel, c) ==
  CASE sel = "cross" -> "source_filter"
    [] sel = "empty" /\ \/ c.streak >= StreakLimit
                        \/ c.seen <= EarlyWindow /\ c.empty >= Larger(2, (c.seen \div 2) + 1)
         -> "empty_retrieval"
    [] OTHER -> "none"

(* The task is over: with or without an answer, of the right source or     *)
(* not.  An answer is judged whatever the task's status.                   *)
TaskEnds ==
  /\ qaStep = "poll"
  /\ \E status \in {"completed", "failed"}, answered \in BOOLEAN,
        sel \in (IF Row \in Sourced THEN {"right", "empty", "cross"} ELSE {"any"}) :
       LET cur == [qaCur EXCEPT !.status = status, !.completed = TRUE]
           c == IF sel = "any" THEN qaCount ELSE Smoked(sel)
           why == SmokeAbort(sel, c)
       IN /\ qaCount' = c
          /\ \/ /\ why # "none"
                /\ Raised(cur, "infrastructure_error") /\ qaAbort' = why
             \/ /\ why = "none" /\ answered
                /\ qaCur' = [cur EXCEPT !.synth = "pass"]
                /\ qaStep' = "judge" /\ UNCHANGED <<qaInfra, qaAbort>>
             \/ /\ why = "none" /\ ~answered
                /\ qaCur' = [cur EXCEPT !.synth = IF status = "completed" THEN "empty"
                                                                         ELSE "task_error"]
                /\ qaStep' = "record" /\ UNCHANGED <<qaInfra, qaAbort>>
  /\ UNCHANGED <<qaMode, qaJudge, qaRecs, qaDisk, qaExit>>

(* Something else is raised while the payload is read: runner_error.       *)
ReadFails ==
  /\ qaStep = "poll"
  /\ Raised([qaCur EXCEPT !.completed = TRUE], "runner_error")
  /\ UNCHANGED <<qaMode, qaJudge, qaRecs, qaCount, qaAbort, qaDisk, qaExit>>

(***************************************************************************)
(* The judge.  One mode asks one model, several times if so told, and      *)
(* credits the keypoint by majority; `hybrid' forgives a model that does   *)
(* not answer; `hybrid_v2' asks MiniMax and then Codex, and gives no       *)
(* credit of a model when Codex fails.  A rate limited Codex is asked once *)
(* more.  `credit' is the credit the models earned.                        *)
(***************************************************************************)
JudgePasses(credit) ==
  /\ qaCur' = [qaCur EXCEPT !.judge = "pass", !.credit = credit]
  /\ qaStep' = "record"
JudgeFails ==
  /\ qaCur' = [qaCur EXCEPT !.judge = "fail"]
  /\ qaStep' = "record"

Votes == IF qaMode = "hybrid" THEN 1 ELSE Samples

RuleJudges ==
  /\ qaStep = "judge" /\ qaMode = "rule"
  /\ JudgePasses(FALSE)
  /\ UNCHANGED <<qaMode, qaJudge, qaRecs, qaCount, qaAbort, qaInfra, qaDisk, qaExit>>

(* Mutant: half of the samples are enough. *)
SampledTie(hit) ==
  LET votes == qaJudge.votes + (IF hit THEN 1 ELSE 0)
  IN IF qaJudge.samples + 1 < Votes
     THEN /\ qaJudge' = [qaJudge EXCEPT !.samples = @ + 1, !.votes = votes, !.tries = 0]
          /\ qaStep' = "judge" /\ UNCHANGED qaCur
     ELSE /\ qaJudge' = [qaJudge EXCEPT !.samples = @ + 1, !.votes = votes]
          /\ JudgePasses(votes >= Votes \div 2)

(* Mutant: one sample more than asked for. *)
SampledOnceMore(hit) ==
  LET votes == qaJudge.votes + (IF hit THEN 1 ELSE 0)
  IN IF qaJudge.samples + 1 <= Votes
     THEN /\ qaJudge' = [qaJudge EXCEPT !.samples = @ + 1, !.votes = votes, !.tries = 0]
          /\ qaStep' = "judge" /\ UNCHANGED qaCur
     ELSE /\ qaJudge' = [qaJudge EXCEPT !.samples = @ + 1, !.votes = votes]
          /\ JudgePasses(votes > Votes \div 2)

(* One answer of the model that is asked alone.                            *)
Sampled(hit) ==
  LET votes == qaJudge.votes + (IF hit THEN 1 ELSE 0)
  IN IF qaJudge.samples + 1 < Votes
     THEN /\ qaJudge' = [qaJudge EXCEPT !.samples = @ + 1, !.votes = votes, !.tries = 0]
          /\ qaStep' = "judge" /\ UNCHANGED qaCur
     ELSE /\ qaJudge' = [qaJudge EXCEPT !.samples = @ + 1, !.votes = votes]
          /\ JudgePasses(votes > Votes \div 2)

ModelJudges ==
  /\ qaStep = "judge" /\ qaMode \in {"single", "hybrid"}
  /\ \/ \E hit \in BOOLEAN : Sampled(hit)
     \/ qaMode = "hybrid" /\ JudgePasses(FALSE) /\ UNCHANGED qaJudge
     \/ qaMode = "single" /\ JudgeFails /\ UNCHANGED qaJudge
  /\ UNCHANGED <<qaMode, qaRecs, qaCount, qaAbort, qaInfra, qaDisk, qaExit>>

MiniMaxJudges ==
  /\ qaStep = "judge" /\ qaMode = "hybrid_v2"
  /\ \/ \E hit \in BOOLEAN : /\ qaJudge' = [qaJudge EXCEPT !.minimax = hit]
                             /\ qaStep' = "codex" /\ UNCHANGED qaCur
     \/ JudgeFails /\ UNCHANGED qaJudge
  /\ UNCHANGED <<qaMode, qaRecs, qaCount, qaAbort, qaInfra, qaDisk, qaExit>>

AsksCodex == qaStep = "codex" \/ (qaStep = "judge" /\ qaMode = "codex")

CodexJudges ==
  /\ AsksCodex
  /\ \/ \E hit \in BOOLEAN :
          IF qaMode = "codex" THEN Sampled(hit)
          ELSE /\ qaJudge' = [qaJudge EXCEPT !.codex = IF hit THEN "hit" ELSE "miss"]
               /\ JudgePasses(hit /\ qaJudge.minimax)
     \/ /\ IF qaMode = "codex" THEN JudgeFails ELSE JudgePasses(FALSE)
        /\ qaJudge' = [qaJudge EXCEPT !.codex = "failed"]
  /\ UNCHANGED <<qaMode, qaRecs, qaCount, qaAbort, qaInfra, qaDisk, qaExit>>

CodexIsLimited ==
  /\ AsksCodex /\ qaJudge.tries = 0
  /\ qaJudge' = [qaJudge EXCEPT !.tries = 1]
  /\ UNCHANGED <<qaStep, qaMode, qaCur, qaRecs, qaCount, qaAbort, qaInfra, qaDisk, qaExit>>

(***************************************************************************)
(* The record of the question, and the burst of lost questions it may      *)
(* complete.  A valid, empty or badly judged question ends the burst.      *)
(***************************************************************************)
Valid(r) == r.synth = "pass" /\ r.judge = "pass"
InfraInvalid(r) == ~Valid(r) /\ r.synth \in {"task_error", "timeout"}

(* Mutant: a burst is one question longer than the threshold. *)
BurstLate(lost) == InfraInvalid(qaCur) /\ lost > BurstThreshold

Burst(lost) == InfraInvalid(qaCur) /\ lost >= BurstThreshold

Recorded ==
  /\ qaStep = "record"
  /\ qaRecs' = Append(qaRecs, [f \in {"synth", "judge", "completed"} |-> qaCur[f]])
  /\ LET lost == IF InfraInvalid(qaCur) THEN qaCount.infra + 1 ELSE 0
         burst == Burst(lost)
         bursts == qaCount.bursts + (IF burst THEN 1 ELSE 0)
         exceeded == burst /\ PauseOn /\ bursts > Backoffs
     IN /\ qaCount' = [qaCount EXCEPT !.infra = IF burst /\ ~PauseOn THEN 0 ELSE lost,
                                      !.bursts = bursts]
        /\ qaAbort' = IF exceeded THEN "burst_exceeded" ELSE qaAbort
        /\ qaStep' = IF burst /\ PauseOn /\ ~exceeded THEN "pause" ELSE "open"
  /\ qaCur' = Fresh /\ qaJudge' = NoCalls
  /\ UNCHANGED <<qaMode, qaInfra, qaDisk, qaExit>>

(* The pause, and the probe of the backend after it.                       *)
Paused ==
  /\ qaStep = "pause"
  /\ \/ UNCHANGED <<qaAbort, qaInfra>>
     \/ qaAbort' = "unreachable" /\ qaInfra' = TRUE
  /\ qaCount' = [qaCount EXCEPT !.infra = 0]
  /\ qaStep' = "open"
  /\ UNCHANGED <<qaMode, qaCur, qaJudge, qaRecs, qaDisk, qaExit>>

(***************************************************************************)
(* The artifact is opened for writing, which empties it, and written.      *)
(***************************************************************************)
Opened == [whole |-> FALSE, status |-> "none", rows |-> 0, abort |-> "none"]

(* Mutant: only the valid questions are written. *)
WrittenIfValid(status) ==
  [whole |-> TRUE, status |-> status,
   rows |-> Cardinality({i \in DOMAIN qaRecs : Valid(qaRecs[i])}), abort |-> qaAbort]

(* Mutant: the last artifact is marked like the others. *)
WrittenRunning(status) ==
  [whole |-> TRUE, status |-> "running", rows |-> Len(qaRecs), abort |-> qaAbort]

Written(status) == [whole |-> TRUE, status |-> status, rows |-> Len(qaRecs), abort |-> qaAbort]

OpensArtifact ==
  /\ qaStep = "open" /\ qaStep' = "write"
  /\ qaDisk' = Opened
  /\ UNCHANGED <<qaMode, qaCur, qaJudge, qaRecs, qaCount, qaAbort, qaInfra, qaExit>>

WritesArtifact ==
  /\ qaStep = "write"
  /\ qaDisk' = Written("running")
  /\ qaStep' = IF qaAbort # "none" \/ Len(qaRecs) = Rows THEN "finish" ELSE "ask"
  /\ UNCHANGED <<qaMode, qaCur, qaJudge, qaRecs, qaCount, qaAbort, qaInfra, qaExit>>

(* The share of the counted questions that completed is at least 0.9.      *)
MostCompleted ==
  LET asked == QaCounted \cap DOMAIN qaRecs
      done == {i \in asked : qaRecs[i].completed}
  IN asked # {} /\ 10 * Cardinality(done) >= 9 * Cardinality(asked)

(* Mutant: the exit code looks at the share of completed questions alone. *)
QaFinishIfMost ==
  /\ qaStep = "finish"
  /\ IF qaDisk.status = "completed"
     THEN /\ qaExit' = IF MostCompleted THEN "0" ELSE "2"
          /\ qaStep' = "over" /\ UNCHANGED qaDisk
     ELSE /\ qaDisk' = IF qaDisk.whole THEN Opened ELSE Written("completed")
          /\ UNCHANGED <<qaStep, qaExit>>
  /\ UNCHANGED <<qaMode, qaCur, qaJudge, qaRecs, qaCount, qaAbort, qaInfra>>

QaFinish ==
  /\ qaStep = "finish"
  /\ IF qaDisk.status = "completed"
     THEN /\ qaExit' = IF \/ qaAbort # "none" \/ qaInfra
                          \/ \E i \in DOMAIN qaRecs : ~Valid(qaRecs[i])
                          \/ ~MostCompleted
                       THEN "2" ELSE "0"
          /\ qaStep' = "over" /\ UNCHANGED qaDisk
     ELSE IF qaDisk.whole
          THEN qaDisk' = Opened /\ UNCHANGED <<qaStep, qaExit>>
          ELSE qaDisk' = Written("completed") /\ UNCHANGED <<qaStep, qaExit>>
  /\ UNCHANGED <<qaMode, qaCur, qaJudge, qaRecs, qaCount, qaAbort, qaInfra>>

(* The process is killed.                                                  *)
Killed ==
  /\ qaStep \notin {"over", "killed"} /\ qaStep' = "killed"
  /\ qaCur' = Fresh /\ qaJudge' = NoCalls
  /\ UNCHANGED <<qaMode, qaRecs, qaCount, qaAbort, qaInfra, qaDisk, qaExit>>

QaRuns ==
  \/ Preflight \/ Reach \/ Submit \/ PollFails \/ PollTimesOut \/ TaskEnds \/ ReadFails
  \/ RuleJudges \/ ModelJudges \/ MiniMaxJudges \/ CodexJudges \/ CodexIsLimited
  \/ Recorded \/ Paused \/ OpensArtifact \/ WritesArtifact \/ QaFinish
QaNext == QaRuns \/ Killed

(* The process goes on until it is over or killed: every call it waits for *)
(* has a timeout.                                                          *)
QaSpec == QaInit /\ [][QaNext]_qaVars /\ WF_qaVars(QaRuns)

----------------------------------------------------------------------------
(* The types of the run's state; the counters stay within what the number  *)
(* of questions allows.                                                    *)
QaTypeOK ==
  /\ qaStep \in QaSteps /\ qaMode \in JudgeModes /\ qaAbort \in Aborts
  /\ \A i \in DOMAIN qaRecs : qaRecs[i] \in
       [synth : {"pass", "empty", "task_error", "timeout"},
        judge : {"pass", "fail", "skipped"}, completed : BOOLEAN]
  /\ qaCur.status \in {"unknown", "completed", "failed", "timed_out",
                       "infrastructure_error", "runner_error"}
  /\ qaCur.synth = "pass" <=> qaStep \in {"judge", "codex"} \/ qaCur.judge # "skipped"
  /\ Len(qaRecs) <= Rows
  /\ \A k \in DOMAIN qaCount : qaCount[k] \in 0 .. Rows
  /\ qaJudge.samples \in 0 .. Samples /\ qaJudge.votes \in 0 .. qaJudge.samples
  /\ qaInfra \in BOOLEAN /\ qaExit \in {"none", "0", "2"}

(* Exit code 0 vouches for the scores (run_qa_benchmark.py:2291-2294):     *)
(* every question of the dataset was asked and has a valid score, no       *)
(* burst was met, no smoke check failed, and the artifact on disk is the   *)
(* finished one with all of them.                                          *)
CleanExit ==
  qaExit = "0" =>
    /\ Len(qaRecs) = Rows
    /\ \A i \in DOMAIN qaRecs : Valid(qaRecs[i]) /\ qaRecs[i].completed
    /\ qaCount.bursts = 0 /\ qaCount.streak < StreakLimit
    /\ qaDisk = [whole |-> TRUE, status |-> "completed", rows |-> Rows, abort |-> "none"]

(* The models' credit in a score is agreed (run_qa_benchmark.py:584-611,   *)
(* 785-821): by more than half of the samples, or by MiniMax and Codex     *)
(* both; a judge that failed takes part in no credit.                      *)
CreditIsAgreed ==
  (qaStep = "record" /\ qaCur.credit) =>
    /\ qaCur.judge = "pass"
    /\ \/ qaMode = "hybrid_v2" /\ qaJudge.minimax /\ qaJudge.codex = "hit"
       \/ /\ qaMode \in {"single", "codex", "hybrid"}
          /\ qaJudge.samples = Votes /\ 2 * qaJudge.votes > Votes

(* A wobble of the backend cannot poison the dataset: as long as pauses    *)
(* are on, no further question is put after BurstThreshold lost ones in a  *)
(* row without a pause and a probe in between, and no more bursts are      *)
(* waited out than there are backoffs (run_qa_benchmark.py:2197-2235).     *)
LostTail ==
  LET lost(k) == \A i \in (Len(qaRecs) - k + 1) .. Len(qaRecs) : InfraInvalid(qaRecs[i])
  IN {k \in 0 .. Len(qaRecs) : lost(k)}
BurstsArePaused ==
  (PauseOn /\ qaStep \in {"ask", "poll"}) =>
    /\ \A k \in LostTail : k <= qaCount.bursts * BurstThreshold + (BurstThreshold - 1)
    /\ qaCount.bursts <= Backoffs

(* What a kill can cost: the artifact on disk is one that was written      *)
(* whole and misses at most the question that was asked, unless the        *)
(* process died between emptying and filling it; only a run that reached   *)
(* its end leaves one marked completed.                                    *)
ArtifactKeepsUp ==
  /\ qaDisk.whole => Len(qaRecs) - qaDisk.rows \in {0, 1}
  /\ ~qaDisk.whole => qaStep \in {"write", "finish", "killed"}
  /\ qaDisk.status = "completed" => qaStep \in {"finish", "over", "killed"}
  /\ qaExit # "none" => qaDisk.status = "completed" /\ qaDisk.abort = qaAbort

(* A score that is published is agreed, complete and not the backend's.    *)
ScoresHold == CleanExit /\ CreditIsAgreed /\ BurstsArePaused /\ ArtifactKeepsUp

(* The run comes to an end.                                                *)
RunIsOver == qaStep \in {"over", "killed"}

============================================================================
