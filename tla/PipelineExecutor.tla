-------------------------- MODULE PipelineExecutor --------------------------
(***************************************************************************)
(* The process-local pool that runs pipeline jobs                          *)
(* (app/core/pipeline_executor.py): a ThreadPoolExecutor plus four         *)
(* module-level counters the health endpoint reads.  The counters are      *)
(* guarded by _lock, but a submitter picks the executor up before it takes *)
(* the lock, and a shutdown closes the pool after it has released it; the  *)
(* steps below are cut at exactly those points.                            *)
(*                                                                         *)
(* A pool is numbered by the call of init_pipeline_executor that made it.  *)
(* The order in which a pool serves its queue does not matter to what is   *)
(* said here, so a waiting job is a member of a set.                       *)
(***************************************************************************)
EXTENDS Naturals, FiniteSets

CONSTANTS
    Jobs,           \* the calls of submit_pipeline_job
    MaxWorkers,     \* settings.pipeline_max_workers
    MaxPools        \* bound on calls of init_pipeline_executor that make a pool

ASSUME JobsFinite == IsFiniteSet(Jobs)
ASSUME MaxWorkersPositive == MaxWorkers \in Nat \ {0}
ASSUME MaxPoolsNat == MaxPools \in Nat

VARIABLES
    current,        \* _executor: the pool new submissions pick up, 0 for None
    pools,          \* how many pools have been made
    open,           \* pools whose shutdown() has not been called
    maxWorkers,     \* _max_workers
    active,         \* _active_workers
    queued,         \* _queued_jobs
    saturated,      \* _saturated_since is not None
    pc,             \* where each job is
    poolOf          \* the executor a submitter picked up, 0 before it did

counters == <<maxWorkers, active, queued, saturated>>
lifecycle == <<current, pools, open>>
vars == <<current, pools, open, maxWorkers, active, queued, saturated, pc, poolOf>>

JobStates == {"new", "captured", "counted", "waiting", "running", "done", "refused"}

InState(S) == {j \in Jobs : pc[j] \in S}
Counted == InState({"counted", "waiting"})
Running == InState({"running"})
RunningIn(p) == {j \in Running : poolOf[j] = p}

MinusOneUnclamped(n) == n - 1                   \* mutant: the max(0, _) dropped
MinusOne(n) == IF n = 0 THEN 0 ELSE n - 1       \* max(0, n - 1)
IsSaturated(m, a, q) == m > 0 /\ a >= m /\ q > 0

Init ==
    /\ current = 0 /\ pools = 0 /\ open = {}
    /\ maxWorkers = 0 /\ active = 0 /\ queued = 0 /\ saturated = FALSE
    /\ pc = [j \in Jobs |-> "new"]
    /\ poolOf = [j \in Jobs |-> 0]

\* init_pipeline_executor: a second call while a pool exists returns at once.
InitPipelineExecutor ==
    /\ current = 0
    /\ pools < MaxPools
    /\ pools' = pools + 1
    /\ current' = pools + 1
    /\ open' = open \cup {pools + 1}
    /\ maxWorkers' = MaxWorkers
    /\ UNCHANGED <<active, queued, saturated, pc, poolOf>>

\* shutdown_pipeline_executor, the part under the lock: the counters are reset
\* whatever the jobs of the detached pool are doing.
ShutdownDetach ==
    /\ current' = 0
    /\ maxWorkers' = 0 /\ active' = 0 /\ queued' = 0 /\ saturated' = FALSE
    /\ UNCHANGED <<pools, open, pc, poolOf>>

\* ... and executor.shutdown(), after the lock: no further submission is
\* accepted, what is waiting in the pool still runs.
ShutdownClose(p) ==
    /\ p \in open /\ p # current
    /\ open' = open \ {p}
    /\ UNCHANGED <<current, pools, counters, pc, poolOf>>

\* _refresh_saturation_locked, with the counters as the step leaves them.
RefreshSaturation == saturated' = IsSaturated(maxWorkers, active', queued')

\* submit_pipeline_job reads _executor without the lock ...
SubmitCapture(j) ==
    /\ pc[j] = "new"
    /\ current # 0
    /\ pc' = [pc EXCEPT ![j] = "captured"]
    /\ poolOf' = [poolOf EXCEPT ![j] = current]
    /\ UNCHANGED <<lifecycle, counters>>

\* ... raises when there is none ...
SubmitUninitialised(j) ==
    /\ pc[j] = "new"
    /\ current = 0
    /\ pc' = [pc EXCEPT ![j] = "refused"]
    /\ UNCHANGED <<lifecycle, counters, poolOf>>

\* ... counts the job ...
SubmitCount(j) ==
    /\ pc[j] = "captured"
    /\ queued' = queued + 1
    /\ active' = active
    /\ RefreshSaturation
    /\ pc' = [pc EXCEPT ![j] = "counted"]
    /\ UNCHANGED <<lifecycle, maxWorkers, poolOf>>

\* ... and hands it to the pool, which takes it unless it was shut down.
SubmitAccepted(j) ==
    /\ pc[j] = "counted"
    /\ poolOf[j] \in open
    /\ pc' = [pc EXCEPT ![j] = "waiting"]
    /\ UNCHANGED <<lifecycle, counters, poolOf>>

\* Mutant: the except clause of submit_pipeline_job forgets to uncount the job.
SubmitRefusedStillCounted(j) ==
    /\ pc[j] = "counted"
    /\ poolOf[j] \notin open
    /\ pc' = [pc EXCEPT ![j] = "refused"]
    /\ UNCHANGED <<lifecycle, counters, poolOf>>

SubmitRefused(j) ==
    /\ pc[j] = "counted"
    /\ poolOf[j] \notin open
    /\ queued' = MinusOne(queued)
    /\ active' = active
    /\ RefreshSaturation
    /\ pc' = [pc EXCEPT ![j] = "refused"]
    /\ UNCHANGED <<lifecycle, maxWorkers, poolOf>>

\* _run_tracked_job, entry: a thread of the pool has taken the job.
StartJob(j) ==
    /\ pc[j] = "waiting"
    /\ Cardinality(RunningIn(poolOf[j])) < MaxWorkers
    /\ queued' = MinusOne(queued)
    /\ active' = active + 1
    /\ RefreshSaturation
    /\ pc' = [pc EXCEPT ![j] = "running"]
    /\ UNCHANGED <<lifecycle, maxWorkers, poolOf>>

\* _run_tracked_job, the finally clause: the job returned or raised.
FinishJob(j) ==
    /\ pc[j] = "running"
    /\ active' = MinusOne(active)
    /\ queued' = queued
    /\ RefreshSaturation
    /\ pc' = [pc EXCEPT ![j] = "done"]
    /\ UNCHANGED <<lifecycle, maxWorkers, poolOf>>

JobStep(j) ==
    \/ SubmitCapture(j)
    \/ SubmitUninitialised(j)
    \/ SubmitCount(j)
    \/ SubmitAccepted(j)
    \/ SubmitRefused(j)
    \/ StartJob(j)
    \/ FinishJob(j)

Next ==
    \/ InitPipelineExecutor
    \/ ShutdownDetach
    \/ \E p \in 1 .. MaxPools : ShutdownClose(p)
    \/ \E j \in Jobs : JobStep(j)

\* A thread that is inside submit_pipeline_job or that runs a job goes on, and an
\* idle thread of a pool takes a waiting job.  Every job passes through finitely many
\* of these steps, so that they are fair together is enough.  No caller is obliged to
\* submit, to initialise or to shut down.
Going(j) ==
    SubmitCount(j) \/ SubmitAccepted(j) \/ SubmitRefused(j) \/ StartJob(j) \/ FinishJob(j)

Spec == Init /\ [][Next]_vars
FairSpec == Spec /\ WF_vars(\E j \in Jobs : Going(j))

-----------------------------------------------------------------------------
TypeOK ==
    /\ current \in Nat /\ pools \in Nat
    /\ open \subseteq Nat
    /\ maxWorkers \in {0, MaxWorkers}
    /\ active \in Nat /\ queued \in Nat
    /\ saturated \in BOOLEAN
    /\ pc \in [Jobs -> JobStates]
    /\ poolOf \in [Jobs -> Nat]

\* The counters never report more load than there is, through any sequence of
\* submissions, shutdowns that reset them under running jobs, and fresh pools:
\* the clamped decrements of _run_tracked_job and submit_pipeline_job only ever
\* lose load.
NoPhantomLoad ==
    /\ active <= Cardinality(Running)
    /\ queued <= Cardinality(Counted)

\* The saturation alarm of GET /health (saturation_age_seconds > 120) is about
\* something real: while _saturated_since is set, at least max_workers jobs run
\* and at least one more was counted and has not started.
AlarmIsReal ==
    saturated => /\ maxWorkers > 0
                 /\ Cardinality(Running) >= maxWorkers
                 /\ Counted # {}

\* In the life the server gives the pool (one init, one shutdown at exit) the
\* counters are exact until the shutdown, so the alarm is never missed either.
ExactWhileServing ==
    pools = 1 /\ current = 1
        => /\ active = Cardinality(Running)
           /\ queued = Cardinality(Counted)
           /\ saturated <=> IsSaturated(MaxWorkers, active, queued)

\* What GET /health says of the load is never more than there is, its alarm has a cause, and
\* both are exact in a process that makes one pool.
CountersHold == NoPhantomLoad /\ AlarmIsReal /\ ExactWhileServing

\* A job that a pool accepted is run to its end, also when the pool is detached
\* and closed while the job waits; one that was counted is accepted or refused.
JobIsOver(j) == pc[j] \notin {"counted", "waiting", "running"}

\* What makes the three counter invariants inductive: a process that has made
\* no pool has no job under way, _max_workers follows the presence of a pool,
\* and the alarm is only ever raised on counters that justify it.
CountersInv ==
    /\ pools = 0 => /\ current = 0 /\ active = 0 /\ queued = 0 /\ ~saturated
                    /\ \A j \in Jobs : pc[j] \in {"new", "refused"}
    /\ maxWorkers = IF current = 0 THEN 0 ELSE MaxWorkers
    /\ saturated => IsSaturated(maxWorkers, active, queued)
    /\ NoPhantomLoad
    /\ ExactWhileServing
=============================================================================
