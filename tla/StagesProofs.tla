------------------------------ MODULE StagesProofs ------------------------------
(***************************************************************************)
(* The stages of a pipeline, for any number of files, batches, providers,  *)
(* attempts, repairs, faults and deaths, and whatever the models answer:   *)
(* one section for each component, with the invariant its theorems rest    *)
(* on, then the stages together.                                           *)
(***************************************************************************)
EXTENDS MCStages, NaturalsInduction, FiniteSetTheorems, SequenceTheorems, WellFoundedInduction,
        TLAPS

-----------------------------------------------------------------------------
(* Sums.  FoldSeq adds up the values of a sequence in an order that CHOOSE gives; the fold is a    *)
(* recursive function over the subsets of the indices, whose existence comes from the order of     *)
(* their cardinalities.                                                                             *)

\* The least number with a property.
LEMMA LeastNumber ==
    ASSUME NEW T \in SUBSET Nat, T # {}
    PROVE  \E n \in T : \A m \in T : n <= m
<1>1. PICK x \in T : \A y \in T : ~(<<y, x>> \in OpToRel(<, Nat))
  BY NatLessThanWellFounded, WFMin
<1>2. \A y \in T : ~(y < x)
  BY <1>1 DEF OpToRel
<1> QED
  BY <1>2

Picked(s) == CHOOSE x \in s : TRUE

\* What the fold computes for a set of indices.
IsSum(g, it, S) ==
    it = [s \in SUBSET S |-> IF s = {} THEN 0 ELSE g[Picked(s)] + it[s \ {Picked(s)}]]

\* The subsets with so many elements at most.
UpTo(S, n) == {s \in SUBSET S : Cardinality(s) <= n}

IsSumUpTo(g, it, S, n) ==
    /\ it \in [UpTo(S, n) -> Int]
    /\ \A s \in UpTo(S, n) :
            it[s] = IF s = {} THEN 0 ELSE g[Picked(s)] + it[s \ {Picked(s)}]

LEMMA PickedIn == \A s : s # {} => Picked(s) \in s
BY DEF Picked

\* Without the element that is picked a set has one less.
LEMMA PickedOut ==
    ASSUME NEW S, IsFiniteSet(S), NEW s \in SUBSET S, s # {}
    PROVE  /\ Picked(s) \in s /\ s \ {Picked(s)} \in SUBSET S
           /\ Cardinality(s) \in Nat /\ Cardinality(s \ {Picked(s)}) = Cardinality(s) - 1
           /\ Cardinality(s \ {Picked(s)}) \in Nat
<1>1. Picked(s) \in s /\ IsFiniteSet(s)
  BY PickedIn, FS_Subset
<1>2. /\ IsFiniteSet(s \ {Picked(s)})
      /\ Cardinality(s \ {Picked(s)}) = Cardinality(s) - 1
  BY <1>1, FS_RemoveElement
<1> QED
  BY <1>1, <1>2, FS_CardinalityType

LEMMA SumsUpTo ==
    ASSUME NEW S, IsFiniteSet(S), NEW g \in [S -> Int]
    PROVE  \A n \in Nat : \E it : IsSumUpTo(g, it, S, n)
<1> DEFINE Gap == {n \in Nat : ~\E it : IsSumUpTo(g, it, S, n)}
<1> SUFFICES ASSUME Gap # {} PROVE FALSE
  OBVIOUS
<1>1. PICK n \in Gap : \A m \in Gap : n <= m
  <2> HIDE DEF Gap
  <2>1. Gap \subseteq Nat
    BY DEF Gap
  <2> QED
    BY <2>1, LeastNumber
<1>0. n \in Nat /\ ~\E it : IsSumUpTo(g, it, S, n)
  BY <1>1
<1>2. \A s \in SUBSET S : Cardinality(s) \in Nat /\ (Cardinality(s) = 0 <=> s = {})
  BY FS_Subset, FS_CardinalityType, FS_EmptySet
<1>3. CASE n = 0
  <2> DEFINE it == [s \in UpTo(S, 0) |-> 0]
  <2>1. \A s \in UpTo(S, 0) : s = {}
    BY <1>2 DEF UpTo
  <2>2. IsSumUpTo(g, it, S, 0)
    BY <2>1 DEF IsSumUpTo
  <2> QED
    BY <1>0, <1>3, <2>2
<1>4. CASE n # 0
  <2>1. n - 1 \in Nat /\ n - 1 \notin Gap
    <3>1. n - 1 \in Nat /\ ~(n <= n - 1)
      BY <1>0, <1>4
    <3> QED
      BY <1>1, <3>1
  <2>2. PICK before : IsSumUpTo(g, before, S, n - 1)
    BY <2>1
  <2> DEFINE Value(s) == IF s = {} THEN 0 ELSE g[Picked(s)] + before[s \ {Picked(s)}]
             it == [s \in UpTo(S, n) |-> Value(s)]
  <2>3. \A s \in UpTo(S, n) : s # {} => /\ Picked(s) \in S /\ s \ {Picked(s)} \in UpTo(S, n - 1)
                                         /\ s \ {Picked(s)} \in UpTo(S, n)
    BY <1>0, PickedOut DEF UpTo
  <2>4. \A s \in UpTo(S, n) : Value(s) \in Int
    BY <2>2, <2>3 DEF IsSumUpTo
  <2>5. \A s \in UpTo(S, n - 1) : s \in UpTo(S, n) /\ before[s] = Value(s)
    BY <1>0, <1>2, <2>2 DEF IsSumUpTo, UpTo
  <2>6. \A s \in UpTo(S, n) : it[s] = Value(s)
    OBVIOUS
  <2>7. \A s \in UpTo(S, n) : s # {} => it[s \ {Picked(s)}] = before[s \ {Picked(s)}]
    BY <2>3, <2>5, <2>6
  <2>8. it \in [UpTo(S, n) -> Int]
    BY <2>4
  <2>9. \A s \in UpTo(S, n) : it[s] = IF s = {} THEN 0 ELSE g[Picked(s)] + it[s \ {Picked(s)}]
    BY <2>6, <2>7
  <2> HIDE DEF it
  <2>10. IsSumUpTo(g, it, S, n)
    BY <2>8, <2>9 DEF IsSumUpTo
  <2> QED
    BY <1>0, <2>10
<1> QED
  BY <1>3, <1>4

\* There is such a sum, and so the one that CHOOSE gives is one.
LEMMA SumsExist ==
    ASSUME NEW S, IsFiniteSet(S), NEW g \in [S -> Int]
    PROVE  \E it : IsSum(g, it, S)
<1>1. Cardinality(S) \in Nat
  BY FS_CardinalityType
<1>2. UpTo(S, Cardinality(S)) = SUBSET S
  BY FS_Subset DEF UpTo
<1>3. PICK it : IsSumUpTo(g, it, S, Cardinality(S))
  BY <1>1, SumsUpTo
<1>4. it = [s \in SUBSET S |-> it[s]]
  BY <1>2, <1>3 DEF IsSumUpTo
<1>5. \A s \in SUBSET S : it[s] = IF s = {} THEN 0 ELSE g[Picked(s)] + it[s \ {Picked(s)}]
  BY <1>2, <1>3 DEF IsSumUpTo
<1>6. it = [s \in SUBSET S |-> IF s = {} THEN 0 ELSE g[Picked(s)] + it[s \ {Picked(s)}]]
  BY <1>4, <1>5
<1> QED
  BY <1>6 DEF IsSum

\* A sum is a number.
LEMMA SumsAreNumbers ==
    ASSUME NEW S, IsFiniteSet(S), NEW g \in [S -> Int], NEW it, IsSum(g, it, S)
    PROVE  \A s \in SUBSET S : it[s] \in Int
<1> DEFINE Gap == {n \in Nat : \E s \in SUBSET S : Cardinality(s) = n /\ it[s] \notin Int}
<1>0. \A s \in SUBSET S : Cardinality(s) \in Nat
  BY FS_Subset, FS_CardinalityType
<1>a. \A s \in SUBSET S : it[s] = IF s = {} THEN 0 ELSE g[Picked(s)] + it[s \ {Picked(s)}]
  BY DEF IsSum
<1> SUFFICES ASSUME Gap # {} PROVE FALSE
  BY <1>0
<1>1. PICK n \in Gap : \A m \in Gap : n <= m
  <2> HIDE DEF Gap
  <2>1. Gap \subseteq Nat
    BY DEF Gap
  <2> QED
    BY <2>1, LeastNumber
<1>2. PICK s \in SUBSET S : Cardinality(s) = n /\ it[s] \notin Int
  BY <1>1
<1>3. s # {} /\ it[s] = g[Picked(s)] + it[s \ {Picked(s)}]
  <2>1. s = {} => it[s] = 0
    BY <1>a
  <2>2. s # {} => it[s] = g[Picked(s)] + it[s \ {Picked(s)}]
    BY <1>a
  <2> HIDE DEF Gap
  <2> QED
    BY <1>2, <2>1, <2>2
<1>4. /\ Picked(s) \in S /\ s \ {Picked(s)} \in SUBSET S
      /\ Cardinality(s \ {Picked(s)}) = n - 1 /\ n - 1 \in Nat /\ n \in Nat
  <2> HIDE DEF Gap
  <2>1. n \in Nat /\ Cardinality(s) = n /\ Cardinality(s) \in Nat
    BY <1>0, <1>2
  <2>2. /\ Picked(s) \in s /\ s \ {Picked(s)} \in SUBSET S
        /\ Cardinality(s \ {Picked(s)}) = Cardinality(s) - 1
        /\ Cardinality(s \ {Picked(s)}) \in Nat
    BY <1>3, PickedOut
  <2> QED
    BY <2>1, <2>2
<1>5. n - 1 \notin Gap
  <2>1. ~(n <= n - 1)
    BY <1>4
  <2> HIDE DEF Gap
  <2> QED
    BY <1>1, <2>1
<1>6. it[s \ {Picked(s)}] \in Int
  BY <1>4, <1>5
<1> QED
  BY <1>2, <1>3, <1>4, <1>6

\* One element more adds its value, whichever the fold picks.
LEMMA SumsAdd ==
    ASSUME NEW S, IsFiniteSet(S), NEW g \in [S -> Int], NEW it, IsSum(g, it, S),
           NEW t \in SUBSET S, NEW z \in S \ t
    PROVE  it[t \cup {z}] = g[z] + it[t]
<1> DEFINE Adds(s) == \A y \in S \ s : it[s \cup {y}] = g[y] + it[s]
           Gap == {n \in Nat : \E s \in SUBSET S : Cardinality(s) = n /\ ~Adds(s)}
<1>0. \A s \in SUBSET S : Cardinality(s) \in Nat
  BY FS_Subset, FS_CardinalityType
<1>a. \A s \in SUBSET S : it[s] = IF s = {} THEN 0 ELSE g[Picked(s)] + it[s \ {Picked(s)}]
  BY DEF IsSum
<1>b. \A s \in SUBSET S : it[s] \in Int
  BY SumsAreNumbers
<1> SUFFICES ASSUME Gap # {} PROVE FALSE
  BY <1>0
<1>1. PICK n \in Gap : \A m \in Gap : n <= m
  <2> HIDE DEF Gap
  <2>1. Gap \subseteq Nat
    BY DEF Gap
  <2> QED
    BY <2>1, LeastNumber
<1>2. PICK s \in SUBSET S : Cardinality(s) = n /\ ~Adds(s)
  BY <1>1
<1>3. \A u \in SUBSET S : Cardinality(u) < n => Adds(u)
  <2> SUFFICES ASSUME NEW u \in SUBSET S, Cardinality(u) < n, ~Adds(u) PROVE FALSE
    OBVIOUS
  <2>1. Cardinality(u) \in Nat /\ n \in Nat
    BY <1>0, <1>2
  <2>2. Cardinality(u) \in Gap
    BY <2>1
  <2> HIDE DEF Gap
  <2> QED
    BY <1>1, <2>1, <2>2
<1>4. PICK y \in S \ s : it[s \cup {y}] # g[y] + it[s]
  BY <1>2
<1> DEFINE v == s \cup {y}
           x == Picked(v)
<1>5. v \in SUBSET S /\ v # {} /\ x \in v /\ it[v] = g[x] + it[v \ {x}]
  BY <1>4, <1>a, PickedIn
<1>6. CASE x = y
  <2>1. v \ {x} = s
    BY <1>4, <1>6
  <2> QED
    BY <1>4, <1>5, <1>6, <2>1
<1>7. CASE x # y
  <2>1. x \in s /\ x \in S /\ s \ {x} \in SUBSET S /\ IsFiniteSet(s)
    BY <1>4, <1>5, <1>7, FS_Subset
  <2>2. Cardinality(s \ {x}) < n
    <3>1. Cardinality(s \ {x}) = Cardinality(s) - 1
      <4> HIDE DEF x, v, Gap
      <4> QED
        BY <2>1, FS_RemoveElement
    <3>2. Cardinality(s) \in Nat /\ Cardinality(s) = n
      BY <1>0, <1>2
    <3> QED
      BY <3>1, <3>2
  <2>3. Adds(s \ {x})
    BY <1>3, <2>1, <2>2
  <2>4. it[(s \ {x}) \cup {y}] = g[y] + it[s \ {x}]
    BY <1>4, <2>3
  <2>5. it[(s \ {x}) \cup {x}] = g[x] + it[s \ {x}]
    BY <2>1, <2>3
  <2>6. (s \ {x}) \cup {y} = v \ {x} /\ (s \ {x}) \cup {x} = s
    BY <1>4, <1>7, <2>1
  <2>7. g[x] \in Int /\ g[y] \in Int /\ it[s \ {x}] \in Int
    BY <1>4, <1>b, <2>1
  <2>8. it[v] = g[x] + (g[y] + it[s \ {x}]) /\ it[s] = g[x] + it[s \ {x}]
    BY <1>5, <2>4, <2>5, <2>6
  <2>9. it[v] = g[y] + it[s]
    BY <2>7, <2>8
  <2> QED
    BY <1>4, <2>9
<1> QED
  BY <1>6, <1>7

\* The sum of a part of the values of a function, as the fold of all of them goes on.
PartSum(g, s) == (CHOOSE it : IsSum(g, it, DOMAIN g))[s]

LEMMA PartSums ==
    ASSUME NEW S, IsFiniteSet(S), NEW g \in [S -> Int]
    PROVE  /\ PartSum(g, {}) = 0
           /\ \A s \in SUBSET S : PartSum(g, s) \in Int
           /\ FoldSeq(+, 0, g) = PartSum(g, S)
<1> DEFINE it == CHOOSE i : IsSum(g, i, S)
<1>1. IsSum(g, it, S)
  BY SumsExist
<1>2. DOMAIN g = S
  OBVIOUS
<1>3. \A s : PartSum(g, s) = it[s]
  BY <1>2 DEF PartSum
<1>4. FoldSeq(+, 0, g) = it[S]
  BY <1>2 DEF FoldSeq, FoldFunction, FoldFunctionOnSet, MapThenFoldSet, IsSum, Picked
<1> HIDE DEF it
<1>5. it[{}] = 0
  BY <1>1 DEF IsSum
<1>6. \A s \in SUBSET S : it[s] \in Int
  BY <1>1, SumsAreNumbers
<1> QED
  BY <1>3, <1>4, <1>5, <1>6

LEMMA PartSumAdds ==
    ASSUME NEW S, IsFiniteSet(S), NEW g \in [S -> Int], NEW s, s \subseteq S,
           NEW y \in S, y \notin s
    PROVE  PartSum(g, s \cup {y}) = g[y] + PartSum(g, s)
<1> DEFINE it == CHOOSE i : IsSum(g, i, S)
<1>1. IsSum(g, it, S)
  BY SumsExist
<1>2. \A u : PartSum(g, u) = it[u]
  BY DEF PartSum
<1> HIDE DEF it
<1>3. it[s \cup {y}] = g[y] + it[s]
  <2>1. s \in SUBSET S /\ y \in S \ s
    OBVIOUS
  <2> QED
    BY <1>1, <2>1, SumsAdd
<1> QED
  BY <1>2, <1>3

-----------------------------------------------------------------------------
(* Planning (TaskPlanning). *)

PlnEarly == {"translate", "context", "retrieved", "anchors", "planning"}

\* A job makes one plan, and one more for each death before it has come to the review.
PlnCounts == plnMade <= plnDeaths + (IF plnAt \in PlnEarly \cup {"dead"} THEN 0 ELSE 1)

PlnTyped == PlnTypeOK /\ PlnCounts

LEMMA PlnStageSet ==
    DOMAIN StageOf = {"intake", "translate", "retrieve", "plan", "review_pre", "awaiting_approval"}
<1>1. DOMAIN CheckpointStages = 1..6
  BY DEF CheckpointStages
<1>2. {CheckpointStages[i] : i \in 1..6}
        = {CheckpointStages[1], CheckpointStages[2], CheckpointStages[3], CheckpointStages[4],
           CheckpointStages[5], CheckpointStages[6]}
  OBVIOUS
<1> QED
  BY <1>1, <1>2 DEF StageOf, CheckpointStages

LEMMA PlnNew ==
    /\ 0 \in PlanIds /\ NoPlan \in Plans /\ NewTask \in Columns /\ NewJob \in Jobs
    /\ [NewJob EXCEPT !.resumed = TRUE] \in Jobs
    /\ NewTask.checkpoint \in Checkpoints
<1>1. 0 \in PlanIds
  BY PlanningAssumption DEF PlanIds
<1>2. NoPlan \in Plans
  BY <1>1 DEF NoPlan, Plans, Targets
<1>3. NewTask.checkpoint \in Checkpoints /\ NewTask.plan = NoPlan /\ NewTask.verdict = "none"
  BY <1>2, PlnStageSet DEF NewTask, Checkpoints, Verdicts
<1>4. NewTask \in Columns
  BY <1>2, <1>3 DEF NewTask, Columns, Verdicts
<1>5. NewJob \in Jobs
  BY PlanningAssumption DEF NewJob, Jobs
<1>6. [NewJob EXCEPT !.resumed = TRUE] \in Jobs
  BY <1>5 DEF Jobs
<1> QED
  BY <1>1, <1>2, <1>3, <1>4, <1>5, <1>6

\* A task with another plan, verdict or checkpoint is a task.
LEMMA PlnColumns ==
    ASSUME NEW task \in Columns, NEW plan \in Plans, NEW v \in Verdicts
    PROVE /\ task.plan \in Plans /\ task.verdict \in Verdicts /\ task.checkpoint \in Checkpoints
          /\ [task EXCEPT !.plan = plan] \in Columns
          /\ [task EXCEPT !.plan = plan].plan = plan
          /\ [task EXCEPT !.plan = plan].verdict = task.verdict
          /\ [task EXCEPT !.plan = plan].checkpoint = task.checkpoint
          /\ [task EXCEPT !.verdict = v] \in Columns
          /\ [task EXCEPT !.verdict = v].plan = task.plan
          /\ [task EXCEPT !.verdict = v].verdict = v
          /\ [task EXCEPT !.verdict = v].checkpoint = task.checkpoint
BY DEF Columns

LEMMA PlnCheckpointed ==
    ASSUME NEW task \in Columns, NEW stage \in DOMAIN StageOf, plnJob' \in Jobs
    PROVE /\ Checkpointed(task, stage) \in Columns
          /\ Checkpointed(task, stage).plan = task.plan
          /\ Checkpointed(task, stage).verdict = task.verdict
          /\ Checkpointed(task, stage).checkpoint \in Checkpoints
          /\ Checkpointed(task, stage).checkpoint.stage = stage
          /\ Checkpointed(task, stage).checkpoint.plan = task.plan
          /\ Checkpointed(task, stage).checkpoint.verdict = task.verdict
          /\ Checkpointed(task, stage).checkpoint.issue = plnJob'.issue
<1> DEFINE c == [stage |-> stage, plan |-> task.plan, issue |-> plnJob'.issue,
                 verdict |-> task.verdict]
<1>1. c \in Checkpoints
  BY DEF Checkpoints, Columns, Jobs
<1>2. c.stage = stage /\ c.plan = task.plan /\ c.issue = plnJob'.issue /\ c.verdict = task.verdict
  OBVIOUS
<1>3. Checkpointed(task, stage) = [task EXCEPT !.checkpoint = c]
  BY DEF Checkpointed
<1> HIDE DEF c
<1> QED
  BY <1>1, <1>2, <1>3 DEF Columns

\* What a step reads and writes of the task, as the events commit it.
LEMMA PlnCommits ==
    ASSUME PlnTyped, NEW stage \in DOMAIN StageOf, plnJob' \in Jobs
    PROVE /\ CommitThenCheckpoint(stage) =>
                /\ plnRow' \in Columns /\ plnRow'.plan = plnRow.plan
                /\ plnRow'.verdict = plnTask.verdict /\ plnRow'.checkpoint = plnTask.checkpoint
                /\ plnTask' = Checkpointed(plnTask, stage) /\ plnTask' \in Columns
          /\ plnTask' \in Columns /\ Saves =>
                /\ plnRow' \in Columns /\ plnRow'.plan = plnRow.plan
                /\ plnRow'.verdict = plnTask'.verdict /\ plnRow'.checkpoint = plnTask'.checkpoint
<1>1. plnTask \in Columns /\ plnRow.plan \in Plans
  BY PlnColumns DEF PlnTyped, PlnTypeOK
<1>2. Checkpointed(plnTask, stage) \in Columns
  BY <1>1, PlnCheckpointed
<1>3. ASSUME CommitThenCheckpoint(stage)
      PROVE /\ plnRow' \in Columns /\ plnRow'.plan = plnRow.plan
            /\ plnRow'.verdict = plnTask.verdict /\ plnRow'.checkpoint = plnTask.checkpoint
  <2>1. plnRow' = [plnTask EXCEPT !.plan = plnRow.plan]
    BY <1>3 DEF CommitThenCheckpoint
  <2> QED
    BY <1>1, <2>1 DEF Columns
<1>4. ASSUME plnTask' \in Columns, Saves
      PROVE /\ plnRow' \in Columns /\ plnRow'.plan = plnRow.plan
            /\ plnRow'.verdict = plnTask'.verdict /\ plnRow'.checkpoint = plnTask'.checkpoint
  <2> DEFINE t == plnTask'
  <2>1. plnRow' = [t EXCEPT !.plan = plnRow.plan]
    BY <1>4 DEF Saves
  <2>2. t \in Columns
    BY <1>4
  <2> HIDE DEF t
  <2>3. /\ plnRow' \in Columns /\ plnRow'.plan = plnRow.plan
        /\ plnRow'.verdict = t.verdict /\ plnRow'.checkpoint = t.checkpoint
    BY <1>1, <2>1, <2>2 DEF Columns
  <2> QED
    BY <2>3 DEF t
<1> QED
  BY <1>2, <1>3, <1>4 DEF CommitThenCheckpoint

\* Where the plan is made and where it is prepared.
LEMMA PlnTargets ==
    /\ \A t \in Defaults : t \in Targets /\ t.must # "unknown"
    /\ \A t \in Answers : t \in Targets /\ Validated(t) \in Targets /\ Validated(t).must # "unknown"
    /\ \A t \in Targets : \A u \in Prepared(t) :
          u \in Targets /\ (t.must # "unknown" => u.must # "unknown")
<1>1. \A t \in Defaults : t \in Targets /\ t.must # "unknown"
  BY DEF Defaults
<1>2. ASSUME NEW a \in Targets, NEW d \in Defaults PROVE Merged(a, d) \in Targets
  BY <1>1 DEF Merged, Targets
<1>3. ASSUME NEW t \in Targets, NEW u \in Sanitized(t) PROVE u \in Targets
  BY <1>3 DEF Sanitized, Targets
<1>4. ASSUME NEW t \in Answers
      PROVE t \in Targets /\ Validated(t) \in Targets /\ Validated(t).must # "unknown"
  <2>1. PICK a \in Targets, d \in Defaults : t \in Sanitized(Merged(a, d))
    BY DEF Answers
  <2>2. t \in Targets
    BY <1>2, <1>3, <2>1
  <2>3. CASE t.must = "unknown"
    <3>1. Validated(t) = [t EXCEPT !.must = "none"]
      BY <2>3 DEF Validated
    <3> QED
      BY <2>2, <3>1 DEF Targets
  <2>4. CASE t.must # "unknown"
    <3>1. Validated(t) = [t EXCEPT !.must = t.must]
      BY <2>4 DEF Validated
    <3> QED
      BY <2>2, <2>4, <3>1 DEF Targets
  <2> QED
    BY <2>3, <2>4
<1>5. ASSUME NEW t \in Targets, NEW u \in Bound(t)
      PROVE u \in Targets /\ (t.must # "unknown" => u.must # "unknown")
  BY <1>5 DEF Bound, Targets
<1>6. ASSUME NEW t \in Targets, NEW u \in Backfilled(t)
      PROVE u \in Targets /\ (t.must # "unknown" => u.must # "unknown")
  BY <1>6 DEF Backfilled, Targets
<1>7. ASSUME NEW t \in Targets, NEW u \in Prepared(t)
      PROVE u \in Targets /\ (t.must # "unknown" => u.must # "unknown")
  BY <1>5, <1>6, <1>7 DEF Prepared
<1> QED
  BY <1>1, <1>4, <1>7

-----------------------------------------------------------------------------
\* Nothing has been reviewed since the plan was made.
PlnBefore == PlnEarly \cup {"planned", "generated", "gate", "review"}
PlnAfter == {"review_pre", "awaiting_approval"}

\* A plan as it is committed: with its contracts, and validated.
PlnKept(p) == (p.due /\ ~p.amended => p.contracts) /\ p.to.must # "unknown"

\* The reviewer said v of the plan p.
PlnSaid(p, v, said) ==
    /\ v # "none" /\ p.id # 0 /\ said[p.id] = v
    /\ v # "rejected" => ~HasNoTargets(p.to)

\* What a checkpoint c holds where the job stands at.
PlnHolds(c, at, said) ==
    /\ PlnKept(c.plan)
    /\ at \in PlnBefore => c.stage \notin PlnAfter
    /\ c.stage = "awaiting_approval" => at \in {"awaiting", "executing", "failed"}
    /\ c.stage = "plan" => c.plan.id # 0
    /\ c.stage \in PlnAfter => PlnSaid(c.plan, c.verdict, said)

\* What the row and the task of the session are to each other.
PlnAgree(at, row, task, said) ==
    /\ PlnKept(row.plan)
    /\ at # "planned" => PlnKept(task.plan)
    /\ at = "planned" => task.plan.to.must # "unknown"
    /\ at \in {"planned", "generated", "gate", "review"} => task.plan.id # 0
    /\ at \in {"generated", "gate", "review", "decide", "ask", "awaiting"} =>
           row.plan.id = task.plan.id /\ row.plan.to = task.plan.to
    /\ at \in {"decide", "ask", "awaiting"} => PlnSaid(task.plan, task.verdict, said)
    /\ at \in {"ask", "awaiting"} => task.verdict = "requires_approval"
    /\ at = "dead" => task = row

\* Whoever has the issue, or has come to where it is needed, has read it.
PlnKnows(at, row, task) ==
    \/ row.checkpoint.issue \/ task.checkpoint.issue
    \/ row.checkpoint.stage \notin {"intake", "translate"}
    \/ task.checkpoint.stage \notin {"intake", "translate"}
    \/ at \notin {"translate", "context", "dead", "failed"}
PlnRead ==
    plnScenario \in {"plan", "develop", "writeback"}
        /\ (plnJob.issue \/ plnMade > 0 \/ PlnKnows(plnAt, plnRow, plnTask)) => plnFetched

PlnDone == ExecutedIsReviewed /\ ContractsSurvive /\ EditsHaveTargets

PlnInv ==
    /\ PlnHolds(plnRow.checkpoint, plnAt, plnVerdicts)
    /\ PlnHolds(plnTask.checkpoint, plnAt, plnVerdicts)
    /\ PlnAgree(plnAt, plnRow, plnTask, plnVerdicts)
    /\ plnAt = "planned" => plnTask.plan.due = plnJob.playbook
    /\ plnAt = "awaiting" => plnApproval.plan = plnRow.plan.id
    /\ PlnRead /\ PlnDone

\* A checkpoint holds what it does where the job goes on, or fails, or dies.
LEMMA PlnHoldsOn ==
    ASSUME NEW c, NEW at, NEW next, NEW said, PlnHolds(c, at, said),
           \/ next = "failed"
           \/ at \in PlnBefore /\ next \in PlnBefore \cup {"dead"}
           \/ at \in {"decide", "ask"} /\ next \in {"decide", "ask", "executing", "awaiting", "dead"}
           \/ at = "awaiting" /\ next = "executing"
    PROVE PlnHolds(c, next, said)
BY DEF PlnHolds, PlnBefore, PlnEarly

\* Nothing is done before the end.
LEMMA PlnNotDone == ASSUME plnAt' # "executing" PROVE PlnDone'
BY DEF PlnDone, ExecutedIsReviewed, ContractsSurvive, EditsHaveTargets

LEMMA PlnStarts == PlnInit => PlnTyped /\ PlnInv
<1> SUFFICES ASSUME PlnInit PROVE PlnTyped /\ PlnInv
  OBVIOUS
<1>1. PlnTypeOK
  <2>1. plnApproval \in [st : {"none", "pending", "granted", "rejected"}, plan : PlanIds]
    BY PlnNew DEF PlnInit
  <2>2. plnVerdicts \in [PlanIds -> Verdicts] /\ plnDeaths \in 0..MaxPlnDeaths
    BY PlanningAssumption DEF PlnInit, Verdicts
  <2> QED
    BY <2>1, <2>2, PlnNew DEF PlnInit, PlnTypeOK, PlnRunning
<1>2. PlnCounts
  BY DEF PlnInit, PlnCounts, PlnEarly
<1>3. PlnKept(NoPlan) /\ NewTask.plan = NoPlan /\ NewTask.checkpoint.plan = NoPlan
      /\ NewTask.checkpoint.stage = "intake" /\ NewTask.checkpoint.issue = FALSE
      /\ NewJob.issue = FALSE
  BY DEF PlnKept, NoPlan, NewTask, NewJob
<1>4. PlnInv
  BY <1>3 DEF PlnInit, PlnInv, PlnHolds, PlnAgree, PlnRead, PlnKnows, PlnAfter, PlnDone,
              ExecutedIsReviewed, ContractsSurvive, EditsHaveTargets
<1> QED
  BY <1>1, <1>2, <1>4 DEF PlnTyped

\* The task fails where it is.
LEMMA PlnFailing ==
    ASSUME PlnTyped, PlnInv, NEW here \in PlnRunning \ {"planned"}, PlnFails(here)
    PROVE PlnTyped' /\ PlnInv'
<1> USE DEF PlnFails, PlnGo, PlnKeepsTask, PlnKeepsPlan, PlnKeepsRest
<1>1. PlnTypeOK'
  BY DEF PlnTyped, PlnTypeOK, PlnEnds
<1>2. PlnCounts'
  BY PlanningAssumption DEF PlnTyped, PlnTypeOK, PlnCounts, PlnEarly, PlanIds
<1>3. PlnInv'
  <2>1. PlnHolds(plnRow.checkpoint, plnAt, plnVerdicts)'
    BY PlnHoldsOn DEF PlnInv
  <2>2. PlnHolds(plnTask.checkpoint, plnAt, plnVerdicts)'
    BY PlnHoldsOn DEF PlnInv
  <2>3. PlnAgree(plnAt, plnRow, plnTask, plnVerdicts)'
    BY DEF PlnInv, PlnAgree
  <2>4. PlnRead'
    BY DEF PlnInv, PlnRead, PlnKnows
  <2> QED
    BY <2>1, <2>2, <2>3, <2>4, PlnNotDone DEF PlnInv
<1> QED
  BY <1>1, <1>2, <1>3 DEF PlnTyped

\* The place and the counts, where no plan is made.
LEMMA PlnMoves ==
    ASSUME PlnTyped, plnMade' = plnMade, plnDeaths' = plnDeaths,
           plnAt' \notin PlnEarly \cup {"dead"} \/ plnAt \in PlnEarly \cup {"dead"}
    PROVE PlnCounts'
BY PlanningAssumption DEF PlnTyped, PlnTypeOK, PlnCounts, PlanIds

\* The context is found: what the events commit is the task, and its checkpoint is new.
LEMMA PlnContext ==
    ASSUME PlnTyped, PlnInv, Translate \/ FetchIssue \/ LocalContext
    PROVE PlnTyped' /\ PlnInv'
<1>0. plnRow \in Columns /\ plnTask \in Columns /\ plnJob \in Jobs /\ plnFetched \in BOOLEAN
  BY DEF PlnTyped, PlnTypeOK
<1>1. /\ plnAt \in PlnEarly /\ plnAt' \in PlnEarly \ {"translate"}
      /\ UNCHANGED <<plnScenario, plnApproval, plnDeaths, plnExecuted, plnMade, plnVerdicts>>
  BY DEF Translate, FetchIssue, LocalContext, PlnGo, PlnEarly, PlnKeepsPlan, PlnKeepsRest
<1>2. PICK stage \in {"translate", "retrieve"} :
        /\ CommitThenCheckpoint(stage)
        /\ stage = "translate" => plnJob' = plnJob /\ plnFetched' = plnFetched /\ plnAt' = "context"
        /\ stage = "retrieve" =>
               \/ plnFetched' = TRUE
               \/ plnFetched' = plnFetched
                    /\ (plnScenario \in {"plan", "develop", "writeback"} => plnJob.issue)
  BY DEF Translate, FetchIssue, LocalContext, NeedsIssue, PlnGo, PlnKeepsRest
<1>3. plnJob' \in Jobs /\ plnFetched' \in BOOLEAN /\ (plnFetched => plnFetched')
  <2>1. /\ [plnJob EXCEPT !.issue = TRUE] \in Jobs
        /\ \A b \in BOOLEAN : [plnJob EXCEPT !.issue = b] \in Jobs
    BY <1>0 DEF Jobs
  <2>2. (plnScenario # "other") \in BOOLEAN
    OBVIOUS
  <2> QED
    BY <1>0, <2>1, <2>2 DEF Translate, FetchIssue, LocalContext, PlnKeepsRest
<1>4. stage \in DOMAIN StageOf
  BY PlnStageSet
<1>5. /\ plnRow' \in Columns /\ plnRow'.plan = plnRow.plan
      /\ plnRow'.verdict = plnTask.verdict /\ plnRow'.checkpoint = plnTask.checkpoint
      /\ plnTask' = Checkpointed(plnTask, stage) /\ plnTask' \in Columns
  BY <1>2, <1>3, <1>4, PlnCommits
<1>6. /\ plnTask'.plan = plnTask.plan /\ plnTask'.checkpoint.stage = stage
      /\ plnTask'.checkpoint.plan = plnTask.plan /\ plnTask'.checkpoint.issue = plnJob'.issue
  BY <1>0, <1>3, <1>4, <1>5, PlnCheckpointed
<1>7. PlnTypeOK'
  BY <1>1, <1>3, <1>5 DEF PlnTyped, PlnTypeOK, PlnEarly, PlnRunning
<1>8. PlnCounts'
  BY <1>1, PlnMoves
<1>9. PlnInv'
  <2>1. PlnHolds(plnRow.checkpoint, plnAt, plnVerdicts)'
    BY <1>1, <1>5, PlnHoldsOn DEF PlnInv, PlnBefore
  <2>2. PlnHolds(plnTask.checkpoint, plnAt, plnVerdicts)'
    BY <1>1, <1>2, <1>6 DEF PlnInv, PlnHolds, PlnAgree, PlnAfter, PlnEarly
  <2>3. PlnAgree(plnAt, plnRow, plnTask, plnVerdicts)'
    BY <1>1, <1>5, <1>6 DEF PlnInv, PlnAgree, PlnEarly
  <2>4. PlnRead'
    BY <1>0, <1>1, <1>2, <1>3, <1>5, <1>6 DEF PlnInv, PlnRead, PlnKnows
  <2> QED
    BY <1>1, <2>1, <2>2, <2>3, <2>4, PlnNotDone DEF PlnInv, PlnEarly
<1> QED
  BY <1>7, <1>8, <1>9 DEF PlnTyped

\* The row is the task of the session, but for its plan, or nothing of them changes.
LEMMA PlnSaving ==
    ASSUME PlnTyped, PlnInv, plnTask' = plnTask,
           \/ plnRow' = plnRow
           \/ plnRow' = [plnTask EXCEPT !.plan = plnRow.plan],
           plnAt \in PlnEarly, plnAt' \in PlnEarly \ {"translate", "context"},
           plnAt \notin {"translate", "context"},
           plnJob' \in Jobs, plnJob'.issue = plnJob.issue,
           UNCHANGED <<plnScenario, plnApproval, plnFetched, plnDeaths, plnExecuted, plnMade,
                       plnVerdicts>>
    PROVE PlnTyped' /\ PlnInv'
<1>1. /\ plnRow' \in Columns /\ plnTask' \in Columns /\ plnRow'.plan = plnRow.plan
      /\ plnRow'.checkpoint \in {plnRow.checkpoint, plnTask.checkpoint}
  <2>1. plnRow \in Columns /\ plnTask \in Columns
    BY DEF PlnTyped, PlnTypeOK
  <2> QED
    BY <2>1 DEF Columns
<1>2. PlnTypeOK'
  BY <1>1 DEF PlnTyped, PlnTypeOK, PlnEarly, PlnRunning
<1>3. PlnCounts'
  BY PlnMoves
<1>4. PlnInv'
  <2>1. PlnHolds(plnRow.checkpoint, plnAt, plnVerdicts)'
    BY <1>1, PlnHoldsOn DEF PlnInv, PlnBefore
  <2>2. PlnHolds(plnTask.checkpoint, plnAt, plnVerdicts)'
    BY PlnHoldsOn DEF PlnInv, PlnBefore
  <2>3. PlnAgree(plnAt, plnRow, plnTask, plnVerdicts)'
    BY <1>1 DEF PlnInv, PlnAgree, PlnEarly
  <2>4. PlnRead'
    BY <1>1 DEF PlnInv, PlnRead, PlnKnows, PlnEarly
  <2> QED
    BY <2>1, <2>2, <2>3, <2>4, PlnNotDone DEF PlnInv, PlnEarly
<1> QED
  BY <1>2, <1>3, <1>4 DEF PlnTyped

LEMMA PlnClassifies ==
    ASSUME PlnTyped, PlnInv, Classify \/ AnchorsFound \/ ProviderFails
    PROVE PlnTyped' /\ PlnInv'
<1>0. plnJob \in Jobs
  BY DEF PlnTyped, PlnTypeOK
<1>1. plnJob' \in Jobs /\ plnJob'.issue = plnJob.issue
  <2>1. CASE Classify
    BY <1>0, <2>1 DEF Classify, Jobs
  <2>2. CASE AnchorsFound
    BY <1>0, <2>2 DEF AnchorsFound
  <2>3. CASE ProviderFails
    <3>1. plnJob.tried + 1 \in 0..PlnChain
      BY <1>0, <2>3, PlanningAssumption DEF ProviderFails, Jobs
    <3> DEFINE n == plnJob.tried + 1
    <3>2. plnJob' = [plnJob EXCEPT !.tried = n]
      BY <2>3 DEF ProviderFails
    <3> HIDE DEF n
    <3>3. n \in 0..PlnChain
      BY <3>1 DEF n
    <3> QED
      BY <1>0, <3>2, <3>3 DEF Jobs
  <2> QED
    BY <2>1, <2>2, <2>3
<1>2. /\ plnTask' = plnTask
      /\ plnRow' = plnRow \/ plnRow' = [plnTask EXCEPT !.plan = plnRow.plan]
  BY DEF Classify, AnchorsFound, ProviderFails, Saves, PlnKeepsTask
<1>3. /\ plnAt \in PlnEarly \ {"translate", "context"}
      /\ plnAt' \in PlnEarly \ {"translate", "context"}
      /\ UNCHANGED <<plnScenario, plnApproval, plnFetched, plnDeaths, plnExecuted, plnMade,
                     plnVerdicts>>
  BY DEF Classify, AnchorsFound, ProviderFails, PlnGo, PlnEarly, PlnKeepsPlan, PlnKeepsRest
<1> QED
  BY <1>1, <1>2, <1>3, PlnSaving

\* A plan is made: of the playbook that was matched, and validated.
LEMMA PlnMakes ==
    ASSUME PlnTyped, PlnInv, NEW targets, MakesPlan(targets),
           \A t \in targets : t \in Targets /\ t.must # "unknown"
    PROVE PlnTyped' /\ PlnInv'
<1>0. /\ plnTask \in Columns /\ plnJob \in Jobs /\ plnMade \in PlanIds
      /\ plnDeaths \in 0..MaxPlnDeaths /\ plnAt = "planning" /\ plnAt' = "planned"
      /\ plnMade <= plnDeaths
  BY DEF PlnTyped, PlnTypeOK, PlnCounts, PlnEarly, MakesPlan, PlnGo
<1>1. plnMade + 1 \in PlanIds /\ plnMade' = plnMade + 1 /\ plnMade + 1 # 0
      /\ plnMade' <= plnDeaths + 1
  BY <1>0, PlanningAssumption DEF MakesPlan, PlanIds
<1>2. PICK t \in targets :
        plnTask' = [plnTask EXCEPT !.plan = [NoPlan EXCEPT !.id = plnMade + 1, !.to = t,
                                                          !.due = plnJob.playbook]]
  BY DEF MakesPlan
<1>3. t \in Targets /\ t.must # "unknown"
  OBVIOUS
<1> DEFINE id == plnMade + 1
<1> DEFINE book == plnJob.playbook
<1> DEFINE p == [NoPlan EXCEPT !.id = id, !.to = t, !.due = book]
<1>4. id \in PlanIds /\ book \in BOOLEAN /\ id # 0
  BY <1>0, <1>1 DEF Jobs
<1>5. plnTask' = [plnTask EXCEPT !.plan = p]
  BY <1>2
<1>6. p \in Plans /\ p.id = id /\ p.to = t /\ p.due = book
  <2> HIDE DEF id, book
  <2> QED
    BY <1>3, <1>4 DEF NoPlan, Plans
<1> HIDE DEF p
<1>7. plnTask' \in Columns /\ plnTask'.plan = p /\ plnTask'.checkpoint = plnTask.checkpoint
  BY <1>0, <1>5, <1>6 DEF Columns
<1>8. UNCHANGED <<plnRow, plnJob, plnExecuted, plnVerdicts, plnScenario, plnApproval, plnFetched,
                  plnDeaths>>
  BY DEF MakesPlan, PlnKeepsRest
<1>9. PlnTypeOK'
  BY <1>0, <1>1, <1>7, <1>8 DEF PlnTyped, PlnTypeOK, PlnRunning
<1>10. PlnCounts'
  BY <1>0, <1>1, <1>8 DEF PlnCounts, PlnEarly
<1>11. PlnInv'
  <2>1. PlnHolds(plnRow.checkpoint, plnAt, plnVerdicts)'
    BY <1>0, <1>8, PlnHoldsOn DEF PlnInv, PlnBefore, PlnEarly
  <2>2. PlnHolds(plnTask.checkpoint, plnAt, plnVerdicts)'
    BY <1>0, <1>7, <1>8, PlnHoldsOn DEF PlnInv, PlnBefore, PlnEarly
  <2>3. PlnAgree(plnAt, plnRow, plnTask, plnVerdicts)'
    BY <1>0, <1>3, <1>4, <1>6, <1>7, <1>8 DEF PlnInv, PlnAgree
  <2>4. PlnRead'
    BY <1>0, <1>7, <1>8 DEF PlnInv, PlnRead, PlnKnows
  <2>5. plnTask'.plan.due = plnJob'.playbook
    BY <1>6, <1>7, <1>8
  <2> QED
    BY <1>0, <2>1, <2>2, <2>3, <2>4, <2>5, PlnNotDone DEF PlnInv
<1> QED
  BY <1>9, <1>10, <1>11 DEF PlnTyped

LEMMA PlnPlans ==
    ASSUME PlnTyped, PlnInv, FastPath \/ ProviderAnswers \/ FallbackPlan
    PROVE PlnTyped' /\ PlnInv'
<1>1. CASE FastPath
  BY <1>1, PlnTargets, PlnMakes DEF FastPath
<1>2. CASE ProviderAnswers
  BY <1>2, PlnTargets, PlnMakes DEF ProviderAnswers
<1>3. CASE FallbackPlan
  BY <1>3, PlnTargets, PlnMakes DEF FallbackPlan
<1> QED
  BY <1>1, <1>2, <1>3

\* The plan is committed with its contracts, but for one that was amended.
LEMMA PlnGenerates ==
    ASSUME PlnTyped, PlnInv, Generated
    PROVE PlnTyped' /\ PlnInv'
<1>0. /\ plnTask \in Columns /\ plnTask.plan \in Plans /\ plnJob \in Jobs
      /\ plnTask.plan.to \in Targets
      /\ plnAt = "planned" /\ plnAt' = "generated"
  BY PlnColumns DEF PlnTyped, PlnTypeOK, Generated, PlnGo, Plans
<1>1. PICK t \in Prepared(plnTask.plan.to), amended \in BOOLEAN :
        /\ plnTask' = [plnTask EXCEPT !.plan.to = t, !.plan.contracts = plnJob.playbook,
                                      !.plan.amended = amended]
        /\ plnRow' = [plnTask' EXCEPT !.plan.contracts = plnJob.playbook /\ ~amended]
  BY DEF Generated
<1>2. t \in Targets /\ t.must # "unknown"
  BY <1>0, PlnTargets DEF PlnInv, PlnAgree
<1> DEFINE book == plnJob.playbook
<1> DEFINE kept == plnJob.playbook /\ ~amended
<1> DEFINE p == [plnTask.plan EXCEPT !.to = t, !.contracts = book, !.amended = amended]
<1> DEFINE q == [p EXCEPT !.contracts = kept]
<1>3. book \in BOOLEAN /\ kept \in BOOLEAN /\ (kept <=> book /\ ~amended)
  BY <1>0 DEF Jobs
<1>4. plnTask.plan.due = book /\ plnTask.plan.id # 0
  BY <1>0 DEF PlnInv, PlnAgree
<1>5. plnTask' = [plnTask EXCEPT !.plan = p]
  BY <1>0, <1>1 DEF Columns, Plans
<1>6. /\ p \in Plans /\ p.id = plnTask.plan.id /\ p.to = t /\ p.due = book
      /\ p.contracts = book /\ p.amended = amended
  <2> HIDE DEF book
  <2> QED
    BY <1>0, <1>2, <1>3, <1>4 DEF Plans
<1>7. plnTask' \in Columns /\ plnTask'.plan = p /\ plnTask'.checkpoint = plnTask.checkpoint
  <2> HIDE DEF p
  <2> QED
    BY <1>0, <1>5, <1>6 DEF Columns
<1>8. q \in Plans /\ q.id = p.id /\ q.to = t /\ q.due = book /\ q.contracts = kept
      /\ q.amended = amended
  <2> HIDE DEF p, kept, book
  <2> QED
    BY <1>3, <1>6 DEF Plans
<1>9. plnRow' = [plnTask' EXCEPT !.plan = q]
  <2>1. plnRow' = [plnTask' EXCEPT !.plan.contracts = kept]
    BY <1>1
  <2> HIDE DEF p, kept
  <2> QED
    BY <1>7, <2>1 DEF Columns, Plans
<1> HIDE DEF p, q, book, kept
<1>10. plnRow' \in Columns /\ plnRow'.plan = q /\ plnRow'.checkpoint = plnTask.checkpoint
  BY <1>7, <1>8, <1>9 DEF Columns
<1>11. UNCHANGED <<plnJob, plnExecuted, plnMade, plnVerdicts, plnScenario, plnApproval, plnFetched,
                   plnDeaths>>
  BY DEF Generated, PlnKeepsPlan, PlnKeepsRest
<1>12. PlnTypeOK'
  BY <1>0, <1>7, <1>10, <1>11 DEF PlnTyped, PlnTypeOK, PlnRunning
<1>13. PlnCounts'
  BY <1>0, <1>11, PlnMoves DEF PlnEarly
<1>14. PlnInv'
  <2>1. PlnHolds(plnRow.checkpoint, plnAt, plnVerdicts)'
    BY <1>0, <1>10, <1>11, PlnHoldsOn DEF PlnInv, PlnBefore, PlnEarly
  <2>2. PlnHolds(plnTask.checkpoint, plnAt, plnVerdicts)'
    BY <1>0, <1>7, <1>11, PlnHoldsOn DEF PlnInv, PlnBefore, PlnEarly
  <2>3. PlnKept(p) /\ PlnKept(q)
    BY <1>2, <1>3, <1>6, <1>8 DEF PlnKept
  <2>4. PlnAgree(plnAt, plnRow, plnTask, plnVerdicts)'
    BY <1>0, <1>4, <1>6, <1>7, <1>8, <1>10, <1>11, <2>3 DEF PlnAgree
  <2>5. PlnRead'
    BY <1>0, <1>7, <1>10, <1>11 DEF PlnInv, PlnRead, PlnKnows
  <2> QED
    BY <1>0, <2>1, <2>2, <2>4, <2>5, PlnNotDone DEF PlnInv
<1> QED
  BY <1>12, <1>13, <1>14 DEF PlnTyped

LEMMA PlnSaves ==
    ASSUME PlnTyped, PlnInv, SavePlan
    PROVE PlnTyped' /\ PlnInv'
<1>0. /\ plnTask \in Columns /\ plnJob' = plnJob /\ plnJob \in Jobs
      /\ plnAt = "generated" /\ plnAt' \in {"gate", "review"}
      /\ UNCHANGED <<plnExecuted, plnMade, plnVerdicts, plnScenario, plnApproval, plnFetched,
                     plnDeaths>>
  BY DEF PlnTyped, PlnTypeOK, SavePlan, PlnGo, PlnKeepsPlan, PlnKeepsRest
<1>1. /\ plnTask' \in Columns /\ plnTask'.plan = plnTask.plan
      /\ plnTask'.checkpoint.stage = "plan" /\ plnTask'.checkpoint.plan = plnTask.plan
  BY <1>0, PlnStageSet, PlnCheckpointed DEF SavePlan
<1>2. /\ plnRow' \in Columns /\ plnRow'.plan = plnRow.plan
      /\ plnRow'.checkpoint = plnTask'.checkpoint
  BY <1>0, <1>1, PlnStageSet, PlnCommits DEF SavePlan
<1>3. PlnTypeOK'
  BY <1>0, <1>1, <1>2 DEF PlnTyped, PlnTypeOK, PlnRunning
<1>4. PlnCounts'
  BY <1>0, PlnMoves DEF PlnEarly
<1>5. PlnInv'
  <2>1. PlnHolds(plnTask.checkpoint, plnAt, plnVerdicts)'
    BY <1>0, <1>1 DEF PlnInv, PlnHolds, PlnAgree, PlnAfter
  <2>2. PlnHolds(plnRow.checkpoint, plnAt, plnVerdicts)'
    BY <1>2, <2>1
  <2>3. PlnAgree(plnAt, plnRow, plnTask, plnVerdicts)'
    BY <1>0, <1>1, <1>2 DEF PlnInv, PlnAgree
  <2>4. PlnRead'
    BY <1>0 DEF PlnInv, PlnRead, PlnKnows
  <2> QED
    BY <1>0, <2>1, <2>2, <2>3, <2>4, PlnNotDone DEF PlnInv
<1> QED
  BY <1>3, <1>4, <1>5 DEF PlnTyped

LEMMA PlnPasses ==
    ASSUME PlnTyped, PlnInv, GatePasses \/ PassWithGate
    PROVE PlnTyped' /\ PlnInv'
<1>0. /\ plnRow \in Columns /\ plnTask \in Columns /\ plnTask' = plnTask
      /\ \/ plnAt = "gate" /\ plnAt' = "review"
         \/ plnAt = "decide" /\ plnAt' = "ask" /\ plnTask.verdict = "requires_approval"
      /\ UNCHANGED <<plnJob, plnExecuted, plnMade, plnVerdicts, plnScenario, plnApproval,
                     plnFetched, plnDeaths>>
  BY DEF PlnTyped, PlnTypeOK, GatePasses, PassWithGate, PlnGo, PlnKeepsTask, PlnKeepsPlan,
         PlnKeepsRest
<1>1. plnRow' = plnRow \/ plnRow' = [plnTask EXCEPT !.plan = plnRow.plan]
  BY <1>0 DEF GatePasses, PassWithGate, PlnKeepsTask, Saves
<1>2. /\ plnRow' \in Columns /\ plnRow'.plan = plnRow.plan
      /\ plnRow'.checkpoint \in {plnRow.checkpoint, plnTask.checkpoint}
  BY <1>0, <1>1 DEF Columns
<1>3. PlnTypeOK'
  BY <1>0, <1>2 DEF PlnTyped, PlnTypeOK, PlnRunning
<1>4. PlnCounts'
  BY <1>0, PlnMoves DEF PlnEarly
<1>5. PlnInv'
  <2>1. PlnHolds(plnTask.checkpoint, plnAt, plnVerdicts)'
    BY <1>0, PlnHoldsOn DEF PlnInv, PlnBefore, PlnEarly
  <2>2. PlnHolds(plnRow.checkpoint, plnAt, plnVerdicts)'
    BY <1>0, <1>2, PlnHoldsOn DEF PlnInv, PlnBefore, PlnEarly
  <2>3. PlnAgree(plnAt, plnRow, plnTask, plnVerdicts)'
    BY <1>0, <1>2 DEF PlnInv, PlnAgree
  <2>4. PlnRead'
    BY <1>0 DEF PlnInv, PlnRead, PlnKnows
  <2> QED
    BY <1>0, <2>1, <2>2, <2>3, <2>4, PlnNotDone DEF PlnInv
<1> QED
  BY <1>3, <1>4, <1>5 DEF PlnTyped

\* The reviewer speaks of the plan before it is committed that he did.
LEMMA PlnReviews ==
    ASSUME PlnTyped, PlnInv, ReviewPlan
    PROVE PlnTyped' /\ PlnInv'
<1>0. /\ plnRow \in Columns /\ plnTask \in Columns /\ plnJob' = plnJob /\ plnJob \in Jobs
      /\ plnTask.plan.id \in PlanIds /\ plnVerdicts \in [PlanIds -> Verdicts]
      /\ plnAt = "review" /\ plnAt' = "decide"
      /\ UNCHANGED <<plnExecuted, plnMade, plnScenario, plnApproval, plnFetched, plnDeaths>>
  BY PlnColumns DEF PlnTyped, PlnTypeOK, ReviewPlan, PlnGo, PlnKeepsRest, Plans, Columns
<1>1. PICK v \in Verdicts \ {"none"} :
        /\ HasNoTargets(plnTask.plan.to) => v = "rejected"
        /\ plnTask' = Checkpointed([plnTask EXCEPT !.verdict = v], "review_pre")
        /\ plnVerdicts' = [plnVerdicts EXCEPT ![plnTask.plan.id] = v]
  BY DEF ReviewPlan
<1> DEFINE t == [plnTask EXCEPT !.verdict = v]
<1>2. /\ t \in Columns /\ t.plan = plnTask.plan /\ t.verdict = v
  BY <1>0 DEF Columns
<1>3. plnTask' = Checkpointed(t, "review_pre")
  BY <1>1
<1> HIDE DEF t
<1>4. /\ plnTask' \in Columns /\ plnTask'.plan = plnTask.plan /\ plnTask'.verdict = v
      /\ plnTask'.checkpoint.plan = plnTask.plan /\ plnTask'.checkpoint.verdict = v
      /\ plnTask'.checkpoint.stage = "review_pre"
  BY <1>0, <1>2, <1>3, PlnStageSet, PlnCheckpointed
<1>5. /\ plnVerdicts' \in [PlanIds -> Verdicts] /\ plnVerdicts'[plnTask.plan.id] = v
  BY <1>0, <1>1
<1>6. /\ plnRow' \in Columns /\ plnRow'.plan = plnRow.plan
      /\ plnRow'.checkpoint = plnTask.checkpoint
  <2>1. plnRow' = [plnTask EXCEPT !.plan = plnRow.plan]
    BY DEF ReviewPlan
  <2> QED
    BY <1>0, <2>1 DEF Columns
<1>7. PlnTypeOK'
  BY <1>0, <1>4, <1>5, <1>6 DEF PlnTyped, PlnTypeOK, PlnRunning
<1>8. PlnCounts'
  BY <1>0, PlnMoves DEF PlnEarly, ReviewPlan
<1>9. PlnInv'
  <2>1. PlnSaid(plnTask.plan, v, plnVerdicts') /\ PlnKept(plnTask.plan)
    BY <1>0, <1>1, <1>5 DEF PlnInv, PlnAgree, PlnSaid
  <2>2. PlnHolds(plnTask.checkpoint, plnAt, plnVerdicts)'
    BY <1>0, <1>4, <2>1 DEF PlnHolds, PlnBefore, PlnEarly
  <2>3. PlnHolds(plnRow.checkpoint, plnAt, plnVerdicts)'
    BY <1>0, <1>6 DEF PlnInv, PlnHolds, PlnBefore, PlnEarly, PlnAfter
  <2>4. PlnAgree(plnAt, plnRow, plnTask, plnVerdicts)'
    BY <1>0, <1>4, <1>6, <2>1 DEF PlnInv, PlnAgree
  <2>5. PlnRead'
    BY <1>0 DEF PlnInv, PlnRead, PlnKnows
  <2> QED
    BY <1>0, <2>2, <2>3, <2>4, <2>5, PlnNotDone DEF PlnInv
<1> QED
  BY <1>7, <1>8, <1>9 DEF PlnTyped

\* A plan that was said to be fit has something to edit.
LEMMA PlnFit ==
    ASSUME NEW p \in Plans, NEW v, NEW said, PlnKept(p), PlnSaid(p, v, said), v # "rejected"
    PROVE /\ p.due /\ ~p.amended => p.contracts
          /\ p.to.coding => p.to.must = "known" \/ p.to.new
BY DEF PlnKept, PlnSaid, HasNoTargets, Plans, Targets

\* What is carried out: the plan of the task, or that of the row.
LEMMA PlnExecutes ==
    ASSUME PlnTyped, PlnInv, ExecuteApproved \/ GrantPlan
    PROVE PlnTyped' /\ PlnInv'
<1>0. /\ plnRow \in Columns /\ plnTask \in Columns
      /\ plnRow.plan \in Plans /\ plnTask.plan \in Plans
      /\ plnAt \in {"decide", "awaiting"} /\ plnAt' = "executing"
      /\ UNCHANGED <<plnJob, plnMade, plnVerdicts, plnScenario, plnFetched, plnDeaths>>
  BY PlnColumns
     DEF PlnTyped, PlnTypeOK, ExecuteApproved, GrantPlan, PlnGo, PlnKeepsRest
<1>1. /\ plnRow' \in Columns /\ plnTask' \in Columns
      /\ plnRow'.plan = plnRow.plan /\ plnTask'.plan \in {plnTask.plan, plnRow.plan}
      /\ plnRow'.checkpoint \in {plnRow.checkpoint, plnTask.checkpoint}
      /\ plnTask'.checkpoint \in {plnRow.checkpoint, plnTask.checkpoint}
      /\ plnExecuted' \in {plnTask.plan, plnRow.plan}
      /\ plnApproval' \in [st : {"none", "pending", "granted", "rejected"}, plan : PlanIds]
  <2>1. CASE ExecuteApproved
    <3>1. plnRow' = [plnTask EXCEPT !.plan = plnRow.plan] /\ plnTask' = plnTask
      BY <2>1 DEF ExecuteApproved, Saves
    <3>2. /\ plnRow' \in Columns /\ plnRow'.plan = plnRow.plan
          /\ plnRow'.checkpoint = plnTask.checkpoint
      BY <1>0, <3>1 DEF Columns
    <3> QED
      BY <1>0, <2>1, <3>1, <3>2 DEF ExecuteApproved, PlnKeepsRest, PlnTyped, PlnTypeOK
  <2>2. CASE GrantPlan
    BY <1>0, <2>2 DEF GrantPlan, PlnTyped, PlnTypeOK
  <2> QED
    BY <2>1, <2>2
<1>2. PlnKept(plnRow.plan) /\ PlnKept(plnTask.plan)
  BY <1>0 DEF PlnInv, PlnAgree
<1>3. PlnDone'
  <2>1. CASE ExecuteApproved
    <3>1. plnTask.verdict = "approved" /\ plnExecuted' = plnTask.plan /\ plnAt = "decide"
      BY <2>1 DEF ExecuteApproved, PlnGo
    <3>2. PlnSaid(plnTask.plan, "approved", plnVerdicts)
      BY <3>1 DEF PlnInv, PlnAgree
    <3>3. plnVerdicts'[plnExecuted'.id] = "approved"
      BY <1>0, <3>1, <3>2 DEF PlnSaid
    <3> QED
      BY <1>0, <1>2, <3>1, <3>2, <3>3, PlnFit
         DEF PlnDone, ExecutedIsReviewed, ContractsSurvive, EditsHaveTargets
  <2>2. CASE GrantPlan
    <3>1. /\ plnExecuted' = plnRow.plan /\ plnAt = "awaiting"
          /\ plnApproval' = [plnApproval EXCEPT !.st = "granted"]
      BY <2>2 DEF GrantPlan, PlnGo
    <3>2. PlnSaid(plnRow.plan, "requires_approval", plnVerdicts)
      BY <3>1 DEF PlnInv, PlnAgree, PlnSaid
    <3>3. plnVerdicts'[plnExecuted'.id] = "requires_approval"
      BY <1>0, <3>1, <3>2 DEF PlnSaid
    <3>4. plnApproval' = [st |-> "granted", plan |-> plnExecuted'.id]
      <4>1. plnApproval.plan = plnExecuted'.id
        BY <3>1 DEF PlnInv
      <4> QED
        BY <3>1, <4>1 DEF PlnTyped, PlnTypeOK
    <3> QED
      BY <1>0, <1>2, <3>1, <3>2, <3>3, <3>4, PlnFit
         DEF PlnDone, ExecutedIsReviewed, ContractsSurvive, EditsHaveTargets
  <2> QED
    BY <2>1, <2>2
<1>4. PlnTypeOK'
  BY <1>0, <1>1 DEF PlnTyped, PlnTypeOK, PlnEnds
<1>5. PlnCounts'
  BY <1>0, PlnMoves DEF PlnEarly
<1>6. PlnInv'
  <2>1. PlnHolds(plnTask.checkpoint, "executing", plnVerdicts)
    BY <1>0, PlnHoldsOn DEF PlnInv
  <2>2. PlnHolds(plnRow.checkpoint, "executing", plnVerdicts)
    BY <1>0, PlnHoldsOn DEF PlnInv
  <2>3. /\ PlnHolds(plnRow.checkpoint, plnAt, plnVerdicts)'
        /\ PlnHolds(plnTask.checkpoint, plnAt, plnVerdicts)'
    BY <1>0, <1>1, <2>1, <2>2
  <2>4. PlnAgree(plnAt, plnRow, plnTask, plnVerdicts)'
    BY <1>0, <1>1, <1>2 DEF PlnAgree
  <2>5. PlnRead'
    BY <1>0 DEF PlnInv, PlnRead, PlnKnows
  <2> QED
    BY <1>0, <1>3, <2>3, <2>4, <2>5 DEF PlnInv
<1> QED
  BY <1>4, <1>5, <1>6 DEF PlnTyped

\* The approval shows the plan of the row.
LEMMA PlnAsks ==
    ASSUME PlnTyped, PlnInv, AskApproval
    PROVE PlnTyped' /\ PlnInv'
<1>0. /\ plnRow \in Columns /\ plnTask \in Columns /\ plnJob' = plnJob /\ plnJob \in Jobs
      /\ plnTask.plan.id \in PlanIds
      /\ plnAt = "ask" /\ plnAt' = "awaiting"
      /\ plnApproval' = [st |-> "pending", plan |-> plnTask.plan.id]
      /\ UNCHANGED <<plnExecuted, plnMade, plnVerdicts, plnScenario, plnFetched, plnDeaths>>
  BY PlnColumns DEF PlnTyped, PlnTypeOK, AskApproval, PlnGo, PlnKeepsPlan, Plans, Columns
<1>1. /\ plnTask' \in Columns /\ plnTask'.plan = plnTask.plan
      /\ plnTask'.verdict = plnTask.verdict
      /\ plnTask'.checkpoint.plan = plnTask.plan
      /\ plnTask'.checkpoint.verdict = plnTask.verdict
      /\ plnTask'.checkpoint.stage = "awaiting_approval"
  BY <1>0, PlnStageSet, PlnCheckpointed DEF AskApproval
<1>2. /\ plnRow' \in Columns /\ plnRow'.plan = plnRow.plan
      /\ plnRow'.checkpoint = plnTask'.checkpoint
  BY <1>0, <1>1, PlnStageSet, PlnCommits DEF AskApproval
<1>3. PlnTypeOK'
  BY <1>0, <1>1, <1>2 DEF PlnTyped, PlnTypeOK
<1>4. PlnCounts'
  BY <1>0, PlnMoves DEF PlnEarly
<1>5. PlnInv'
  <2>1. PlnHolds(plnTask.checkpoint, plnAt, plnVerdicts)'
    BY <1>0, <1>1 DEF PlnInv, PlnHolds, PlnAgree, PlnBefore, PlnEarly
  <2>2. PlnHolds(plnRow.checkpoint, plnAt, plnVerdicts)'
    BY <1>2, <2>1
  <2>3. PlnAgree(plnAt, plnRow, plnTask, plnVerdicts)'
    BY <1>0, <1>1, <1>2 DEF PlnInv, PlnAgree
  <2>4. PlnRead'
    BY <1>0 DEF PlnInv, PlnRead, PlnKnows
  <2>5. plnApproval'.plan = plnRow'.plan.id
    BY <1>0, <1>2 DEF PlnInv, PlnAgree
  <2> QED
    BY <1>0, <2>1, <2>2, <2>3, <2>4, <2>5, PlnNotDone DEF PlnInv
<1> QED
  BY <1>3, <1>4, <1>5 DEF PlnTyped

LEMMA PlnRejects ==
    ASSUME PlnTyped, PlnInv, RejectPlan
    PROVE PlnTyped' /\ PlnInv'
<1>0. /\ plnAt = "awaiting" /\ plnAt' = "failed"
      /\ plnApproval' = [plnApproval EXCEPT !.st = "rejected"]
      /\ UNCHANGED <<plnRow, plnTask, plnJob, plnExecuted, plnMade, plnVerdicts, plnScenario,
                     plnFetched, plnDeaths>>
  BY DEF RejectPlan, PlnGo, PlnKeepsTask, PlnKeepsPlan
<1>1. PlnTypeOK'
  BY <1>0 DEF PlnTyped, PlnTypeOK, PlnEnds
<1>2. PlnCounts'
  BY <1>0, PlnMoves DEF PlnEarly
<1>3. PlnInv'
  <2>1. /\ PlnHolds(plnRow.checkpoint, plnAt, plnVerdicts)'
        /\ PlnHolds(plnTask.checkpoint, plnAt, plnVerdicts)'
    BY <1>0, PlnHoldsOn DEF PlnInv
  <2>2. PlnAgree(plnAt, plnRow, plnTask, plnVerdicts)'
    BY <1>0 DEF PlnInv, PlnAgree
  <2>3. PlnRead'
    BY <1>0 DEF PlnInv, PlnRead, PlnKnows
  <2> QED
    BY <1>0, <2>1, <2>2, <2>3, PlnNotDone DEF PlnInv
<1> QED
  BY <1>1, <1>2, <1>3 DEF PlnTyped

LEMMA PlnDies ==
    ASSUME PlnTyped, PlnInv, Die
    PROVE PlnTyped' /\ PlnInv'
<1>0. /\ plnRow \in Columns /\ plnDeaths \in 0..MaxPlnDeaths /\ plnMade \in PlanIds
      /\ plnAt \in PlnRunning /\ plnAt' = "dead" /\ plnDeaths < MaxPlnDeaths
      /\ plnDeaths' = plnDeaths + 1 /\ plnTask' = plnRow
      /\ plnJob' = [NewJob EXCEPT !.resumed = TRUE]
      /\ UNCHANGED <<plnRow, plnExecuted, plnMade, plnVerdicts, plnScenario, plnApproval,
                     plnFetched>>
  BY DEF PlnTyped, PlnTypeOK, Die, PlnKeepsPlan
<1>1. plnJob' \in Jobs /\ plnJob'.issue = FALSE
  BY <1>0, PlnNew DEF NewJob
<1>2. PlnTypeOK'
  BY <1>0, <1>1, PlanningAssumption DEF PlnTyped, PlnTypeOK
<1>3. PlnCounts'
  BY <1>0, PlanningAssumption DEF PlnTyped, PlnCounts, PlnEarly, PlanIds
<1>4. PlnInv'
  <2>1. PlnHolds(plnRow.checkpoint, "dead", plnVerdicts)
    BY <1>0, PlnHoldsOn DEF PlnInv, PlnRunning, PlnBefore, PlnEarly
  <2>2. PlnAgree(plnAt, plnRow, plnTask, plnVerdicts)'
    BY <1>0 DEF PlnInv, PlnAgree
  <2>3. PlnRead'
    BY <1>0, <1>1 DEF PlnInv, PlnRead, PlnKnows
  <2> QED
    BY <1>0, <2>1, <2>2, <2>3, PlnNotDone DEF PlnInv
<1> QED
  BY <1>2, <1>3, <1>4 DEF PlnTyped

\* What was committed is put back: a plan where the checkpoint has one, and what was said of it.
LEMMA PlnResumes ==
    ASSUME PlnTyped, PlnInv, ResumePlanning
    PROVE PlnTyped' /\ PlnInv'
<1> DEFINE c == plnRow.checkpoint
<1> DEFINE p == IF c.plan.id = 0 THEN plnRow.plan ELSE c.plan
<1> DEFINE v == IF c.verdict = "none" THEN plnRow.verdict ELSE c.verdict
<1>0. /\ plnRow \in Columns /\ plnJob \in Jobs /\ plnRow.plan \in Plans
      /\ plnRow.verdict \in Verdicts
      /\ c \in Checkpoints /\ c.issue \in BOOLEAN /\ c.plan \in Plans /\ c.verdict \in Verdicts
      /\ c.stage \in DOMAIN StageOf
  BY PlnColumns DEF PlnTyped, PlnTypeOK, Checkpoints, Columns
<1>1. /\ plnAt = "dead" /\ plnAt' = ResumesAt[c.stage]
      /\ plnTask' = plnRow' /\ plnJob' = [plnJob EXCEPT !.issue = c.issue]
      /\ UNCHANGED <<plnExecuted, plnMade, plnVerdicts, plnScenario, plnApproval, plnFetched,
                     plnDeaths>>
  BY DEF ResumePlanning, PlnKeepsPlan, PlnKeepsRest
<1>2. plnRow' = [plnRow EXCEPT !.plan = p, !.verdict = v]
  BY DEF ResumePlanning, Restored
<1>3. p \in Plans /\ v \in Verdicts
  BY <1>0
<1>4. /\ c.plan.id # 0 => p = c.plan
      /\ c.verdict # "none" => v = c.verdict
      /\ PlnKept(c.plan) /\ PlnKept(plnRow.plan)
  BY <1>1 DEF PlnInv, PlnHolds, PlnAgree
<1>5. PlnKept(p)
  BY <1>4
<1>6. /\ c.stage # "awaiting_approval"
      /\ c.stage = "plan" => p = c.plan /\ p.id # 0
      /\ c.stage = "review_pre" => PlnSaid(p, v, plnVerdicts)
  BY <1>1, <1>4 DEF PlnInv, PlnHolds, PlnAfter, PlnSaid
<1> HIDE DEF p, v
<1>7. /\ plnRow' \in Columns /\ plnRow'.plan = p /\ plnRow'.verdict = v
      /\ plnRow'.checkpoint = c
  BY <1>0, <1>2, <1>3 DEF Columns
<1>8. plnJob' \in Jobs /\ plnJob'.issue = c.issue
  BY <1>0, <1>1 DEF Jobs
<1>9. \/ c.stage = "intake" /\ plnAt' = "translate"
      \/ c.stage = "translate" /\ plnAt' = "context"
      \/ c.stage = "retrieve" /\ plnAt' = "retrieved"
      \/ c.stage = "plan" /\ plnAt' = "review"
      \/ c.stage = "review_pre" /\ plnAt' = "decide"
  BY <1>0, <1>1, <1>6, PlnStageSet DEF ResumesAt
<1>10. PlnTypeOK'
  BY <1>1, <1>7, <1>8, <1>9 DEF PlnTyped, PlnTypeOK, PlnRunning
<1>11. PlnCounts'
  BY <1>1, PlnMoves
<1>12. PlnInv'
  <2>1. PlnHolds(c, plnAt', plnVerdicts)
    BY <1>1, <1>9 DEF PlnInv, PlnHolds, PlnBefore, PlnEarly, PlnAfter
  <2>2. PlnAgree(plnAt, plnRow, plnTask, plnVerdicts)'
    BY <1>1, <1>5, <1>6, <1>7, <1>9 DEF PlnAgree
  <2>3. PlnRead'
    BY <1>1, <1>7, <1>8, <1>9 DEF PlnInv, PlnRead, PlnKnows
  <2>4. plnAt' \notin {"planned", "awaiting", "executing"}
    BY <1>9
  <2> QED
    BY <1>1, <1>7, <2>1, <2>2, <2>3, <2>4, PlnNotDone DEF PlnInv
<1> QED
  BY <1>10, <1>11, <1>12 DEF PlnTyped

LEMMA PlnKeeps == PlnTyped /\ PlnInv /\ [PlnNext]_plnVars => PlnTyped' /\ PlnInv'
<1> SUFFICES ASSUME PlnTyped, PlnInv, [PlnNext]_plnVars PROVE PlnTyped' /\ PlnInv'
  OBVIOUS
<1>1. CASE \/ Translate \/ FetchIssue \/ LocalContext \/ Classify \/ AnchorsFound
           \/ ProviderFails
  BY <1>1, PlnContext, PlnClassifies
<1>2. CASE \/ TranslateRaises \/ FetchFails \/ AnchorsMissing \/ FallbackRaises \/ GateBlocks
           \/ ReviewRejects
  <2>1. PICK here \in {"translate", "context", "anchors", "planning", "gate", "decide"} :
          PlnFails(here)
    BY <1>2 DEF TranslateRaises, FetchFails, AnchorsMissing, FallbackRaises, GateBlocks,
                ReviewRejects
  <2>2. here \in PlnRunning \ {"planned"}
    BY DEF PlnRunning
  <2> QED
    BY <2>1, <2>2, PlnFailing
<1>3. CASE FastPath \/ ProviderAnswers \/ FallbackPlan
  BY <1>3, PlnPlans
<1>4. CASE Generated \/ SavePlan \/ GatePasses \/ PassWithGate
  BY <1>4, PlnGenerates, PlnSaves, PlnPasses
<1>5. CASE ReviewPlan \/ ExecuteApproved \/ GrantPlan \/ AskApproval \/ RejectPlan
  BY <1>5, PlnReviews, PlnExecutes, PlnAsks, PlnRejects
<1>6. CASE Die \/ ResumePlanning
  BY <1>6, PlnDies, PlnResumes
<1>7. CASE UNCHANGED plnVars
  BY <1>7 DEF plnVars, PlnTyped, PlnTypeOK, PlnCounts, PlnInv, PlnHolds, PlnAgree, PlnRead,
              PlnKnows, PlnDone, ExecutedIsReviewed, ContractsSurvive, EditsHaveTargets
<1> QED
  BY <1>1, <1>2, <1>3, <1>4, <1>5, <1>6, <1>7 DEF PlnNext, PlnStep

LEMMA PlnSound == PlnInv => PlanIsReviewed
BY DEF PlnInv, PlnRead, PlnDone, PlanIsReviewed, PlannedFromIssue

LEMMA PlnAlways == PlnInit /\ [][PlnNext]_plnVars => [](PlnTypeOK /\ PlanIsReviewed)
BY PlnStarts, PlnKeeps, PlnSound, PTL DEF PlnTyped

-----------------------------------------------------------------------------
(* The batches (CodegenBatches).                                                                  *)

\* The recursion of OwnUpTo, up to a position of the context.
IsOwnUpTo(own, n) ==
    /\ own \in [0..n -> Seq(SUBSET MustTouch)]
    /\ \A i \in 0..n :
            own[i] = IF i = 0 THEN <<>>
                     ELSE IF Existing[i] \in MustTouch THEN Append(own[i - 1], {Existing[i]})
                     ELSE own[i - 1]

LEMMA OwnExists == \A n \in Nat : \E own : IsOwnUpTo(own, n)
<1> DEFINE Gap == {n \in Nat : ~\E own : IsOwnUpTo(own, n)}
<1> SUFFICES ASSUME Gap # {} PROVE FALSE
  OBVIOUS
<1>1. PICK n \in Gap : \A m \in Gap : n <= m
  <2>1. Gap \subseteq Nat
    OBVIOUS
  <2> HIDE DEF Gap
  <2> QED
    BY <2>1, LeastNumber
<1>0. n \in Nat /\ ~\E own : IsOwnUpTo(own, n)
  OBVIOUS
<1>2. CASE n = 0
  <2> DEFINE own == [i \in 0..0 |-> <<>>]
  <2>1. <<>> \in Seq(SUBSET MustTouch)
    OBVIOUS
  <2>2. IsOwnUpTo(own, 0)
    BY <2>1 DEF IsOwnUpTo
  <2> QED
    BY <1>0, <1>2, <2>2
<1>3. CASE n # 0
  <2>1. n - 1 \in Nat /\ n - 1 \notin Gap
    <3>1. n - 1 \in Nat /\ ~(n <= n - 1)
      BY <1>0, <1>3
    <3> HIDE DEF Gap
    <3> QED
      BY <1>1, <3>1
  <2>2. PICK before : IsOwnUpTo(before, n - 1)
    BY <2>1
  <2> DEFINE last == IF Existing[n] \in MustTouch THEN Append(before[n - 1], {Existing[n]})
                     ELSE before[n - 1]
             own == [i \in 0..n |-> IF i = n THEN last ELSE before[i]]
  <2>3. before \in [0..(n - 1) -> Seq(SUBSET MustTouch)] /\ n - 1 \in 0..(n - 1)
    BY <2>1, <2>2 DEF IsOwnUpTo
  <2>4. last \in Seq(SUBSET MustTouch)
    <3>1. before[n - 1] \in Seq(SUBSET MustTouch)
      BY <2>3
    <3>2. Existing[n] \in MustTouch => {Existing[n]} \in SUBSET MustTouch
      OBVIOUS
    <3> QED
      BY <3>1, <3>2, AppendProperties
  <2>5. \A i \in 0..n : i # n => i \in 0..(n - 1) /\ (i # 0 => i - 1 \in 0..(n - 1))
    BY <1>0, <1>3
  <2> HIDE DEF last
  <2>6. own \in [0..n -> Seq(SUBSET MustTouch)]
    BY <2>3, <2>4, <2>5
  <2>7. \A i \in 0..n : i # n => own[i] = before[i]
    OBVIOUS
  <2>8. n \in 0..n /\ own[n] = last /\ own[n - 1] = before[n - 1]
    BY <1>0, <1>3, <2>1
  <2> HIDE DEF own
  <2>9. ASSUME NEW i \in 0..n
        PROVE  own[i] = IF i = 0 THEN <<>>
                        ELSE IF Existing[i] \in MustTouch THEN Append(own[i - 1], {Existing[i]})
                        ELSE own[i - 1]
    <3>1. CASE i = n
      BY <1>3, <2>8, <3>1 DEF last
    <3>2. CASE i # n
      <4>1. own[i] = before[i] /\ (i # 0 => own[i - 1] = before[i - 1])
        <5>1. i # 0 => i - 1 \in 0..n /\ i - 1 # n
          BY <1>0
        <5> QED
          BY <2>7, <3>2, <5>1
      <4>2. i \in 0..(n - 1)
        BY <2>5, <3>2
      <4> QED
        BY <2>2, <4>1, <4>2 DEF IsOwnUpTo
    <3> QED
      BY <3>1, <3>2
  <2>10. IsOwnUpTo(own, n)
    BY <2>6, <2>9 DEF IsOwnUpTo
  <2> QED
    BY <1>0, <2>10
<1> QED
  BY <1>2, <1>3

\* A file that must be touched has a batch of its own.
LEMMA OwnBatchesAreTargets == OwnBatches \in Seq(SUBSET MustTouch)
<1> DEFINE IsOwn(own) ==
        own = [n \in 0..Len(Existing) |->
                  IF n = 0 THEN <<>>
                  ELSE IF Existing[n] \in MustTouch THEN Append(own[n - 1], {Existing[n]})
                  ELSE own[n - 1]]
<1>0. Len(Existing) \in Nat
  BY BatchAssumption
<1>1. OwnUpTo = CHOOSE own : IsOwn(own)
  BY DEF OwnUpTo
<1>2. PICK own : IsOwnUpTo(own, Len(Existing))
  BY <1>0, OwnExists
<1>3. own = [n \in 0..Len(Existing) |-> own[n]]
  BY <1>2 DEF IsOwnUpTo
<1>4. IsOwn(own)
  BY <1>2, <1>3 DEF IsOwnUpTo
<1>5. IsOwn(OwnUpTo)
  BY <1>1, <1>4
<1>6. \A n \in 0..Len(Existing) : OwnUpTo[n]
          = IF n = 0 THEN <<>>
            ELSE IF Existing[n] \in MustTouch THEN Append(OwnUpTo[n - 1], {Existing[n]})
            ELSE OwnUpTo[n - 1]
  BY <1>5
<1> HIDE DEF IsOwn
<1> DEFINE Gap == {n \in 0..Len(Existing) : OwnUpTo[n] \notin Seq(SUBSET MustTouch)}
<1>7. ASSUME Gap # {} PROVE FALSE
  <2>1. PICK n \in Gap : \A m \in Gap : n <= m
    <3>1. Gap \subseteq Nat
      BY <1>0
    <3> HIDE DEF Gap
    <3> QED
      BY <1>7, <3>1, LeastNumber
  <2>2. n \in 0..Len(Existing) /\ OwnUpTo[n] \notin Seq(SUBSET MustTouch)
    OBVIOUS
  <2>3. n # 0
    <3>1. <<>> \in Seq(SUBSET MustTouch)
      OBVIOUS
    <3> QED
      BY <1>6, <2>2, <3>1
  <2>4. n - 1 \in 0..Len(Existing) /\ ~(n <= n - 1)
    BY <1>0, <2>2, <2>3
  <2>5. OwnUpTo[n - 1] \in Seq(SUBSET MustTouch)
    <3>1. n - 1 \notin Gap
      <4> HIDE DEF Gap
      <4> QED
        BY <2>1, <2>4
    <3> QED
      BY <2>4, <3>1
  <2>6. Existing[n] \in MustTouch => Append(OwnUpTo[n - 1], {Existing[n]}) \in Seq(SUBSET MustTouch)
    <3>1. Existing[n] \in MustTouch => {Existing[n]} \in SUBSET MustTouch
      OBVIOUS
    <3> QED
      BY <2>5, <3>1, AppendProperties
  <2> QED
    BY <1>6, <2>2, <2>3, <2>5, <2>6
<1>8. Len(Existing) \in 0..Len(Existing)
  BY <1>0
<1>9. OwnUpTo[Len(Existing)] \in Seq(SUBSET MustTouch)
  BY <1>7, <1>8
<1> QED
  BY <1>9 DEF OwnBatches

\* A batch of a single file is one of a target, so that a call reaches targets alone.
LEMMA CompanionsAreFinite == \A n \in Nat : IsFiniteSet(Companions(n))
<1> SUFFICES ASSUME NEW n \in Nat PROVE IsFiniteSet(Companions(n))
  OBVIOUS
<1> DEFINE ks == {k \in DOMAIN Existing : k <= n}
<1>1. DOMAIN Existing = 1..Len(Existing) /\ Len(Existing) \in Nat
  BY BatchAssumption
<1>2. IsFiniteSet(1..Len(Existing))
  BY <1>1, FS_Interval
<1>3. IsFiniteSet(ks)
  BY <1>1, <1>2, FS_Subset
<1>4. Companions(n) = {Existing[i] : i \in ks}
  BY DEF Companions
<1> DEFINE T == {Existing[i] : i \in ks}
           f == [i \in ks |-> Existing[i]]
<1>5. f \in Surjection(ks, T)
  BY DEF Surjection
<1> HIDE DEF ks, T, f
<1>7. IsFiniteSet(T)
  BY <1>3, <1>5, FS_Surjection
<1> QED
  BY <1>4, <1>7 DEF T

BatchIsTargeted(S) ==
    IsFiniteSet(S) /\ \E x \in S : x \in TargetFiles

LEMMA BatchesAreTargeted ==
    \A b \in Batch : Batches[b] \subseteq MustTouch \/ BatchIsTargeted(Batches[b])
<1> DEFINE first == IF Stubs = {} THEN <<>> ELSE <<Stubs \cup Companions(3)>>
           last == [i \in DOMAIN Planned |-> {Planned[i]} \cup Companions(2)]
           B == {S \in SUBSET (TargetFiles \cup Existed) :
                    S \subseteq MustTouch \/ BatchIsTargeted(S)}
<1>0. /\ Planned \in Seq(TargetFiles) /\ Existing \in Seq(Existed) /\ MustTouch \subseteq Existed
      /\ MustTouch \subseteq TargetFiles /\ Stubs \subseteq TargetFiles /\ IsFiniteSet(Stubs)
  BY BatchAssumption DEF TargetFiles
<1>1. \A n \in Nat : Companions(n) \subseteq Existed
  BY DEF Companions, Existed
<1>2. OwnBatches \in Seq(B)
  <2>1. SUBSET MustTouch \subseteq B
    BY <1>0
  <2> HIDE DEF B
  <2> QED
    BY <2>1, OwnBatchesAreTargets, SeqMonotonic
<1>3. Stubs # {} => Stubs \cup Companions(3) \in B
  <2>1. IsFiniteSet(Stubs \cup Companions(3))
    BY <1>0, CompanionsAreFinite, FS_Union
  <2> QED
    BY <1>0, <1>1, <2>1 DEF BatchIsTargeted
<1>4. first \in Seq(B)
  <2> HIDE DEF B
  <2>1. CASE Stubs = {}
    BY <2>1
  <2>2. CASE Stubs # {}
    BY <1>3, <2>2
  <2> QED
    BY <2>1, <2>2
<1>5. \A i \in DOMAIN Planned : {Planned[i]} \cup Companions(2) \in B
  <2> SUFFICES ASSUME NEW i \in DOMAIN Planned PROVE {Planned[i]} \cup Companions(2) \in B
    OBVIOUS
  <2>1. Planned[i] \in TargetFiles
    BY <1>0
  <2>2. IsFiniteSet({Planned[i]} \cup Companions(2))
    BY CompanionsAreFinite, FS_Union, FS_Singleton
  <2> QED
    BY <1>1, <2>1, <2>2 DEF BatchIsTargeted
<1>6. last \in Seq(B)
  <2>1. DOMAIN Planned = 1..Len(Planned) /\ Len(Planned) \in Nat
    BY <1>0
  <2>2. last \in [1..Len(Planned) -> B]
    BY <1>5, <2>1
  <2> HIDE DEF B, last
  <2> QED
    BY <2>1, <2>2, IsASeq
<1>7. Batches = first \o OwnBatches \o last
  BY DEF Batches
<1> HIDE DEF B, first, last
<1>8. first \o OwnBatches \in Seq(B)
  BY <1>2, <1>4, ConcatProperties
<1>9. Batches \in Seq(B)
  <2> DEFINE front == first \o OwnBatches
  <2>1. front \in Seq(B) /\ Batches = front \o last
    BY <1>7, <1>8
  <2> HIDE DEF front
  <2> QED
    BY <1>6, <2>1, ConcatProperties
<1>10. \A b \in Batch : Batches[b] \in B
  BY <1>9 DEF Batch
<1> QED
  BY <1>10 DEF B

LEMMA BatchesReachTargets ==
    \A b \in Batch : Reach(b) \subseteq TargetFiles /\ TargetsIn(b) \subseteq TargetFiles
<1> SUFFICES ASSUME NEW b \in Batch
             PROVE  Reach(b) \subseteq TargetFiles /\ TargetsIn(b) \subseteq TargetFiles
  OBVIOUS
<1>1. ASSUME Cardinality(Batches[b]) = 1 PROVE Batches[b] \subseteq TargetFiles
  <2>1. CASE Batches[b] \subseteq MustTouch
    BY <2>1 DEF TargetFiles
  <2>2. CASE BatchIsTargeted(Batches[b])
    <3>1. \E x : Batches[b] = {x}
      BY <1>1, <2>2, FS_Singleton DEF BatchIsTargeted
    <3> QED
      BY <2>2, <3>1 DEF BatchIsTargeted
  <2> QED
    BY <2>1, <2>2, BatchesAreTargeted
<1> QED
  BY <1>1 DEF Reach, TargetsIn

\* Until the results are merged, a file that is recorded as patched is in the result of a batch
\* that holds it; only the batches of the file say anything of it.
BatBacked(outcomes, results) ==
    \A f \in TargetFiles :
        outcomes[f] = "patched" => \E c \in Batch : f \in Batches[c] /\ f \in results[c].files

BatOver == {"judge"} \cup Judgements

\* A call is cancelled before the pool is waited for, and has ended before the results are merged,
\* unless the deadline was over.
BatPool ==
    /\ batPhase \in {"expire", "late", "salvage"} => batPast.expired
    /\ batPhase = "drain" => \A b \in Batch : batCall[b] # "queued"
    /\ batPhase \in BatOver /\ ~batPast.expired =>
           \A b \in Batch : batCall[b] \notin {"queued", "running"}

BatInv ==
    /\ BatTypeOK /\ PatchedIsMerged /\ BatPool
    /\ batPhase \notin BatOver => BatBacked(batOutcomes, batResults)

LEMMA BatNoAnswer ==
    /\ Nil \in AnyAnswer /\ Nil.kind = "none" /\ Nil.files = {}
    /\ BatFresh \in [Batch -> AnyAnswer]
BY DEF Nil, AnyAnswer, BatFresh

LEMMA BatAnswerFiles == \A a \in AnyAnswer : a.code \subseteq a.files /\ a.files \subseteq TargetFiles
BY DEF AnyAnswer, DiffsOf, Errors, Nil

LEMMA BatAnswersAreKnown ==
    \A b \in Batch : BatAnswers(b) \subseteq AnyAnswer /\ DiffsOf(TargetsIn(b)) \subseteq AnyAnswer
BY BatchesReachTargets DEF BatAnswers, AnyAnswer, DiffsOf

LEMMA BatNothingPatched == \A results : BatBacked([f \in TargetFiles |-> "uncovered"], results)
BY DEF BatBacked

LEMMA BatStarts == BatInit => BatInv
<1> SUFFICES ASSUME BatInit PROVE BatInv
  OBVIOUS
<1>1. batPast \in [repairs : 0..MaxRecovery, revivals : 0..MaxRevivals, expired : BOOLEAN,
                   cached : BOOLEAN]
  BY BatchAssumption DEF BatInit
<1>2. BatTypeOK
  BY <1>1, BatNoAnswer DEF BatInit, BatTypeOK, Statuses
<1>3. BatBacked(batOutcomes, batResults)
  BY BatNothingPatched DEF BatInit
<1> QED
  BY <1>2, <1>3 DEF BatInit, BatInv, BatPool, BatOver, Judgements, PatchedIsMerged

\* A stage that starts again has nothing on record.
LEMMA BatStartsAgain ==
    ASSUME StageStarts,
           batPast' \in [repairs : 0..MaxRecovery, revivals : 0..MaxRevivals, expired : BOOLEAN,
                         cached : BOOLEAN]
    PROVE  BatInv'
<1>1. BatTypeOK'
  BY BatNoAnswer DEF StageStarts, BatTypeOK, Statuses
<1>2. BatBacked(batOutcomes', batResults')
  BY BatNothingPatched DEF StageStarts
<1> QED
  BY <1>1, <1>2 DEF StageStarts, BatInv, BatPool, BatOver, Judgements, PatchedIsMerged

\* What an answer says of the files of its batch.
LEMMA BatClassifies ==
    ASSUME BatTypeOK, BatBacked(batOutcomes, batResults), NEW b \in Batch, NEW a \in AnyAnswer
    PROVE  /\ Classified(b, a) \in [TargetFiles -> Statuses]
           /\ Stored(b, a) \in [Batch -> AnyAnswer]
           /\ BatBacked(Classified(b, a), Stored(b, a))
<1>0. /\ batOutcomes \in [TargetFiles -> Statuses] /\ batResults \in [Batch -> AnyAnswer]
      /\ a.code \subseteq a.files
  BY BatAnswerFiles DEF BatTypeOK
<1>1. \A f \in TargetFiles : /\ StatusOf(a, f) \in Statuses
                             /\ StatusOf(a, f) = "patched" => a.kind = "diff" /\ f \in a.code
  BY DEF StatusOf, Statuses
<1> DEFINE out == Classified(b, a)
           res == Stored(b, a)
<1>2. out \in [TargetFiles -> Statuses]
  BY <1>0, <1>1 DEF Classified
<1>3. res \in [Batch -> AnyAnswer]
  BY <1>0 DEF Stored
<1>4. /\ a.kind = "diff" => res[b] = a
      /\ \A c \in Batch : c # b => res[c] = batResults[c]
  BY <1>0 DEF Stored
<1>5. \A f \in TargetFiles : out[f] = IF f \in Batches[b] THEN StatusOf(a, f) ELSE batOutcomes[f]
  BY DEF Classified
<1> HIDE DEF out, res
<1>6. ASSUME NEW f \in TargetFiles, out[f] = "patched"
      PROVE  \E c \in Batch : f \in Batches[c] /\ f \in res[c].files
  <2>1. CASE f \in Batches[b]
    <3>1. res[b] = a /\ f \in a.files
      BY <1>0, <1>1, <1>4, <1>5, <1>6, <2>1
    <3> QED
      BY <2>1, <3>1
  <2>2. CASE f \notin Batches[b]
    <3>1. PICK c \in Batch : f \in Batches[c] /\ f \in batResults[c].files
      BY <1>5, <1>6, <2>2 DEF BatBacked
    <3> QED
      BY <1>4, <2>2, <3>1
  <2> QED
    BY <2>1, <2>2
<1>7. BatBacked(out, res)
  BY <1>6 DEF BatBacked
<1> QED
  BY <1>2, <1>3, <1>7 DEF out, res

LEMMA BatCallsGoOn ==
    ASSUME BatInv,
           \E b \in Batch : WorkerStarts(b) \/ WorkerEnds(b)
    PROVE  BatInv'
<1>0. BatTypeOK
  BY DEF BatInv
<1>1. PICK b \in Batch : WorkerStarts(b) \/ WorkerEnds(b)
  OBVIOUS
<1>2. /\ UNCHANGED <<batPhase, batResults, batOutcomes, batLost, batKept, batMerged, batPast>>
      /\ batCall' \in [Batch -> {"queued", "running", "done", "collected", "cancelled"}]
      /\ batCall[b] \in {"queued", "running"}
      /\ \A c \in Batch : batCall'[c] # batCall[c] => c = b /\ batCall'[c] # "queued"
  BY <1>0, <1>1 DEF WorkerStarts, WorkerEnds, BatTypeOK
<1>3. batAnswer' \in [Batch -> AnyAnswer]
  BY <1>0, <1>1, BatAnswersAreKnown DEF WorkerStarts, WorkerEnds, BatTypeOK
<1>4. BatTypeOK'
  BY <1>0, <1>2, <1>3 DEF BatTypeOK
<1>5. BatPool'
  BY <1>2 DEF BatInv, BatPool
<1> QED
  BY <1>2, <1>4, <1>5 DEF BatInv, PatchedIsMerged

\* A step of the collection that records what an answer says of a batch.
LEMMA BatRecords ==
    ASSUME BatInv, batPhase \notin BatOver, NEW b \in Batch, NEW a \in AnyAnswer,
           batOutcomes' = Classified(b, a), batResults' = Stored(b, a),
           batPhase' \in {"collect", "expire", "late"}, UNCHANGED <<batMerged, batPast>>,
           batPhase' = "collect" \/ batPast.expired,
           batCall' \in [Batch -> {"queued", "running", "done", "collected", "cancelled"}],
           batAnswer' \in [Batch -> AnyAnswer],
           batLost' \subseteq Batch, batKept' \subseteq batLost'
    PROVE  BatInv'
<1>0. BatTypeOK /\ BatBacked(batOutcomes, batResults)
  BY DEF BatInv
<1>1. /\ batOutcomes' \in [TargetFiles -> Statuses] /\ batResults' \in [Batch -> AnyAnswer]
      /\ BatBacked(batOutcomes', batResults')
  BY <1>0, BatClassifies
<1>2. BatTypeOK'
  BY <1>0, <1>1 DEF BatTypeOK
<1> QED
  BY <1>1, <1>2 DEF BatInv, BatPool, BatOver, Judgements, PatchedIsMerged

LEMMA BatCollects == ASSUME BatInv, NEW b \in Batch, Collect(b) PROVE BatInv'
<1>0. BatTypeOK /\ batAnswer[b] \in AnyAnswer
  BY DEF BatInv, BatTypeOK
<1>1. /\ batCall' \in [Batch -> {"queued", "running", "done", "collected", "cancelled"}]
      /\ batAnswer' \in [Batch -> AnyAnswer]
      /\ batLost' \subseteq Batch /\ batKept' \subseteq batLost'
  BY <1>0, BatNoAnswer DEF Collect, BatTypeOK
<1>2. batPhase = "collect" /\ batPhase \notin BatOver
  BY DEF Collect, BatOver, Judgements
<1> QED
  BY <1>0, <1>1, <1>2, BatRecords DEF Collect

LEMMA BatExpires == ASSUME BatInv, NEW b \in Batch, Expire(b) PROVE BatInv'
<1>0. BatTypeOK /\ batPhase = "expire" /\ batPast.expired
  BY DEF BatInv, BatPool, Expire
<1>1. /\ batCall' \in [Batch -> {"queued", "running", "done", "collected", "cancelled"}]
      /\ batAnswer' \in [Batch -> AnyAnswer]
      /\ batLost' \subseteq Batch /\ batKept' \subseteq batLost'
  BY <1>0 DEF Expire, BatTypeOK
<1>2. batPhase \notin BatOver /\ Stored(b, Nil) = batResults
  BY <1>0, BatNoAnswer DEF BatOver, Judgements, Stored
<1>3. Nil \in AnyAnswer
  BY BatNoAnswer
<1> HIDE DEF Nil
<1> QED
  BY <1>0, <1>1, <1>2, <1>3, BatRecords DEF Expire

\* A late result, one that has not come, and the result of a call of its own.
LEMMA BatHandles ==
    ASSUME BatInv, NEW b \in Batch, LateResult(b) \/ LateTimesOut(b) \/ SalvageEnds(b)
    PROVE  BatInv'
<1>0. BatTypeOK /\ batPhase \in {"late", "salvage"} /\ batPast.expired /\ batPhase \notin BatOver
  BY DEF BatInv, BatPool, LateResult, LateTimesOut, SalvageEnds, BatOver, Judgements
<1>1. \E a \in AnyAnswer : Handled(b, a)
  <2>1. Nil \in AnyAnswer /\ batAnswer[b] \in AnyAnswer
    BY <1>0, BatNoAnswer DEF BatTypeOK
  <2>2. CASE LateResult(b)
    <3> DEFINE a == batAnswer[b]
               taken == IF a.files = {} /\ a.kind = "diff" THEN Nil ELSE a
    <3>1. taken \in AnyAnswer /\ Handled(b, taken)
      BY <2>1, <2>2 DEF LateResult
    <3> HIDE DEF taken
    <3> QED
      BY <3>1
  <2>3. CASE LateTimesOut(b)
    BY <2>1, <2>3 DEF LateTimesOut
  <2>4. CASE SalvageEnds(b)
    <3>1. PICK a \in DiffsOf(TargetsIn(b)) \cup Errors \cup {Nil} :
              Handled(b, IF a.files = {} /\ a.kind = "diff" THEN Nil ELSE a)
      BY <2>4 DEF SalvageEnds
    <3> DEFINE taken == IF a.files = {} /\ a.kind = "diff" THEN Nil ELSE a
    <3>2. a \in AnyAnswer
      BY <2>1, <3>1, BatAnswersAreKnown DEF AnyAnswer
    <3>3. taken \in AnyAnswer /\ Handled(b, taken)
      BY <2>1, <3>1, <3>2
    <3> HIDE DEF taken
    <3> QED
      BY <3>3
  <2> QED
    BY <2>2, <2>3, <2>4
<1>2. PICK a \in AnyAnswer : Handled(b, a)
  BY <1>1
<1>3. /\ batOutcomes' = Classified(b, a) /\ batResults' = Stored(b, a)
      /\ batLost' \subseteq Batch /\ batKept' \subseteq batLost'
  BY <1>0, <1>2 DEF Handled, BatTypeOK
<1>4. /\ batCall' \in [Batch -> {"queued", "running", "done", "collected", "cancelled"}]
      /\ batAnswer' \in [Batch -> AnyAnswer]
  BY <1>0, BatNoAnswer DEF LateResult, LateTimesOut, SalvageEnds, BatTypeOK
<1>5. batPhase' = "late" /\ UNCHANGED <<batMerged, batPast>>
  BY DEF LateResult, LateTimesOut, SalvageEnds
<1> QED
  BY <1>0, <1>3, <1>4, <1>5, BatRecords

\* A step that only moves the stage, before its results are merged.
LEMMA BatMoves ==
    ASSUME BatInv, batPhase \notin BatOver,
           CollectRaises \/ Deadline \/ Expired \/ \E b \in Batch : SalvageStarts(b)
    PROVE  BatInv'
<1>0. BatTypeOK /\ BatBacked(batOutcomes, batResults)
  BY DEF BatInv
<1>1. /\ UNCHANGED <<batAnswer, batResults, batOutcomes, batLost, batKept, batMerged>>
      /\ batPhase' \in {"drain", "expire", "late", "salvage"}
      /\ batPhase' \notin BatOver
  BY DEF CollectRaises, Deadline, Expired, SalvageStarts, BatOver, Judgements
<1>2. batCall' \in [Batch -> {"queued", "running", "done", "collected", "cancelled"}]
  BY <1>0 DEF CollectRaises, Deadline, Expired, SalvageStarts, BatTypeOK
<1>3. /\ batPast' \in [repairs : 0..MaxRecovery, revivals : 0..MaxRevivals, expired : BOOLEAN,
                       cached : BOOLEAN]
      /\ batPhase' \in {"expire", "late", "salvage"} => batPast'.expired
  <2>1. batPast \in [repairs : 0..MaxRecovery, revivals : 0..MaxRevivals, expired : BOOLEAN,
                     cached : BOOLEAN]
    BY <1>0 DEF BatTypeOK
  <2>2. batPhase = "expire" => batPast.expired
    BY DEF BatInv, BatPool
  <2>3. batPhase = "late" => batPast.expired
    BY DEF BatInv, BatPool
  <2>4. CASE CollectRaises
    BY <2>1, <2>4 DEF CollectRaises
  <2>5. CASE Deadline
    BY <2>1, <2>5 DEF Deadline
  <2>6. CASE Expired
    BY <2>1, <2>2, <2>6 DEF Expired
  <2>7. CASE \E b \in Batch : SalvageStarts(b)
    BY <2>1, <2>3, <2>7 DEF SalvageStarts
  <2> QED
    BY <2>4, <2>5, <2>6, <2>7
<1>4. batPhase' = "drain" => \A b \in Batch : batCall'[b] # "queued"
  BY <1>0 DEF CollectRaises, Deadline, Expired, SalvageStarts, BatTypeOK
<1>5. BatTypeOK'
  BY <1>0, <1>1, <1>2, <1>3 DEF BatTypeOK
<1> QED
  BY <1>0, <1>1, <1>3, <1>4, <1>5 DEF BatInv, BatPool, PatchedIsMerged, BatOver, Judgements

LEMMA BatDrains == ASSUME BatInv, Drained PROVE BatInv'
<1>1. /\ UNCHANGED <<batCall, batAnswer, batResults, batOutcomes, batLost, batKept, batMerged,
                    batPast>>
      /\ batPhase = "drain" /\ batPhase' = "raised" /\ \A b \in Batch : batCall[b] # "running"
  BY DEF Drained, Busy
<1>2. BatTypeOK'
  BY <1>1 DEF BatInv, BatTypeOK, Judgements
<1> QED
  BY <1>1, <1>2 DEF BatInv, BatPool, PatchedIsMerged, BatOver, Judgements

LEMMA BatMerges == ASSUME BatInv, Merge PROVE BatInv'
<1>0. BatTypeOK /\ batPhase \in {"collect", "late"} /\ batPhase \notin BatOver
  BY DEF BatInv, Merge, BatOver, Judgements
<1>1. /\ UNCHANGED <<batCall, batAnswer, batOutcomes, batLost, batKept, batPast>>
      /\ batPhase' = "judge" /\ batResults' = BatFresh
      /\ batMerged' = IF MergedFiles = {} THEN Nil ELSE MergedDiff
  BY DEF Merge
<1>2. /\ MergedDiff \in DiffsOf(TargetFiles) /\ MergedDiff.files = MergedFiles
      /\ MergedFiles \subseteq TargetFiles
  BY DEF MergedDiff, MergedFiles, DiffsOf
<1>3. BatTypeOK'
  <2> HIDE DEF MergedDiff, Nil
  <2> QED
    BY <1>0, <1>1, <1>2, BatNoAnswer DEF BatTypeOK
<1>4. PatchedIsMerged'
  <2>1. BatBacked(batOutcomes, batResults)
    BY <1>0 DEF BatInv
  <2>2. {f \in TargetFiles : batOutcomes[f] = "patched"} \subseteq MergedFiles
    BY <2>1 DEF BatBacked, MergedFiles, Changing
  <2>3. batMerged'.files = MergedFiles
    BY <1>1, <1>2, BatNoAnswer
  <2> QED
    BY <1>1, <2>2, <2>3 DEF PatchedIsMerged
<1>5. ~batPast.expired => \A b \in Batch : batCall[b] \notin {"queued", "running"}
  BY <1>0 DEF Merge, Pending, BatInv, BatPool
<1> QED
  BY <1>1, <1>3, <1>4, <1>5 DEF BatInv, BatPool, BatOver

LEMMA BatJudges ==
    ASSUME BatInv,
           Uncoverable \/ \E c \in {"lie", "unverified", "incomplete", "fulfilled"} : Covered(c)
    PROVE  BatInv'
<1>1. /\ UNCHANGED <<batCall, batAnswer, batResults, batOutcomes, batLost, batKept, batMerged,
                    batPast>>
      /\ batPhase = "judge" /\ batPhase' \in Judgements
  BY DEF Uncoverable, Covered, Judged, Judgements
<1>2. BatTypeOK'
  BY <1>1 DEF BatInv, BatTypeOK
<1> QED
  BY <1>1, <1>2 DEF BatInv, BatPool, PatchedIsMerged, BatOver, Judgements

LEMMA BatRecovers == ASSUME BatInv, RecoverCoverage PROVE BatInv'
<1>0. batPast \in [repairs : 0..MaxRecovery, revivals : 0..MaxRevivals, expired : BOOLEAN,
                   cached : BOOLEAN]
  BY DEF BatInv, BatTypeOK
<1> DEFINE more == batPast.repairs + 1
<1>1. more \in 0..MaxRecovery
  BY <1>0, BatchAssumption DEF RecoverCoverage, MayRecover
<1>2. batPast' = [batPast EXCEPT !.repairs = more, !.expired = FALSE, !.cached = FALSE]
  BY DEF RecoverCoverage
<1> HIDE DEF more
<1>3. batPast' \in [repairs : 0..MaxRecovery, revivals : 0..MaxRevivals, expired : BOOLEAN,
                    cached : BOOLEAN]
  BY <1>0, <1>1, <1>2
<1> QED
  BY <1>3, BatStartsAgain DEF RecoverCoverage

LEMMA BatDies == ASSUME BatInv, DieAndResume PROVE BatInv'
<1>0. batPast \in [repairs : 0..MaxRecovery, revivals : 0..MaxRevivals, expired : BOOLEAN,
                   cached : BOOLEAN]
  BY DEF BatInv, BatTypeOK
<1> DEFINE more == batPast.revivals + 1
           saved == batPhase = "judge" /\ batMerged # Nil
<1>1. more \in 0..MaxRevivals
  BY <1>0, BatchAssumption DEF DieAndResume
<1>2. saved \in BOOLEAN
  OBVIOUS
<1>3. batPast' = [batPast EXCEPT !.revivals = more, !.expired = FALSE, !.cached = saved]
  BY DEF DieAndResume
<1> HIDE DEF more, saved
<1>4. batPast' \in [repairs : 0..MaxRecovery, revivals : 0..MaxRevivals, expired : BOOLEAN,
                    cached : BOOLEAN]
  BY <1>0, <1>1, <1>2, <1>3
<1>5. CASE StageStarts
  BY <1>4, <1>5, BatStartsAgain
<1>6. CASE batPhase = "judge" /\ ~StageStarts
  <2>1. /\ batCall' = [b \in Batch |-> "cancelled"] /\ batAnswer' = BatFresh
        /\ UNCHANGED <<batPhase, batResults, batOutcomes, batLost, batKept, batMerged>>
    BY <1>6 DEF DieAndResume
  <2>2. BatTypeOK'
    BY <1>4, <2>1, BatNoAnswer DEF BatInv, BatTypeOK
  <2> QED
    BY <1>6, <2>1, <2>2 DEF BatInv, BatPool, PatchedIsMerged, BatOver
<1> QED
  BY <1>5, <1>6 DEF DieAndResume

LEMMA BatKept == BatInv /\ [BatNext]_batVars => BatInv'
<1> SUFFICES ASSUME BatInv, [BatNext]_batVars PROVE BatInv'
  OBVIOUS
<1>1. ASSUME CollectRaises \/ Deadline \/ Expired \/ \E b \in Batch : SalvageStarts(b)
      PROVE  BatInv'
  <2>1. batPhase \notin BatOver
    BY <1>1 DEF CollectRaises, Deadline, Expired, SalvageStarts, BatOver, Judgements
  <2> QED
    BY <1>1, <2>1, BatMoves
<1>2. ASSUME StageStep PROVE BatInv'
  BY <1>1, <1>2, BatDrains, BatMerges, BatRecovers, BatJudges, BatCollects, BatExpires, BatHandles
     DEF StageStep
<1>3. CASE UNCHANGED batVars
  <2>1. BatTypeOK'
    BY <1>3 DEF BatInv, BatTypeOK, batVars
  <2> QED
    BY <1>3, <2>1 DEF BatInv, BatPool, PatchedIsMerged, batVars
<1> QED
  BY <1>1, <1>2, <1>3, BatDies, BatCallsGoOn DEF BatNext

LEMMA BatAlways ==
    BatInit /\ [][BatNext]_batVars => [](BatTypeOK /\ PatchedIsMerged /\ NoStrayCall)
<1>1. BatInv => BatTypeOK /\ PatchedIsMerged /\ NoStrayCall
  BY DEF BatInv, BatPool, BatOver, NoStrayCall, Busy
<1> QED
  BY <1>1, BatStarts, BatKept, PTL

-----------------------------------------------------------------------------
(* One call of a generator (CodegenCall).  That what it returns was validated needs which way the *)
(* call went, and that a diff which waits for self_validate has passed the check of its files.      *)

\* A failure passes to the next provider, if there is one, or raises.
LEMMA FailsTyped ==
    ASSUME GenTypeOK, NEW p \in BOOLEAN, Fails(p)
    PROVE /\ genPhase' \in {"try", "raised"}
          /\ genProvider' \in 1..ChainLength
          /\ genChecks' \in 0..MaxChecks
BY CallAssumption DEF GenTypeOK, Fails

LEMMA GenStarts == GenInit => GenTypeOK
BY CallAssumption DEF GenInit, GenTypeOK, MaxGenAttempts, MaxFires, Diffs, GenNoDiff

LEMMA GenKeeps == GenTypeOK /\ [GenNext]_genVars => GenTypeOK'
<1> SUFFICES ASSUME GenTypeOK, [GenNext]_genVars PROVE GenTypeOK'
  OBVIOUS
<1> USE CallAssumption DEF GenTypeOK, MaxGenAttempts, MaxFires
<1>1. CASE LoopRaises
  BY <1>1 DEF LoopRaises
<1>2. CASE Begin
  BY <1>2 DEF Begin
<1>3. CASE StructuralFails
  BY <1>3 DEF StructuralFails
<1>4. CASE SpansFail
  BY <1>4 DEF SpansFail
<1>5. CASE \E d \in Diffs : Given(d)
  BY <1>5 DEF Given
<1>6. CASE \E d \in Diffs : ModelAnswers(d)
  BY <1>6 DEF ModelAnswers
<1>7. CASE \E p \in {"swapped", "spans", "raised"} : AttemptGap(p)
  BY <1>7 DEF AttemptGap
<1>8. CASE \E x \in BOOLEAN : TryProvider(x)
  BY <1>8 DEF TryProvider
<1>9. CASE \E x \in BOOLEAN : SwapFails(x)
  BY <1>9 DEF SwapFails
<1>10. CASE \E x \in BOOLEAN : CheckPaths(x)
  BY <1>10, FailsTyped DEF CheckPaths
<1>11. CASE \E x \in BOOLEAN : Validate(x)
  BY <1>11, FailsTyped DEF Validate
<1>12. CASE \E x \in BOOLEAN : AttemptUnusable(x)
  BY <1>12, FailsTyped DEF AttemptUnusable
<1>13. CASE \E x \in BOOLEAN : AttemptRaises(x)
  BY <1>13, FailsTyped DEF AttemptRaises
<1>14. CASE UNCHANGED genVars
  BY <1>14 DEF genVars
<1> QED
  BY <1>1, <1>2, <1>3, <1>4, <1>5, <1>6, <1>7, <1>8, <1>9, <1>10, <1>11, <1>12, <1>13, <1>14
     DEF GenNext

-----------------------------------------------------------------------------
(* Validation. *)

\* Past the start no recipe is at work, and what waits for self_validate is within the files.
Checked ==
    /\ genPhase \notin {"start", "returned", "raised"} => genSetup.way # "recipe"
    /\ genPhase = "validate" => genSetup.validated /\ (genSetup.enforced => genDiff.within)
    /\ ReturnedIsChecked

\* A failure returns nothing.
LEMMA FailsChecked ==
    ASSUME NEW p \in BOOLEAN, Fails(p), genSetup.way # "recipe", UNCHANGED <<genSetup, genDiff>>
    PROVE Checked'
BY DEF Fails, Checked, ReturnedIsChecked

\* The check of the files: on failure nothing is returned, and past it the files are within.
LEMMA PathsAreChecked ==
    ASSUME GenTypeOK, Checked, NEW x \in BOOLEAN, CheckPaths(x)
    PROVE Checked'
<1>1. genSetup.way # "recipe" /\ UNCHANGED <<genSetup, genDiff>>
  BY DEF CheckPaths, Checked
<1>2. CASE genSetup.enforced /\ ~genDiff.within
  BY <1>1, <1>2, FailsChecked DEF CheckPaths
<1>3. CASE ~(genSetup.enforced /\ ~genDiff.within)
  BY <1>1, <1>3 DEF CheckPaths, Checked, ReturnedIsChecked, GenTypeOK
<1> QED
  BY <1>2, <1>3

\* self_validate: only a diff it takes is returned.
LEMMA DiffIsValidated ==
    ASSUME GenTypeOK, Checked, NEW x \in BOOLEAN, Validate(x)
    PROVE Checked'
<1>1. genSetup.way # "recipe" /\ UNCHANGED <<genSetup, genDiff>>
  BY DEF Validate, Checked
<1>2. CASE genDiff.valid
  BY <1>1, <1>2 DEF Validate, Checked, ReturnedIsChecked
<1>3. CASE ~genDiff.valid /\ genChecks < MaxChecks
  BY <1>1, <1>3 DEF Validate, Checked, ReturnedIsChecked
<1>4. CASE ~genDiff.valid /\ ~(genChecks < MaxChecks)
  BY <1>1, <1>4, FailsChecked DEF Validate
<1> QED
  BY <1>2, <1>3, <1>4

\* An attempt that gives nothing returns nothing.
LEMMA AttemptIsChecked ==
    ASSUME Checked, NEW x \in BOOLEAN, AttemptUnusable(x) \/ AttemptRaises(x)
    PROVE Checked'
<1>1. genSetup.way # "recipe" /\ UNCHANGED <<genSetup, genDiff>>
  BY DEF AttemptUnusable, AttemptRaises, Checked
<1>2. CASE AttemptUnusable(x) /\ genAttempt < MaxGenAttempts
  BY <1>1, <1>2 DEF AttemptUnusable, Checked, ReturnedIsChecked
<1>3. CASE AttemptUnusable(x) /\ ~(genAttempt < MaxGenAttempts)
  BY <1>1, <1>3, FailsChecked DEF AttemptUnusable
<1>4. CASE AttemptRaises(x)
  BY <1>1, <1>4, FailsChecked DEF AttemptRaises
<1> QED
  BY <1>2, <1>3, <1>4

LEMMA CheckedStarts == GenInit => Checked
BY DEF GenInit, Checked, ReturnedIsChecked

LEMMA CheckedKept == GenTypeOK /\ Checked /\ [GenNext]_genVars => Checked'
<1> SUFFICES ASSUME GenTypeOK, Checked, [GenNext]_genVars PROVE Checked'
  OBVIOUS
<1> USE DEF Checked, ReturnedIsChecked
<1>1. CASE LoopRaises
  BY <1>1 DEF LoopRaises
<1>2. CASE Begin
  BY <1>2 DEF Begin
<1>3. CASE StructuralFails
  BY <1>3 DEF StructuralFails
<1>4. CASE SpansFail
  BY <1>4 DEF SpansFail
<1>5. CASE \E d \in Diffs : Given(d)
  BY <1>5 DEF Given, Diffs
<1>6. CASE \E d \in Diffs : ModelAnswers(d)
  BY <1>6 DEF ModelAnswers
<1>7. CASE \E p \in {"swapped", "spans", "raised"} : AttemptGap(p)
  BY <1>7 DEF AttemptGap
<1>8. CASE \E x \in BOOLEAN : TryProvider(x)
  BY <1>8 DEF TryProvider
<1>9. CASE \E x \in BOOLEAN : SwapFails(x)
  BY <1>9 DEF SwapFails
<1>10. CASE \E x \in BOOLEAN : CheckPaths(x)
  BY <1>10, PathsAreChecked
<1>11. CASE \E x \in BOOLEAN : Validate(x)
  BY <1>11, DiffIsValidated
<1>12. CASE \E x \in BOOLEAN : AttemptUnusable(x) \/ AttemptRaises(x)
  BY <1>12, AttemptIsChecked
<1>13. CASE UNCHANGED genVars
  BY <1>13 DEF genVars
<1> QED
  BY <1>1, <1>2, <1>3, <1>4, <1>5, <1>6, <1>7, <1>8, <1>9, <1>10, <1>11, <1>12, <1>13 DEF GenNext

\* What a provider may ask for at most: the structural call, the attempts, and those again after
\* each validation that fails.
ProviderCalls == 4 + 3 * MaxChecks

\* What the providers before, the recoveries and the validations of this one account for.
PastCalls(provider, fires, checks) == (provider - 1) * ProviderCalls + 2 * fires + 3 * checks

\* How many calls there are at most, by where the call is.
GenSpent ==
    LET past == PastCalls(genProvider, genFires, genChecks)
    IN  CASE genPhase = "start" -> genCalls = 0
          [] genPhase = "try" -> genCalls <= past + (IF genChecks = 0 THEN 0 ELSE 1)
          [] genPhase = "structural" -> genChecks = 0 /\ genCalls <= past
          [] genPhase = "attempt" -> genCalls <= past + genAttempt
          [] genPhase = "swapped" -> genFires >= 1 /\ genCalls <= past + genAttempt - 1
          [] genPhase = "spans" -> genFires >= 1 /\ genCalls <= past + genAttempt
          [] OTHER -> genCalls <= past + 4

LEMMA PastCallsHold ==
    ASSUME NEW p \in 1..ChainLength, NEW f \in 0..MaxFires, NEW c \in 0..MaxChecks
    PROVE  /\ PastCalls(p, f, c) \in Nat
           /\ PastCalls(p, f + 1, c) = PastCalls(p, f, c) + 2
           /\ PastCalls(p, f, c + 1) = PastCalls(p, f, c) + 3
           /\ PastCalls(p + 1, f, 0) >= PastCalls(p, f, c) + 4
           /\ PastCalls(p, f, c) + 4 <= MostCalls
<1> DEFINE K == ProviderCalls
<1>0. p \in Nat /\ p - 1 \in Nat /\ f \in Nat /\ f <= 2 /\ c \in Nat /\ c <= MaxChecks /\ K \in Nat
      /\ ChainLength \in Nat /\ p <= ChainLength /\ MaxChecks \in Nat /\ K = 4 + 3 * MaxChecks
  BY CallAssumption DEF MaxFires, ProviderCalls
<1>1. MostCalls = ChainLength * K + 4
  BY <1>0 DEF MostCalls, MaxGenAttempts, MaxFires
<1> HIDE DEF K
<1>2. (p - 1) * K \in Nat /\ p * K = (p - 1) * K + K
  BY <1>0
<1>3. p * K <= ChainLength * K
  BY <1>0
<1>4. ChainLength * K \in Nat
  BY <1>0
<1>5. \A q, g, d : PastCalls(q, g, d) = (q - 1) * K + 2 * g + 3 * d
  BY DEF PastCalls, K
<1>6. PastCalls(p, f, c) = (p - 1) * K + 2 * f + 3 * c
      /\ PastCalls(p, f + 1, c) = (p - 1) * K + 2 * (f + 1) + 3 * c
      /\ PastCalls(p, f, c + 1) = (p - 1) * K + 2 * f + 3 * (c + 1)
      /\ PastCalls(p + 1, f, 0) = p * K + 2 * f
  BY <1>0, <1>5
<1> DEFINE M == (p - 1) * K
           N == p * K
           L == ChainLength * K
<1>7. M \in Nat /\ N = M + K /\ N <= L /\ L \in Nat
  BY <1>2, <1>3, <1>4
<1>8. /\ PastCalls(p, f, c) = M + 2 * f + 3 * c
      /\ PastCalls(p, f + 1, c) = M + 2 * (f + 1) + 3 * c
      /\ PastCalls(p, f, c + 1) = M + 2 * f + 3 * (c + 1)
      /\ PastCalls(p + 1, f, 0) = N + 2 * f
      /\ MostCalls = L + 4
  BY <1>1, <1>6
<1> HIDE DEF M, N, L
<1> QED
  BY <1>0, <1>7, <1>8

LEMMA GenSpentStarts == GenInit => GenSpent
BY DEF GenInit, GenSpent

LEMMA GenSpentBounds == GenTypeOK /\ GenSpent => CallsAreBounded
<1> SUFFICES ASSUME GenTypeOK, GenSpent PROVE CallsAreBounded
  OBVIOUS
<1> DEFINE past == PastCalls(genProvider, genFires, genChecks)
<1>1. past \in Nat /\ past + 4 <= MostCalls
  BY PastCallsHold DEF GenTypeOK
<1>2. genAttempt \in 1..3 /\ genCalls \in Nat /\ MostCalls \in Int
  BY CallAssumption DEF GenTypeOK, MaxGenAttempts, MostCalls, MaxFires
<1>3. genCalls <= past + 4
  <2> HIDE DEF past
  <2> QED
    BY <1>1, <1>2 DEF GenSpent, GenTypeOK, past
<1> HIDE DEF past
<1> QED
  BY <1>1, <1>2, <1>3 DEF CallsAreBounded

\* An error of the provider: the next one has calls of its own.
LEMMA FailsSpent ==
    ASSUME GenTypeOK, NEW x \in BOOLEAN, Fails(x), genFires' = genFires, genCalls' \in Nat,
           genCalls' <= PastCalls(genProvider, genFires, genChecks) + 4
    PROVE  GenSpent'
<1> DEFINE past == PastCalls(genProvider, genFires, genChecks)
<1>0. past \in Nat /\ PastCalls(genProvider + 1, genFires, 0) >= past + 4
      /\ PastCalls(genProvider + 1, genFires, 0) \in Int
  BY PastCallsHold, CallAssumption DEF GenTypeOK, PastCalls, ProviderCalls, MaxFires
<1>1. CASE genPhase' = "try" /\ genProvider' = genProvider + 1 /\ genChecks' = 0
  <2> DEFINE next == PastCalls(genProvider', genFires', genChecks')
  <2>1. next \in Int /\ genCalls' \in Int /\ genCalls' <= next + 0
    BY <1>0, <1>1
  <2> HIDE DEF next
  <2> QED
    BY <1>1, <2>1 DEF GenSpent, next
<1>2. CASE genPhase' = "raised" /\ UNCHANGED <<genProvider, genChecks>>
  BY <1>2 DEF GenSpent
<1> QED
  BY <1>1, <1>2 DEF Fails

LEMMA GenSpentKept == GenTypeOK /\ GenSpent /\ [GenNext]_genVars => GenSpent'
<1> SUFFICES ASSUME GenTypeOK, GenSpent, [GenNext]_genVars PROVE GenSpent'
  OBVIOUS
<1> DEFINE past == PastCalls(genProvider, genFires, genChecks)
<1>0. /\ past \in Nat /\ PastCalls(genProvider, genFires + 1, genChecks) = past + 2
      /\ PastCalls(genProvider, genFires, genChecks + 1) = past + 3
      /\ genAttempt \in 1..3 /\ genCalls \in Nat /\ genFires \in Nat /\ genChecks \in Nat
  BY PastCallsHold, CallAssumption DEF GenTypeOK, MaxGenAttempts, MaxFires
<1>1. CASE LoopRaises \/ Begin \/ (\E d \in Diffs : Given(d))
  <2>1. genCalls' = 0 /\ genPhase' \in {"try", "raised", "returned"}
        /\ UNCHANGED <<genProvider, genFires, genChecks>>
    BY <1>1 DEF LoopRaises, Begin, Given, GenSpent
  <2> DEFINE next == PastCalls(genProvider', genFires', genChecks')
  <2>2. next = past
    BY <2>1
  <2>3. 0 <= next + 0 /\ 0 <= next + 1 /\ 0 <= next + 4
    BY <1>0, <2>2
  <2> HIDE DEF next
  <2> QED
    BY <2>1, <2>3 DEF GenSpent, next
<1>2. CASE StructuralFails
  BY <1>0, <1>2 DEF StructuralFails, GenSpent
<1>3. CASE SpansFail
  BY <1>0, <1>3 DEF SpansFail, GenSpent
<1>4. CASE \E d \in Diffs : ModelAnswers(d)
  BY <1>0, <1>4 DEF ModelAnswers, GenSpent
<1>5. CASE \E p \in {"swapped", "spans", "raised"} : AttemptGap(p)
  <2>1. /\ genPhase = "attempt" /\ genCalls' = genCalls + 1 /\ genCalls <= past + genAttempt
        /\ UNCHANGED <<genProvider, genAttempt, genChecks>>
    BY <1>5 DEF AttemptGap, GenSpent
  <2>2. CASE genFires' = genFires + 1 /\ genPhase' \in {"swapped", "spans", "raised"}
    <3>1. PastCalls(genProvider', genFires', genChecks') = past + 2
      BY <1>0, <2>1, <2>2
    <3> HIDE DEF past
    <3> QED
      BY <1>0, <2>1, <2>2, <3>1 DEF GenSpent
  <2>3. CASE genFires' = genFires /\ genPhase' = "raised"
    BY <1>0, <2>1, <2>3 DEF GenSpent
  <2> QED
    BY <1>5, <2>2, <2>3 DEF AttemptGap
<1>6. CASE \E x \in BOOLEAN : TryProvider(x)
  BY <1>0, <1>6 DEF TryProvider, GenSpent
<1>7. CASE \E x \in BOOLEAN : SwapFails(x)
  BY <1>0, <1>7 DEF SwapFails, GenSpent
<1>8. CASE \E x \in BOOLEAN : CheckPaths(x)
  <2> PICK x \in BOOLEAN : CheckPaths(x)
    BY <1>8
  <2>1. genPhase = "paths" /\ genCalls <= past + 4 /\ UNCHANGED <<genFires, genCalls>>
    BY DEF CheckPaths, GenSpent
  <2>2. CASE Fails(x)
    BY <1>0, <2>1, <2>2, FailsSpent
  <2>3. CASE genPhase' \in {"validate", "returned"} /\ UNCHANGED <<genProvider, genChecks>>
    BY <2>1, <2>3 DEF GenSpent
  <2> QED
    BY <2>2, <2>3 DEF CheckPaths
<1>9. CASE \E x \in BOOLEAN : Validate(x)
  <2> PICK x \in BOOLEAN : Validate(x)
    BY <1>9
  <2>1. genPhase = "validate" /\ genCalls <= past + 4 /\ UNCHANGED <<genFires, genCalls>>
    BY DEF Validate, GenSpent
  <2>2. CASE Fails(x)
    BY <1>0, <2>1, <2>2, FailsSpent
  <2>3. CASE genPhase' = "returned" /\ UNCHANGED <<genProvider, genChecks>>
    BY <2>1, <2>3 DEF GenSpent
  <2>4. CASE genPhase' = "try" /\ genChecks' = genChecks + 1 /\ genProvider' = genProvider
    <3>1. PastCalls(genProvider', genFires', genChecks') = past + 3 /\ genChecks' # 0
      BY <1>0, <2>1, <2>4
    <3> HIDE DEF past
    <3> QED
      BY <1>0, <2>1, <2>4, <3>1 DEF GenSpent
  <2> QED
    BY <2>2, <2>3, <2>4 DEF Validate
<1>10. CASE \E x \in BOOLEAN : AttemptUnusable(x) \/ AttemptRaises(x)
  <2> PICK x \in BOOLEAN : AttemptUnusable(x) \/ AttemptRaises(x)
    BY <1>10
  <2>1. /\ genPhase = "attempt" /\ genCalls <= past + genAttempt /\ genCalls' = genCalls + 1
        /\ genFires' = genFires
    BY DEF AttemptUnusable, AttemptRaises, GenSpent
  <2>2. CASE Fails(x)
    BY <1>0, <2>1, <2>2, FailsSpent
  <2>3. CASE genAttempt' = genAttempt + 1 /\ UNCHANGED <<genPhase, genProvider, genChecks>>
    <3>1. genCalls' <= PastCalls(genProvider', genFires', genChecks') + genAttempt'
      BY <1>0, <2>1, <2>3
    <3> QED
      BY <2>1, <2>3, <3>1 DEF GenSpent
  <2> QED
    BY <2>2, <2>3 DEF AttemptUnusable, AttemptRaises
<1>11. CASE UNCHANGED genVars
  BY <1>11 DEF genVars, GenSpent
<1> QED
  BY <1>1, <1>2, <1>3, <1>4, <1>5, <1>6, <1>7, <1>8, <1>9, <1>10, <1>11 DEF GenNext

LEMMA GenAlways ==
    GenInit /\ [][GenNext]_genVars => [](GenTypeOK /\ ReturnedIsChecked /\ CallsAreBounded)
<1>1. Checked => ReturnedIsChecked
  BY DEF Checked
<1> QED
  BY <1>1, GenStarts, GenKeeps, CheckedStarts, CheckedKept, GenSpentStarts, GenSpentKept,
     GenSpentBounds, PTL

-----------------------------------------------------------------------------
(* The command line tools (CodegenCli).                                                           *)

CliDirs == [All -> CliTexts]

\* What an attempt works on: the repository, or views that no attempt has touched.
CliClean(mode, view, dir) ==
    /\ mode.kind = "worktree" => dir = Repository
    /\ \A f \in All : mode.kind = "worktree" \/ view[f] # None => dir[f].try = 0

\* What the last of so many attempts leaves: its own edits alone, and in a worktree a file that it
\* has not edited and not deleted is the repository's.
CliWorked(mode, view, dir, tries) ==
    /\ \A f \in All : mode.kind = "worktree" \/ view[f] # None => dir[f].try \in {0, tries}
    /\ mode.kind = "worktree" =>
         \A f \in All : \/ dir[f].try > 0 \/ dir[f] = Repository[f]
                        \/ f \in CliFiles /\ dir[f] = None

CliTyped ==
    /\ cliMode \in [kind : {"worktree", "tempdir", "codex"}, source : BOOLEAN]
    /\ cliView \in CliViews /\ cliDir \in CliDirs /\ cliTries \in Tries
    /\ cliAt \in Steps \cup CliOutcomes \cup {"ended_returned", "ended_raised", "dead"}
    /\ cliSaid \subseteq All /\ cliLeft \subseteq {"worktree", "branch"}
    /\ DOMAIN cliDiff \subseteq All
    /\ \A f \in DOMAIN cliDiff : cliDiff[f] \in [from : CliTexts, to : CliTexts]
    /\ cliFaults \in 0..MaxCliFaults

CliInv ==
    /\ CliTyped
    /\ cliAt = "start" => cliTries = 0
    /\ cliAt \in {"run", "reset"} => cliTries < MaxTries
    /\ cliAt = "run" => CliClean(cliMode, cliView, cliDir)
    /\ cliAt \in {"extract", "returned"} => CliWorked(cliMode, cliView, cliDir, cliTries)
    /\ cliAt \in Steps => cliDiff = NoDiff
    /\ LastTryOnly
    /\ cliAt = "returned" /\ cliMode.kind = "worktree" /\ GitChanges # {} =>
         /\ DOMAIN cliDiff = GitChanges
         /\ \A f \in GitChanges : cliDiff[f].from = Repository[f]
    /\ NothingLeft

LEMMA CliTextsHold ==
    /\ None \in CliTexts /\ File \in CliTexts /\ View \in CliTexts
    /\ None.try = 0 /\ File.try = 0 /\ View.try = 0
    /\ None.of = "nothing" /\ File.of = "file" /\ File # None
<1>1. CliRetries \in Nat /\ 0 \in Tries
  BY CliAssumption DEF Tries
<1>2. None \in CliTexts /\ File \in CliTexts /\ View \in CliTexts
  BY <1>1 DEF None, File, View, CliTexts
<1>3. None.try = 0 /\ File.try = 0 /\ View.try = 0 /\ None.of = "nothing" /\ File.of = "file"
  BY DEF None, File, View
<1> QED
  BY <1>2, <1>3

\* The texts of the repository and of the prompt are those of no attempt.
LEMMA CliOriginals ==
    ASSUME NEW view \in CliViews
    PROVE  /\ Repository \in CliDirs /\ view \in CliDirs
           /\ \A f \in All : /\ Repository[f].try = 0 /\ Repository[f].of # "view"
                             /\ view[f].try = 0
                             /\ f \in CliFiles => Repository[f] # None
                             /\ f \notin CliFiles => Repository[f] = None
<1>1. Repository \in CliDirs
  BY CliTextsHold DEF Repository, CliDirs
<1>2. view \in [All -> {None, File, View}]
  BY DEF CliViews
<1>3. view \in CliDirs
  BY <1>2, CliTextsHold DEF CliDirs
<1>4. \A f \in All : Repository[f] = IF f \in CliFiles THEN File ELSE None
  BY DEF Repository
<1> QED
  BY <1>1, <1>2, <1>3, <1>4, CliTextsHold

LEMMA CliStarts == CliInit => CliInv
<1> SUFFICES ASSUME CliInit PROVE CliInv
  OBVIOUS
<1>1. cliDir \in CliDirs
  BY CliTextsHold DEF CliInit, CliDirs
<1>2. DOMAIN cliDiff = {}
  BY DEF CliInit, NoDiff
<1>3. CliTyped
  BY <1>1, <1>2, CliAssumption DEF CliInit, CliTyped, Tries, Steps
<1> QED
  BY <1>2, <1>3 DEF CliInit, CliInv, Steps, LastTryOnly, NothingLeft

\* A step that returns nothing and cleans nothing up: what it has to keep.
LEMMA CliGoesOn ==
    ASSUME CliInv, cliAt \in Steps, CliKeeps, cliDiff' = cliDiff,
           cliAt' \in {"run", "reset", "extract", "raised", "dead"},
           cliDir' \in CliDirs, cliTries' \in Tries, cliSaid' \subseteq All,
           cliLeft' \subseteq {"worktree", "branch"}, cliFaults' = cliFaults,
           cliAt' \in {"run", "reset"} => cliTries' < MaxTries,
           cliAt' = "run" => CliClean(cliMode, cliView, cliDir'),
           cliAt' = "extract" => CliWorked(cliMode, cliView, cliDir', cliTries')
    PROVE  CliInv'
<1>0. cliMode' = cliMode /\ cliView' = cliView /\ cliDiff = NoDiff /\ MaxTries' = MaxTries
  BY DEF CliKeeps, CliInv, MaxTries
<1>1. DOMAIN cliDiff' = {}
  BY <1>0 DEF NoDiff
<1>2. CliTyped'
  BY <1>0, <1>1 DEF CliInv, CliTyped, Steps, CliOutcomes
<1>3. CliClean(cliMode, cliView, cliDir)' <=> CliClean(cliMode, cliView, cliDir')
  BY <1>0 DEF CliClean
<1>4. CliWorked(cliMode, cliView, cliDir, cliTries)'
         <=> CliWorked(cliMode, cliView, cliDir', cliTries')
  BY <1>0 DEF CliWorked
<1>5. LastTryOnly' /\ NothingLeft'
  BY <1>1 DEF LastTryOnly, NothingLeft
<1> QED
  BY <1>0, <1>2, <1>3, <1>4, <1>5 DEF CliInv

\* What is written of a file of the prompt is not what an attempt has made of it.
LEMMA CliWrites ==
    ASSUME CliTyped, NEW f \in All
    PROVE  Written(f) \in CliTexts /\ Written(f).try = 0
BY CliOriginals DEF CliTyped, Written, CliDirs

LEMMA CliMakes == CliInv /\ (AddWorktree \/ MakeTempdir) => CliInv'
<1> SUFFICES ASSUME CliInv, AddWorktree \/ MakeTempdir PROVE CliInv'
  OBVIOUS
<1>0. /\ CliTyped /\ cliAt = "start" /\ cliAt' = "run" /\ cliTries = 0 /\ cliTries' = 0
      /\ cliSaid' = cliSaid /\ cliDiff' = cliDiff /\ cliFaults' = cliFaults /\ CliKeeps
      /\ cliView \in CliViews
  BY DEF CliInv, CliTyped, AddWorktree, MakeTempdir, CliGo, Ran
<1>1. 0 < MaxTries /\ 0 \in Tries
  BY CliAssumption DEF MaxTries, Tries
<1>2. cliDir' \in CliDirs /\ CliClean(cliMode, cliView, cliDir')
      /\ cliLeft' \subseteq {"worktree", "branch"}
  <2>1. CASE AddWorktree
    BY <1>0, <2>1, CliOriginals DEF AddWorktree, CliClean
  <2>2. CASE MakeTempdir
    <3>1. cliDir' = [f \in All |-> IF f \in Shown THEN Written(f) ELSE None]
      BY <2>2 DEF MakeTempdir
    <3>2. cliDir' \in CliDirs /\ \A f \in All : cliDir'[f].try = 0
      BY <1>0, <3>1, CliWrites, CliTextsHold DEF CliDirs
    <3> QED
      BY <1>0, <2>2, <3>2 DEF MakeTempdir, CliClean, Ran, CliTyped
  <2> QED
    BY <2>1, <2>2
<1> QED
  BY <1>0, <1>1, <1>2, CliGoesOn DEF Steps, CliTyped

\* What an attempt leaves of a clean directory.
LEMMA CliEdits ==
    ASSUME CliTyped, CliClean(cliMode, cliView, cliDir), cliTries < MaxTries, Works
    PROVE  /\ cliDir' \in CliDirs /\ cliTries' = cliTries + 1 /\ cliTries' \in Tries
           /\ CliWorked(cliMode, cliView, cliDir', cliTries')
<1>0. /\ cliTries' = cliTries + 1 /\ cliTries \in Nat /\ cliDir \in CliDirs /\ cliView \in CliViews
      /\ CliRetries \in Nat
  BY CliAssumption DEF Works, CliTyped, Tries
<1>1. cliTries' \in Tries /\ cliTries' > 0
  BY <1>0 DEF Tries, MaxTries
<1> PICK edits \in SUBSET All, deletes \in SUBSET All :
        /\ \A f \in deletes : cliDir[f] # None
        /\ cliDir' = Edited(cliDir, edits, deletes, cliTries')
  BY DEF Works
<1> DEFINE New(f) == [of |-> IF cliDir[f].of = "nothing" THEN "words" ELSE cliDir[f].of,
                      try |-> cliTries']
<1>2. \A f \in All : New(f) \in CliTexts /\ New(f).try = cliTries'
  <2> TAKE f \in All
  <2> DEFINE of == IF cliDir[f].of = "nothing" THEN "words" ELSE cliDir[f].of
  <2>1. of \in {"file", "view", "words", "nothing"}
    BY <1>0 DEF CliDirs, CliTexts
  <2>2. New(f) = [of |-> of, try |-> cliTries']
    OBVIOUS
  <2> HIDE DEF of
  <2> QED
    BY <1>1, <2>1, <2>2 DEF CliTexts
<1>3. cliDir' = [f \in All |-> IF f \in deletes THEN None
                               ELSE IF f \in edits THEN New(f) ELSE cliDir[f]]
  BY DEF Edited
<1> HIDE DEF New
<1>4. cliDir' \in CliDirs
  BY <1>0, <1>2, <1>3, CliTextsHold DEF CliDirs
<1>5. \A f \in All : \/ cliDir'[f] = None /\ f \in deletes
                     \/ cliDir'[f].try = cliTries'
                     \/ cliDir'[f] = cliDir[f]
  BY <1>2, <1>3
<1>6. \A f \in All : cliMode.kind = "worktree" \/ cliView[f] # None
                        => cliDir'[f].try \in {0, cliTries'}
  BY <1>5, CliTextsHold DEF CliClean
<1>7. ASSUME cliMode.kind = "worktree"
      PROVE  \A f \in All : \/ cliDir'[f].try > 0 \/ cliDir'[f] = Repository[f]
                            \/ f \in CliFiles /\ cliDir'[f] = None
  <2>1. cliDir = Repository
    BY <1>7 DEF CliClean
  <2>2. \A f \in deletes : f \in CliFiles
    BY <1>0, <2>1, CliOriginals
  <2> QED
    BY <1>1, <1>5, <2>1, <2>2
<1> QED
  BY <1>0, <1>1, <1>4, <1>6, <1>7 DEF CliWorked

LEMMA CliTriesOn == CliInv /\ (AttemptEnds \/ CliAttemptFails) => CliInv'
<1> SUFFICES ASSUME CliInv, AttemptEnds \/ CliAttemptFails PROVE CliInv'
  OBVIOUS
<1>0. /\ CliTyped /\ cliAt = "run" /\ CliClean(cliMode, cliView, cliDir) /\ cliTries < MaxTries
      /\ Works /\ CliKeeps /\ cliDiff' = cliDiff /\ cliLeft' = cliLeft /\ cliFaults' = cliFaults
  BY DEF CliInv, AttemptEnds, CliAttemptFails, CliGo, Works, Ran
<1>1. /\ cliDir' \in CliDirs /\ cliTries' \in Tries
      /\ CliWorked(cliMode, cliView, cliDir', cliTries')
  BY <1>0, CliEdits
<1>2. cliLeft' \subseteq {"worktree", "branch"} /\ cliSaid \subseteq All
  BY <1>0 DEF CliTyped
<1>3. MaxTries' = MaxTries
  BY <1>0 DEF MaxTries, CliKeeps
<1>4. CASE AttemptEnds
  <2>1. cliSaid' \subseteq All /\ cliAt' = "extract"
    BY <1>4 DEF AttemptEnds, CliGo
  <2> QED
    BY <1>0, <1>1, <1>2, <2>1, CliGoesOn DEF Steps
<1>5. CASE CliAttemptFails
  <2>1. cliSaid' \subseteq All /\ cliAt' \in {"reset", "raised"}
        /\ (cliAt' = "reset" => cliTries' < MaxTries)
    BY <1>2, <1>3, <1>5 DEF CliAttemptFails
  <2> QED
    BY <1>0, <1>1, <1>2, <2>1, CliGoesOn DEF Steps
<1> QED
  BY <1>4, <1>5

LEMMA CliResets == CliInv /\ (CliReset \/ ResetFails) => CliInv'
<1> SUFFICES ASSUME CliInv, CliReset \/ ResetFails PROVE CliInv'
  OBVIOUS
<1>0. /\ CliTyped /\ cliAt = "reset" /\ cliTries < MaxTries /\ cliView \in CliViews
      /\ CliKeeps /\ cliDiff' = cliDiff /\ cliLeft' = cliLeft /\ cliFaults' = cliFaults
      /\ cliSaid' = cliSaid /\ cliTries \in Tries /\ cliDir \in CliDirs /\ cliSaid \subseteq All
      /\ cliLeft \subseteq {"worktree", "branch"}
  BY DEF CliInv, CliTyped, CliReset, ResetFails, CliGo, Ran
<1>1. CASE CliReset
  <2>1. cliAt' = "run" /\ cliTries' = cliTries /\ cliDir' = ResetDir
    BY <1>1 DEF CliReset, CliGo
  <2>2. CASE cliMode.kind = "worktree"
    <3>1. cliDir' = Repository
      BY <2>1, <2>2 DEF ResetDir
    <3>2. cliDir' \in CliDirs /\ CliClean(cliMode, cliView, cliDir')
      BY <1>0, <3>1, CliOriginals DEF CliClean
    <3> QED
      BY <1>0, <2>1, <3>2, CliGoesOn DEF Steps
  <2>3. CASE cliMode.kind # "worktree"
    <3>1. cliDir' = [f \in All |-> IF f \in Shown THEN Written(f) ELSE cliDir[f]]
      BY <2>1, <2>3 DEF ResetDir
    <3>2. cliDir' \in CliDirs
      BY <1>0, <3>1, CliWrites DEF CliDirs
    <3>3. \A f \in All : cliView[f] # None => cliDir'[f].try = 0
      BY <1>0, <3>1, CliWrites DEF Shown
    <3>4. CliClean(cliMode, cliView, cliDir')
      BY <2>3, <3>3 DEF CliClean
    <3> QED
      BY <1>0, <2>1, <3>2, <3>4, CliGoesOn DEF Steps
  <2> QED
    BY <2>2, <2>3
<1>2. CASE ResetFails
  <2>1. cliDir' = cliDir /\ cliTries' = cliTries + 1 /\ MaxTries' = MaxTries
        /\ cliAt' \in {"reset", "raised"} /\ (cliAt' = "reset" => cliTries' < MaxTries)
    BY <1>0, <1>2 DEF ResetFails, CliKeeps, MaxTries
  <2>2. cliTries' \in Tries
    BY <1>0, <2>1, CliAssumption DEF MaxTries, Tries
  <2> QED
    BY <1>0, <2>1, <2>2, CliGoesOn DEF Steps
<1> QED
  BY <1>1, <1>2

\* A diff that is returned: of texts that the last attempt has left, or that the model has said.
LEMMA CliReturns ==
    ASSUME CliInv, NEW from \in CliDirs, NEW to \in CliDirs, NEW files \in SUBSET All,
           Returns(Change(from, to, files)),
           \A f \in files : cliMode.kind = "worktree" \/ f \in Shown => to[f].try \in {0, cliTries},
           cliMode.kind = "worktree" /\ GitChanges # {} => files = GitChanges /\ from = Repository
    PROVE  CliInv'
<1>0. /\ CliTyped /\ cliAt = "extract" /\ cliAt' = "returned" /\ cliDiff' = Change(from, to, files)
      /\ CliWorked(cliMode, cliView, cliDir, cliTries)
      /\ UNCHANGED <<cliMode, cliView, cliDir, cliTries, cliSaid, cliLeft, cliFaults>>
  BY DEF CliInv, Returns, CliGo, CliKeeps
<1>1. /\ DOMAIN cliDiff' = files
      /\ \A f \in files : cliDiff'[f] = [from |-> from[f], to |-> to[f]]
  BY <1>0 DEF Change
<1>2. \A f \in files : /\ cliDiff'[f] \in [from : CliTexts, to : CliTexts]
                       /\ cliDiff'[f].from = from[f] /\ cliDiff'[f].to = to[f]
  BY <1>1 DEF CliDirs
<1>3. CliTyped'
  BY <1>0, <1>1, <1>2 DEF CliTyped, Steps, CliOutcomes
<1>4. CliWorked(cliMode, cliView, cliDir, cliTries)'
  BY <1>0 DEF CliWorked
<1>5. Shown' = Shown /\ GitChanges' = GitChanges
  BY <1>0 DEF Shown, GitChanges
<1>6. LastTryOnly'
  BY <1>0, <1>1, <1>2, <1>5 DEF LastTryOnly
<1>7. NothingLeft'
  BY <1>0 DEF NothingLeft
<1> QED
  BY <1>0, <1>1, <1>2, <1>3, <1>4, <1>5, <1>6, <1>7 DEF CliInv, Steps

LEMMA CliAnswers ==
    CliInv /\ (ReturnGitDiff \/ ReturnScanned \/ ReturnPrinted \/ NoChange) => CliInv'
<1> SUFFICES ASSUME CliInv, ReturnGitDiff \/ ReturnScanned \/ ReturnPrinted \/ NoChange PROVE CliInv'
  OBVIOUS
<1>0. /\ CliTyped /\ cliAt = "extract" /\ CliWorked(cliMode, cliView, cliDir, cliTries)
      /\ cliDir \in CliDirs /\ cliView \in CliDirs /\ Repository \in CliDirs /\ cliSaid \subseteq All
      /\ cliTries \in Tries
  BY CliOriginals DEF CliInv, CliTyped, ReturnGitDiff, ReturnScanned, ReturnPrinted, NoChange,
     Returns, CliAborts, CliGo
<1>1. CASE ReturnGitDiff
  <2>1. GitChanges \in SUBSET All
    BY DEF GitChanges
  <2> QED
    BY <1>0, <1>1, <2>1, CliReturns DEF ReturnGitDiff, CliWorked
<1>2. CASE ReturnScanned
  <2>1. ScannedChanges \in SUBSET All
    BY DEF ScannedChanges, Shown
  <2>2. \A f \in ScannedChanges :
            cliMode.kind = "worktree" \/ f \in Shown => cliDir[f].try \in {0, cliTries}
    BY <1>0, <2>1 DEF CliWorked, Shown
  <2>3. ~(cliMode.kind = "worktree" /\ GitChanges # {})
    BY <1>2 DEF ReturnScanned, NothingForGit
  <2> QED
    BY <1>0, <1>2, <2>1, <2>2, <2>3, CliReturns DEF ReturnScanned
<1>3. CASE ReturnPrinted
  <2>1. Printed \in CliDirs /\ \A f \in All : Printed[f].try = cliTries
    BY <1>0 DEF Printed, CliDirs, CliTexts
  <2>3. ~(cliMode.kind = "worktree" /\ GitChanges # {})
    BY <1>3 DEF ReturnPrinted, NothingForGit
  <2> QED
    BY <1>0, <1>3, <2>1, <2>3, CliReturns DEF ReturnPrinted
<1>4. CASE NoChange
  <2>1. /\ cliAt' = "raised" /\ CliKeeps
        /\ UNCHANGED <<cliDir, cliTries, cliSaid, cliDiff, cliLeft, cliFaults>>
    BY <1>4 DEF NoChange, CliAborts, CliGo, Ran
  <2> QED
    BY <1>0, <2>1, CliGoesOn DEF Steps, CliTyped
<1> QED
  BY <1>1, <1>2, <1>3, <1>4

LEMMA CliCleansUp == CliInv /\ CleanUp => CliInv'
<1> SUFFICES ASSUME CliInv, CleanUp PROVE CliInv'
  OBVIOUS
<1>0. /\ CliTyped /\ cliAt' \in {"ended_returned", "ended_raised"}
      /\ UNCHANGED <<cliMode, cliView, cliTries, cliDiff>>
      /\ cliSaid' = {} /\ cliDir' = [f \in All |-> None]
  BY DEF CliInv, CleanUp, CliKeeps
<1>1. /\ cliLeft' \subseteq {"worktree", "branch"} /\ cliFaults' \in 0..MaxCliFaults
      /\ (cliFaults' = 0 => cliLeft' = {})
  <2>1. cliFaults \in 0..MaxCliFaults /\ MaxCliFaults \in Nat
        /\ cliLeft \subseteq {"worktree", "branch"}
    BY <1>0, CliAssumption DEF CliTyped
  <2>2. CASE cliLeft' = {} /\ cliFaults' = cliFaults
    BY <2>1, <2>2
  <2>3. CASE cliFaults < MaxCliFaults /\ cliFaults' = cliFaults + 1 /\ cliLeft' = cliLeft
    BY <2>1, <2>3
  <2> QED
    BY <2>2, <2>3 DEF CleanUp
<1>2. cliDir' \in CliDirs
  BY <1>0, CliTextsHold DEF CliDirs
<1>3. CliTyped'
  BY <1>0, <1>1, <1>2 DEF CliTyped
<1>4. LastTryOnly' /\ NothingLeft'
  BY <1>0, <1>1 DEF CliInv, LastTryOnly, NothingLeft, Shown
<1> QED
  BY <1>0, <1>3, <1>4 DEF CliInv, Steps

LEMMA CliKept == CliInv /\ [CliNext]_cliVars => CliInv'
<1> SUFFICES ASSUME CliInv, [CliNext]_cliVars PROVE CliInv'
  OBVIOUS
<1>1. CASE AddFails
  <2>1. /\ cliAt = "start" /\ cliAt' = "raised" /\ CliKeeps
        /\ cliLeft' \subseteq {"worktree", "branch"}
        /\ UNCHANGED <<cliDir, cliTries, cliSaid, cliDiff, cliFaults>>
    BY <1>1 DEF AddFails, CliGo
  <2> QED
    BY <2>1, CliGoesOn DEF Steps, CliInv, CliTyped
<1>2. CASE CliDies
  <2>1. /\ cliAt \in Steps /\ cliAt' = "dead" /\ CliKeeps
        /\ UNCHANGED <<cliDir, cliTries, cliSaid, cliDiff, cliLeft, cliFaults>>
    BY <1>2 DEF CliDies, Ran
  <2> QED
    BY <2>1, CliGoesOn DEF CliInv, CliTyped
<1>3. CASE UNCHANGED cliVars
  <2>1. CliTyped'
    BY <1>3 DEF CliInv, CliTyped, cliVars
  <2>2. MaxTries' = MaxTries /\ GitChanges' = GitChanges /\ Shown' = Shown
    BY <1>3 DEF MaxTries, GitChanges, Shown, cliVars
  <2> QED
    BY <1>3, <2>1, <2>2 DEF CliInv, LastTryOnly, NothingLeft, CliClean, CliWorked, cliVars
<1> QED
  BY <1>1, <1>2, <1>3, CliMakes, CliTriesOn, CliResets, CliAnswers, CliCleansUp DEF CliNext, CliStep

LEMMA CliHolds == CliInv => CliTypeOK /\ LastTryOnly /\ WorkIsReturned /\ NothingLeft
<1> SUFFICES ASSUME CliInv PROVE CliTypeOK /\ LastTryOnly /\ WorkIsReturned /\ NothingLeft
  OBVIOUS
<1>0. CliTyped /\ cliView \in CliDirs
  BY CliOriginals DEF CliInv, CliTyped
<1>1. CliTypeOK
  BY <1>0 DEF CliTyped, CliTypeOK, CliDirs
<1>2. WorkIsReturned
  <2> SUFFICES ASSUME cliAt = "returned", cliMode.kind = "worktree", GitChanges # {}
               PROVE  /\ DOMAIN cliDiff = {f \in All : \/ cliDir[f].try > 0
                                                       \/ f \in CliFiles /\ cliDir[f] = None}
                      /\ \A f \in DOMAIN cliDiff : cliDiff[f].from.of # "view"
    BY DEF WorkIsReturned
  <2>1. /\ CliWorked(cliMode, cliView, cliDir, cliTries) /\ DOMAIN cliDiff = GitChanges
        /\ \A f \in GitChanges : cliDiff[f].from = Repository[f]
    BY DEF CliInv
  <2>2. \A f \in All : /\ Repository[f].try = 0 /\ Repository[f].of # "view"
                       /\ f \in CliFiles => Repository[f] # None
    BY <1>0, CliOriginals DEF CliTyped
  <2>3. \A f \in All : cliDir[f] # Repository[f]
                         <=> cliDir[f].try > 0 \/ (f \in CliFiles /\ cliDir[f] = None)
    BY <2>1, <2>2 DEF CliWorked
  <2>4. GitChanges = {f \in All : cliDir[f].try > 0 \/ (f \in CliFiles /\ cliDir[f] = None)}
    BY <2>3 DEF GitChanges
  <2> QED
    BY <2>1, <2>2, <2>4 DEF GitChanges
<1> QED
  BY <1>1, <1>2 DEF CliInv

LEMMA CliAlways ==
    CliInit /\ [][CliNext]_cliVars =>
        [](CliTypeOK /\ LastTryOnly /\ WorkIsReturned /\ NothingLeft)
BY CliStarts, CliKept, CliHolds, PTL

-----------------------------------------------------------------------------
(* The blocks (AiderBlocks).                                                                      *)

AdTexts == Seq(AdTokens)
AdOriginals == Texts \union {NoText, <<>>}

\* The text a block finds for a file.
AdFound(now, base, p) == IF now[p] # NoText THEN now[p] ELSE base[p]

AdNamed(blocks, p) == \E i \in DOMAIN blocks : blocks[i].file = p
AdMade(blocks, p) == \E i \in DOMAIN blocks : blocks[i].file = p /\ blocks[i].fresh

\* What each block adds to the length of a file.
AdGrowths(blocks, p) ==
    [i \in DOMAIN blocks |->
        IF blocks[i].file = p THEN Len(blocks[i].replace) - Len(blocks[i].search) ELSE 0]

AdGrown(blocks, p, n) == PartSum(AdGrowths(blocks, p), 1..n)

AdTyped ==
    /\ adDisk \in Trees /\ adView \in Views
    /\ adPhase \in {"ask", "load", "apply", "finish", "diff", "gap", "raised"}
    /\ adTry \in 1..2
    /\ adBlocks \in BoundedSeq(AdBlock, MaxBlocks)
    /\ adBase \in [Paths -> AdOriginals]
    /\ adAt \in 1..Len(adBlocks) + 1
    /\ adNow \in [Paths -> AdTexts \union {NoText}]
    /\ adBefore \in [Paths -> AdOriginals]
    /\ adErrors \subseteq 1..MaxBlocks

\* The lengths of the files add up to the block that is next.
AdAddsUp(blocks, now, base, at) ==
    \A p \in Paths : AdNamed(blocks, p) /\ ~AdMade(blocks, p) =>
        Len(AdFound(now, base, p)) = Len(base[p]) + AdGrown(blocks, p, at - 1)

AdInv ==
    /\ AdTyped
    /\ \A p \in Paths : (adNow[p] = NoText) = (adBefore[p] = NoText)
    /\ \A p \in Paths : adNow[p] # NoText => adBefore[p] = adBase[p]
    /\ adPhase \in {"ask", "load"} =>
         adAt = 1 /\ adNow = Nothing /\ adBefore = Nothing /\ adErrors = {}
    /\ adPhase \in {"load", "apply", "diff"} => adBase = Originals(adBlocks)
    /\ adPhase = "diff" => adErrors = {} /\ adAt = Len(adBlocks) + 1
    /\ adPhase \in {"apply", "diff"} /\ adErrors = {} =>
         AdAddsUp(adBlocks, adNow, adBase, adAt)

LEMMA AdBounded ==
    ASSUME NEW blocks \in BoundedSeq(AdBlock, MaxBlocks)
    PROVE  /\ blocks \in Seq(AdBlock) /\ Len(blocks) \in Nat /\ Len(blocks) <= MaxBlocks
           /\ DOMAIN blocks = 1..Len(blocks)
           /\ \A i \in 1..Len(blocks) : blocks[i] \in AdBlock
<1>1. PICK m \in 0..MaxBlocks : blocks \in [1..m -> AdBlock]
  BY DEF BoundedSeq, SeqOf
<1>2. m \in Nat /\ m <= MaxBlocks
  BY <1>1, AiderAssumption
<1>3. blocks \in Seq(AdBlock) /\ Len(blocks) = m
  BY <1>1, <1>2
<1> QED
  BY <1>1, <1>2, <1>3

LEMMA AdNoBlocks == <<>> \in BoundedSeq(AdBlock, MaxBlocks) /\ Len(<<>>) = 0
<1>1. 0 \in 0..MaxBlocks
  BY AiderAssumption
<1>2. <<>> \in [1..0 -> AdBlock]
  OBVIOUS
<1> QED
  BY <1>1, <1>2 DEF BoundedSeq, SeqOf

LEMMA AdBlockParts ==
    ASSUME NEW b \in AdBlock
    PROVE  b.file \in Paths /\ b.search \in AdTexts /\ b.replace \in AdTexts /\ b.fresh \in BOOLEAN
BY AiderAssumption DEF AdBlock, AdTexts

LEMMA AdTextsHold ==
    /\ Nothing \in [Paths -> AdOriginals] /\ Nothing \in [Paths -> AdTexts \union {NoText}]
    /\ <<>> \in AdTexts /\ NoText \notin AdTexts
    /\ \A t \in AdOriginals : t = NoText \/ t \in AdTexts
    /\ \A t \in Trees \union Views : \A p \in Paths : t[p] \in AdOriginals
<1>1. <<>> \in AdTexts /\ NoText \notin AdTexts
  BY AiderAssumption DEF AdTexts
<1>2. \A t \in AdOriginals : t = NoText \/ t \in AdTexts
  BY <1>1, AiderAssumption DEF AdOriginals, AdTexts
<1>3. \A t \in Trees \union Views : \A p \in Paths : t[p] \in AdOriginals
  BY AiderAssumption DEF AdOriginals
<1> QED
  BY <1>1, <1>2, <1>3 DEF Nothing, AdOriginals

\* One occurrence of the anchor is replaced.
LEMMA AdReplaces ==
    ASSUME NEW text \in AdTexts, NEW search \in AdTexts, NEW replace \in AdTexts,
           OccursOnce(search, text)
    PROVE  /\ ReplacedOnce(text, search, replace) \in AdTexts
           /\ Len(ReplacedOnce(text, search, replace)) = Len(text) + (Len(replace) - Len(search))
<1> DEFINE i == CHOOSE j \in Occurs(search, text) : \A k \in Occurs(search, text) : j <= k
           head == SubSeq(text, 1, i - 1)
           tail == SubSeq(text, i + Len(search), Len(text))
<1>1. i \in Occurs(search, text)
  BY DEF OccursOnce
<1>2. i \in 1..Len(text) - Len(search) + 1
  BY <1>1 DEF Occurs
<1>3. Len(text) \in Nat /\ Len(search) \in Nat /\ Len(replace) \in Nat
  BY DEF AdTexts
<1>4. ReplacedOnce(text, search, replace) = (head \o replace) \o tail
  BY DEF ReplacedOnce
<1> HIDE DEF i
<1>5. head \in AdTexts /\ Len(head) = i - 1
  BY <1>2, <1>3, SubSeqProperties DEF AdTexts
<1>6. tail \in AdTexts /\ Len(tail) = Len(text) - (i + Len(search)) + 1
  BY <1>2, <1>3, SubSeqProperties DEF AdTexts
<1> HIDE DEF head, tail
<1>7. head \o replace \in AdTexts /\ Len(head \o replace) = (i - 1) + Len(replace)
  BY <1>5, ConcatProperties DEF AdTexts
<1>8. (head \o replace) \o tail \in AdTexts
      /\ Len((head \o replace) \o tail) = ((i - 1) + Len(replace)) + (Len(text) - (i + Len(search)) + 1)
  <2> DEFINE front == head \o replace
  <2>1. front \in Seq(AdTokens) /\ Len(front) = (i - 1) + Len(replace)
    BY <1>7 DEF AdTexts
  <2>2. tail \in Seq(AdTokens)
    BY <1>6 DEF AdTexts
  <2> HIDE DEF front
  <2>3. front \o tail \in Seq(AdTokens) /\ Len(front \o tail) = Len(front) + Len(tail)
    BY <2>1, <2>2, ConcatProperties
  <2>4. (head \o replace) \o tail = front \o tail
    BY DEF front
  <2> QED
    BY <1>6, <2>1, <2>3, <2>4 DEF AdTexts
<1>9. i \in Int /\ Len(text) \in Int /\ Len(search) \in Int /\ Len(replace) \in Int
  BY <1>2, <1>3
<1>10. ((i - 1) + Len(replace)) + (Len(text) - (i + Len(search)) + 1)
          = Len(text) + (Len(replace) - Len(search))
  BY <1>9
<1> QED
  BY <1>4, <1>8, <1>10

LEMMA AdStarts == AdInit => AdInv
<1> SUFFICES ASSUME AdInit PROVE AdInv
  OBVIOUS
<1>1. adNow = Nothing /\ adBefore = Nothing /\ adBase = Nothing /\ adBlocks = <<>> /\ adAt = 1
  BY DEF AdInit
<1>2. AdTyped
  BY <1>1, AdNoBlocks, AdTextsHold DEF AdInit, AdTyped
<1>3. \A p \in Paths : adNow[p] = NoText /\ adBefore[p] = NoText
  BY <1>1 DEF Nothing
<1> QED
  BY <1>1, <1>2, <1>3 DEF AdInit, AdInv

\* The originals: a text for each file that a block names.
LEMMA AdLoads ==
    ASSUME AdTyped, NEW blocks \in BoundedSeq(AdBlock, MaxBlocks)
    PROVE  /\ Originals(blocks) \in [Paths -> AdOriginals]
           /\ \A p \in Paths : AdNamed(blocks, p) => Originals(blocks)[p] \in AdTexts
<1>1. \A p \in Paths : \A fresh : OriginalOf(p, fresh) \in AdOriginals /\ OriginalOf(p, fresh) # NoText
  BY AdTextsHold DEF OriginalOf, AdTyped, AdOriginals
<1>2. \A p \in Paths : Originals(blocks)[p]
          = IF AdNamed(blocks, p) THEN OriginalOf(p, blocks[FirstOf(p, blocks)].fresh) ELSE NoText
  BY DEF Originals, AdNamed
<1>3. Originals(blocks) \in [Paths -> AdOriginals]
  BY <1>1, <1>2 DEF Originals, AdOriginals, AdNamed
<1> QED
  BY <1>1, <1>2, <1>3, AdTextsHold

\* The blocks so far, none.
LEMMA AdNoneGrown ==
    ASSUME NEW blocks \in BoundedSeq(AdBlock, MaxBlocks), NEW p \in Paths
    PROVE  /\ AdGrowths(blocks, p) \in [1..Len(blocks) -> Int]
           /\ AdGrown(blocks, p, 0) = 0
           /\ \A n \in 0..Len(blocks) : AdGrown(blocks, p, n) \in Int
           /\ \A n \in 1..Len(blocks) :
                  AdGrown(blocks, p, n) = AdGrowths(blocks, p)[n] + AdGrown(blocks, p, n - 1)
           /\ FoldSeq(+, 0, AdGrowths(blocks, p)) = AdGrown(blocks, p, Len(blocks))
<1>0. Len(blocks) \in Nat /\ DOMAIN blocks = 1..Len(blocks)
      /\ \A i \in 1..Len(blocks) : blocks[i] \in AdBlock
  BY AdBounded
<1>1. \A i \in 1..Len(blocks) : Len(blocks[i].replace) - Len(blocks[i].search) \in Int
  BY <1>0, AdBlockParts DEF AdTexts
<1>2. AdGrowths(blocks, p) \in [1..Len(blocks) -> Int]
  BY <1>0, <1>1 DEF AdGrowths
<1> DEFINE g == AdGrowths(blocks, p)
           S == 1..Len(blocks)
<1> HIDE DEF g, S
<1>3. IsFiniteSet(S) /\ g \in [S -> Int]
  BY <1>0, <1>2, FS_Interval DEF S, g
<1>4. PartSum(g, {}) = 0
  BY <1>3, PartSums
<1>5. \A s \in SUBSET S : PartSum(g, s) \in Int
  BY <1>3, PartSums
<1>6. FoldSeq(+, 0, g) = PartSum(g, S)
  BY <1>3, PartSums
<1>7. \A n \in 0..Len(blocks) : 1..n \in SUBSET S
  BY <1>0 DEF S
<1>8. ASSUME NEW n \in 1..Len(blocks)
      PROVE  PartSum(g, 1..n) = g[n] + PartSum(g, 1..(n - 1))
  <2> DEFINE low == 1..(n - 1)
  <2>1. low \subseteq S /\ n \in S /\ n \notin low
    BY <1>0 DEF S
  <2>2. PartSum(g, low \cup {n}) = g[n] + PartSum(g, low)
    <3> HIDE DEF low
    <3>1. ASSUME NEW s, s \subseteq S, NEW y \in S, y \notin s
          PROVE  PartSum(g, s \cup {y}) = g[y] + PartSum(g, s)
      BY <1>3, <3>1, PartSumAdds
    <3> QED
      BY <2>1, <3>1
  <2>3. low \cup {n} = 1..n
    BY <1>0
  <2> QED
    BY <2>2, <2>3
<1>9. 1..0 = {}
  OBVIOUS
<1> QED
  BY <1>2, <1>4, <1>5, <1>6, <1>7, <1>8, <1>9 DEF AdGrown, g, S

\* What a block makes of the text it finds.
LEMMA AdBecomes ==
    ASSUME AdInv, ApplyBlock, NEW b, b = adBlocks[adAt], NEW text, text = Entered(b)
    PROVE  /\ b \in AdBlock /\ adAt \in 1..Len(adBlocks) /\ Len(adBlocks) <= MaxBlocks
           /\ text \in AdTexts /\ adBase[b.file] \in AdTexts
           /\ \E t \in AdTexts :
                 /\ adNow' = [adNow EXCEPT ![b.file] = t]
                 /\ adBefore' = IF adNow[b.file] = NoText THEN [adBefore EXCEPT ![b.file] = text]
                                ELSE adBefore
                 /\ \/ /\ adErrors' = adErrors
                       /\ ~b.fresh => Len(t) = Len(text) + (Len(b.replace) - Len(b.search))
                    \/ adErrors' = adErrors \union {adAt}
<1>0. /\ AdTyped /\ adPhase = "apply" /\ adAt <= Len(adBlocks) /\ adAt \in 1..Len(adBlocks) + 1
      /\ adBase = Originals(adBlocks) /\ adBlocks \in BoundedSeq(AdBlock, MaxBlocks)
  BY DEF AdInv, AdTyped, ApplyBlock
<1>1. adAt \in 1..Len(adBlocks) /\ b \in AdBlock /\ Len(adBlocks) <= MaxBlocks
      /\ DOMAIN adBlocks = 1..Len(adBlocks)
  BY <1>0, AdBounded
<1>2. b.file \in Paths /\ b.search \in AdTexts /\ b.replace \in AdTexts
  BY <1>1, AdBlockParts
<1>3. adBase[b.file] \in AdTexts
  BY <1>0, <1>1, <1>2, AdLoads DEF AdNamed
<1>4. text \in AdTexts
  BY <1>0, <1>2, <1>3 DEF Entered, AdTyped
<1> DEFINE Before == IF adNow[b.file] = NoText THEN [adBefore EXCEPT ![b.file] = text] ELSE adBefore
           Becomes(t) == adNow' = [adNow EXCEPT ![b.file] = t] /\ adBefore' = Before
<1>5. \/ /\ b.search = <<>>
         /\ Becomes(IF b.fresh THEN b.replace ELSE text \o b.replace)
         /\ UNCHANGED adErrors
      \/ /\ b.search # <<>> /\ OccursOnce(b.search, text)
         /\ Becomes(ReplacedOnce(text, b.search, b.replace))
         /\ UNCHANGED adErrors
      \/ /\ b.search # <<>> /\ ~OccursOnce(b.search, text)
         /\ Becomes(text)
         /\ adErrors' = adErrors \union {adAt}
  BY DEF ApplyBlock
<1> HIDE DEF Becomes
<1> SUFFICES \E t \in AdTexts :
                 /\ Becomes(t)
                 /\ \/ /\ adErrors' = adErrors
                       /\ ~b.fresh => Len(t) = Len(text) + (Len(b.replace) - Len(b.search))
                    \/ adErrors' = adErrors \union {adAt}
  BY <1>1, <1>3, <1>4 DEF Becomes
<1>6. CASE b.search = <<>> /\ Becomes(IF b.fresh THEN b.replace ELSE text \o b.replace)
           /\ UNCHANGED adErrors
  <2>1. CASE b.fresh
    BY <1>2, <1>6, <2>1
  <2>2. CASE ~b.fresh
    <3>1. text \o b.replace \in AdTexts /\ Len(text \o b.replace) = Len(text) + Len(b.replace)
      BY <1>2, <1>4, ConcatProperties DEF AdTexts
    <3>2. Len(b.search) = 0 /\ Len(b.replace) \in Nat
      BY <1>2, <1>6 DEF AdTexts
    <3>3. Becomes(text \o b.replace)
      BY <1>6, <2>2
    <3>4. Len(text) \in Nat
      BY <1>4 DEF AdTexts
    <3>5. Len(text \o b.replace) = Len(text) + (Len(b.replace) - Len(b.search))
      BY <3>1, <3>2, <3>4
    <3> QED
      BY <1>6, <3>1, <3>3, <3>5
  <2> QED
    BY <2>1, <2>2
<1>7. CASE OccursOnce(b.search, text) /\ Becomes(ReplacedOnce(text, b.search, b.replace))
           /\ UNCHANGED adErrors
  <2>1. /\ ReplacedOnce(text, b.search, b.replace) \in AdTexts
        /\ Len(ReplacedOnce(text, b.search, b.replace))
              = Len(text) + (Len(b.replace) - Len(b.search))
    BY <1>2, <1>4, <1>7, AdReplaces
  <2> QED
    BY <1>7, <2>1
<1>8. CASE Becomes(text) /\ adErrors' = adErrors \union {adAt}
  BY <1>4, <1>8
<1> QED
  BY <1>5, <1>6, <1>7, <1>8

LEMMA AdApplies == AdInv /\ ApplyBlock => AdInv'
<1> SUFFICES ASSUME AdInv, ApplyBlock PROVE AdInv'
  OBVIOUS
<1> DEFINE b == adBlocks[adAt]
           text == Entered(b)
<1>0. /\ AdTyped /\ adPhase = "apply" /\ adPhase' = "apply" /\ adAt' = adAt + 1
      /\ UNCHANGED <<adDisk, adView, adTry, adBlocks, adBase>>
      /\ adBlocks \in BoundedSeq(AdBlock, MaxBlocks) /\ adBase = Originals(adBlocks)
      /\ adNow \in [Paths -> AdTexts \union {NoText}] /\ adBefore \in [Paths -> AdOriginals]
      /\ adBase \in [Paths -> AdOriginals] /\ adErrors \subseteq 1..MaxBlocks
  BY DEF AdInv, AdTyped, ApplyBlock
<1>1. /\ b \in AdBlock /\ adAt \in 1..Len(adBlocks) /\ Len(adBlocks) <= MaxBlocks
      /\ text \in AdTexts /\ adBase[b.file] \in AdTexts
  BY AdBecomes
<1>2. PICK t \in AdTexts :
          /\ adNow' = [adNow EXCEPT ![b.file] = t]
          /\ adBefore' = IF adNow[b.file] = NoText THEN [adBefore EXCEPT ![b.file] = text]
                         ELSE adBefore
          /\ \/ /\ adErrors' = adErrors
                /\ ~b.fresh => Len(t) = Len(text) + (Len(b.replace) - Len(b.search))
             \/ adErrors' = adErrors \union {adAt}
  BY AdBecomes
<1>3. b.file \in Paths /\ Len(adBlocks) \in Nat /\ MaxBlocks \in Nat
      /\ DOMAIN adBlocks = 1..Len(adBlocks) /\ text = AdFound(adNow, adBase, b.file)
  BY <1>0, <1>1, AdBlockParts, AdBounded, AiderAssumption DEF AdFound, Entered
<1>b. text = adBase[b.file] \/ adNow[b.file] # NoText
  BY DEF Entered
<1> HIDE DEF b, text
<1>4. /\ adNow' \in [Paths -> AdTexts \union {NoText}] /\ adNow'[b.file] = t
      /\ \A p \in Paths \ {b.file} : adNow'[p] = adNow[p]
  BY <1>0, <1>2, <1>3
<1>5. /\ adBefore' \in [Paths -> AdOriginals]
      /\ \A p \in Paths \ {b.file} : adBefore'[p] = adBefore[p]
      /\ adBefore'[b.file] = adBase[b.file]
  <2>1. CASE adNow[b.file] = NoText
    <3>1. text \in AdOriginals /\ text = adBase[b.file]
      BY <1>0, <1>b, <1>3, <2>1
    <3> QED
      BY <1>0, <1>2, <1>3, <2>1, <3>1
  <2>2. CASE adNow[b.file] # NoText
    BY <1>0, <1>2, <1>3, <2>2 DEF AdInv
  <2> QED
    BY <2>1, <2>2
<1>6. t # NoText /\ adBase[b.file] # NoText
  BY <1>1, <1>2, AdTextsHold
<1>7. \A p \in Paths : (adNow'[p] = NoText) = (adBefore'[p] = NoText)
  BY <1>4, <1>5, <1>6 DEF AdInv
<1>8. \A p \in Paths : adNow'[p] # NoText => adBefore'[p] = adBase'[p]
  BY <1>0, <1>4, <1>5 DEF AdInv
<1>9. adAt' \in 1..Len(adBlocks') + 1 /\ adErrors' \subseteq 1..MaxBlocks
  <2>1. adAt' \in 1..Len(adBlocks') + 1
    BY <1>0, <1>1, <1>3
  <2>2. adAt \in 1..MaxBlocks
    BY <1>1, <1>3
  <2> QED
    BY <1>0, <1>2, <2>1, <2>2
<1>10. AdTyped'
  BY <1>0, <1>4, <1>5, <1>9 DEF AdTyped
<1>11. adBase' = Originals(adBlocks')
  BY <1>0
<1>12. adBase' = Originals(adBlocks)'
  BY <1>0 DEF Originals, OriginalOf, FirstOf
<1>13. ASSUME adErrors' = {} PROVE AdAddsUp(adBlocks, adNow', adBase, adAt')
  <2>1. adErrors' = adErrors /\ (~b.fresh => Len(t) = Len(text) + (Len(b.replace) - Len(b.search)))
    BY <1>2, <1>13
  <2>2. AdAddsUp(adBlocks, adNow, adBase, adAt)
    BY <1>0, <1>13, <2>1 DEF AdInv
  <2> SUFFICES ASSUME NEW p \in Paths, AdNamed(adBlocks, p), ~AdMade(adBlocks, p)
               PROVE  Len(AdFound(adNow', adBase, p)) = Len(adBase[p]) + AdGrown(adBlocks, p, adAt)
    BY <1>0, <1>1 DEF AdAddsUp
  <2>3. Len(AdFound(adNow, adBase, p)) = Len(adBase[p]) + AdGrown(adBlocks, p, adAt - 1)
    BY <2>2 DEF AdAddsUp
  <2>4. AdGrown(adBlocks, p, adAt) = AdGrowths(adBlocks, p)[adAt] + AdGrown(adBlocks, p, adAt - 1)
    BY <1>0, <1>1, AdNoneGrown
  <2>5. AdGrowths(adBlocks, p)[adAt]
            = IF b.file = p THEN Len(b.replace) - Len(b.search) ELSE 0
    BY <1>1, <1>3 DEF AdGrowths, b
  <2>6. AdGrown(adBlocks, p, adAt - 1) \in Int
    <3>1. adAt - 1 \in 0..Len(adBlocks)
      BY <1>1, <1>3
    <3> QED
      BY <1>0, <3>1, AdNoneGrown
  <2>7. adBase[p] \in AdTexts /\ Len(adBase[p]) \in Nat
    <3>1. adBase[p] \in AdTexts
      BY <1>0, AdLoads
    <3> QED
      BY <3>1 DEF AdTexts
  <2>8. CASE b.file = p
    <3>1. ~b.fresh
      BY <1>1, <1>3, <2>8 DEF AdMade, b
    <3>2. AdFound(adNow', adBase, p) = t
      BY <1>4, <1>6, <2>8 DEF AdFound
    <3>3. Len(b.replace) \in Nat /\ Len(b.search) \in Nat /\ Len(text) \in Nat
      BY <1>1, AdBlockParts DEF AdTexts
    <3>4. text = AdFound(adNow, adBase, p)
      BY <1>3, <2>8
    <3>5. Len(t) = (Len(adBase[p]) + AdGrown(adBlocks, p, adAt - 1)) + (Len(b.replace) - Len(b.search))
      BY <2>1, <2>3, <3>1, <3>4
    <3>6. AdGrown(adBlocks, p, adAt) = (Len(b.replace) - Len(b.search)) + AdGrown(adBlocks, p, adAt - 1)
      BY <2>4, <2>5, <2>8
    <3>7. Len(t) = Len(adBase[p]) + AdGrown(adBlocks, p, adAt)
      <4> DEFINE was == Len(adBase[p])
                 grown == AdGrown(adBlocks, p, adAt - 1)
                 in == Len(b.replace)
                 out == Len(b.search)
      <4>1. was \in Int /\ grown \in Int /\ in \in Int /\ out \in Int
        BY <2>6, <2>7, <3>3
      <4>2. Len(t) = (was + grown) + (in - out) /\ AdGrown(adBlocks, p, adAt) = (in - out) + grown
        BY <3>5, <3>6
      <4>3. Len(t) = was + AdGrown(adBlocks, p, adAt)
        <5> HIDE DEF was, grown, in, out
        <5> QED
          BY <4>1, <4>2
      <4> QED
        BY <4>3
    <3> QED
      BY <3>2, <3>7
  <2>9. CASE b.file # p
    <3>1. AdFound(adNow', adBase, p) = AdFound(adNow, adBase, p)
      BY <1>4, <2>9 DEF AdFound
    <3> QED
      BY <2>3, <2>4, <2>5, <2>6, <2>9, <3>1
  <2> QED
    BY <2>8, <2>9
<1>14. adErrors' = {} => AdAddsUp(adBlocks, adNow, adBase, adAt)'
  <2>1. AdAddsUp(adBlocks, adNow', adBase, adAt')
          => AdAddsUp(adBlocks, adNow, adBase, adAt)'
    BY <1>0 DEF AdAddsUp
  <2> QED
    BY <1>13, <2>1
<1> QED
  BY <1>0, <1>7, <1>8, <1>10, <1>12, <1>14 DEF AdInv

\* An answer that is not taken.
LEMMA AdRefuses ==
    ASSUME AdInv, Refused, UNCHANGED <<adDisk, adView>>
    PROVE  AdInv'
<1>1. /\ adBlocks' = <<>> /\ adBase' = Nothing /\ adAt' = 1 /\ adNow' = Nothing
      /\ adBefore' = Nothing /\ adErrors' = {} /\ adTry' \in 1..2 /\ adPhase' \in {"ask", "raised"}
  BY DEF Refused, AdInv, AdTyped
<1>2. AdTyped'
  BY <1>1, AdNoBlocks, AdTextsHold DEF AdTyped, AdInv
<1>3. \A p \in Paths : adNow'[p] = NoText /\ adBefore'[p] = NoText
  BY <1>1 DEF Nothing
<1> QED
  BY <1>1, <1>2, <1>3 DEF AdInv, Nothing

LEMMA AdAnswers ==
    ASSUME AdInv, NEW blocks \in BoundedSeq(AdBlock, MaxBlocks), Answer(blocks)
    PROVE  AdInv'
<1>1. /\ adPhase = "ask" /\ adBlocks' = blocks /\ adBase' = Originals(blocks) /\ adPhase' = "load"
      /\ UNCHANGED <<adDisk, adView, adTry, adAt, adNow, adBefore, adErrors>>
      /\ adAt = 1 /\ adNow = Nothing /\ adBefore = Nothing /\ adErrors = {} /\ AdTyped
  BY DEF Answer, AdInv
<1>2. Originals(blocks) \in [Paths -> AdOriginals] /\ Len(blocks) \in Nat
  BY <1>1, AdLoads, AdBounded
<1>3. AdTyped'
  BY <1>1, <1>2 DEF AdTyped
<1>4. adBase' = Originals(adBlocks)'
  BY <1>1 DEF Originals, OriginalOf, FirstOf
<1>5. \A p \in Paths : adNow'[p] = NoText /\ adBefore'[p] = NoText
  BY <1>1 DEF Nothing
<1> QED
  BY <1>1, <1>3, <1>4, <1>5 DEF AdInv, Nothing

LEMMA AdStarted == AdInv /\ AdLoaded => AdInv'
<1> SUFFICES ASSUME AdInv, AdLoaded PROVE AdInv'
  OBVIOUS
<1>1. /\ AdTyped /\ adPhase = "load" /\ adPhase' \in {"gap", "apply"}
      /\ UNCHANGED <<adDisk, adView, adTry, adBlocks, adBase, adAt, adNow, adBefore, adErrors>>
      /\ adAt = 1 /\ adNow = Nothing /\ adBase = Originals(adBlocks)
      /\ adBlocks \in BoundedSeq(AdBlock, MaxBlocks)
  BY DEF AdLoaded, AdInv, AdTyped
<1>2. AdTyped'
  BY <1>1 DEF AdTyped
<1>3. adBase' = Originals(adBlocks)'
  BY <1>1 DEF Originals, OriginalOf, FirstOf
<1>4. AdAddsUp(adBlocks, adNow, adBase, adAt)
  <2> SUFFICES ASSUME NEW p \in Paths, AdNamed(adBlocks, p)
               PROVE  Len(AdFound(adNow, adBase, p)) = Len(adBase[p]) + AdGrown(adBlocks, p, adAt - 1)
    BY DEF AdAddsUp
  <2>1. AdFound(adNow, adBase, p) = adBase[p]
    BY <1>1 DEF AdFound, Nothing
  <2>2. AdGrown(adBlocks, p, 0) = 0
    BY <1>1, AdNoneGrown
  <2>4. adAt - 1 = 0
    BY <1>1
  <2>3. Len(adBase[p]) \in Nat
    <3>1. adBase[p] \in AdTexts
      BY <1>1, AdLoads
    <3> QED
      BY <3>1 DEF AdTexts
  <2> QED
    BY <2>1, <2>2, <2>3, <2>4
<1>5. AdAddsUp(adBlocks, adNow, adBase, adAt)'
  BY <1>1, <1>4 DEF AdAddsUp
<1> QED
  BY <1>1, <1>2, <1>3, <1>5 DEF AdInv

\* The answer is given up, or becomes a diff.
LEMMA AdGoesOn ==
    ASSUME AdInv, adPhase' = adPhase \/ adPhase' \in {"gap", "raised"} \/
                  (adPhase = "apply" /\ adPhase' = "diff" /\ adErrors = {} /\ adAt = Len(adBlocks) + 1),
           UNCHANGED <<adDisk, adView, adTry, adBlocks, adBase, adAt, adNow, adBefore, adErrors>>
    PROVE  AdInv'
<1>1. AdTyped'
  BY DEF AdInv, AdTyped
<1>2. adBase = Originals(adBlocks) => adBase' = Originals(adBlocks)'
  BY DEF Originals, OriginalOf, FirstOf
<1>3. AdAddsUp(adBlocks, adNow, adBase, adAt) => AdAddsUp(adBlocks, adNow, adBase, adAt)'
  BY DEF AdAddsUp
<1> QED
  BY <1>1, <1>2, <1>3 DEF AdInv

LEMMA AdKeeps == AdInv /\ [AdNext]_adVars => AdInv'
<1> SUFFICES ASSUME AdInv, [AdNext]_adVars PROVE AdInv'
  OBVIOUS
<1>1. CASE \E asks \in BOOLEAN : Marked(asks)
  BY <1>1, AdGoesOn DEF Marked
<1>2. CASE \E blocks \in BoundedSeq(AdBlock, MaxBlocks) : Answer(blocks)
  BY <1>2, AdAnswers
<1>3. CASE Unparsable
  BY <1>3, AdRefuses DEF Unparsable
<1>4. CASE Finish
  <2>1. CASE adErrors # {} \/ Touched = {}
    BY <1>4, <2>1, AdRefuses DEF Finish
  <2>2. CASE ~(adErrors # {} \/ Touched = {})
    BY <1>4, <2>2, AdGoesOn DEF Finish
  <2> QED
    BY <2>1, <2>2
<1>5. CASE UNCHANGED adVars
  BY <1>5, AdGoesOn DEF adVars
<1> QED
  BY <1>1, <1>2, <1>3, <1>4, <1>5, AdStarted, AdApplies DEF AdNext

LEMMA AdHolds == AdInv => AdTypeOK /\ AppliesToOriginal /\ EditsAddUp
<1> SUFFICES ASSUME AdInv PROVE AdTypeOK /\ AppliesToOriginal /\ EditsAddUp
  OBVIOUS
<1>0. /\ AdTyped /\ adBlocks \in BoundedSeq(AdBlock, MaxBlocks)
      /\ Len(adBlocks) \in Nat /\ Len(adBlocks) <= MaxBlocks /\ MaxBlocks \in Nat
      /\ DOMAIN adBlocks = 1..Len(adBlocks)
  BY AdBounded, AiderAssumption DEF AdInv, AdTyped
<1>1. AdTypeOK
  <2>1. adAt \in 1..MaxBlocks + 1
    BY <1>0 DEF AdTyped
  <2>2. \A p \in Paths : adBefore[p] \in Texts \union {NoText, <<>>}
    BY <1>0 DEF AdTyped, AdOriginals
  <2> QED
    BY <1>0, <2>1, <2>2 DEF AdInv, AdTyped, AdTypeOK, AdOriginals
<1>2. AppliesToOriginal
  <2> SUFFICES ASSUME adPhase = "diff", NEW p \in Touched, adDisk[p] # NoText,
                      ~adBlocks[FirstOf(p, adBlocks)].fresh
               PROVE  adBefore[p] = adDisk[p]
    BY DEF AppliesToOriginal
  <2>1. p \in Paths /\ adNow[p] # NoText /\ adBefore[p] = adBase[p] /\ adBefore[p] # NoText
        /\ adBase = Originals(adBlocks)
    BY DEF Touched, AdInv
  <2>2. adBase[p] = OriginalOf(p, adBlocks[FirstOf(p, adBlocks)].fresh)
    BY <2>1 DEF Originals
  <2> QED
    BY <2>1, <2>2 DEF OriginalOf
<1>3. EditsAddUp
  <2> SUFFICES ASSUME adPhase = "diff", NEW p \in Touched,
                      \A i \in DOMAIN adBlocks : adBlocks[i].file = p => ~adBlocks[i].fresh
               PROVE  Len(adNow[p]) = Len(adBefore[p])
                                      + FoldSeq(+, 0, [i \in DOMAIN adBlocks |-> Growth(i, p)])
    BY DEF EditsAddUp
  <2>1. p \in Paths /\ adNow[p] # NoText /\ adBefore[p] = adBase[p] /\ adBefore[p] # NoText
        /\ adBase = Originals(adBlocks) /\ adErrors = {} /\ adAt = Len(adBlocks) + 1
        /\ AdAddsUp(adBlocks, adNow, adBase, adAt)
    BY DEF Touched, AdInv
  <2>2. AdNamed(adBlocks, p) /\ ~AdMade(adBlocks, p)
    BY <2>1 DEF Originals, AdNamed, AdMade
  <2>3. AdFound(adNow, adBase, p) = adNow[p] /\ adAt - 1 = Len(adBlocks)
    BY <1>0, <2>1 DEF AdFound
  <2>4. Len(adNow[p]) = Len(adBase[p]) + AdGrown(adBlocks, p, Len(adBlocks))
    BY <2>1, <2>2, <2>3 DEF AdAddsUp
  <2>5. AdGrowths(adBlocks, p) = [i \in DOMAIN adBlocks |-> Growth(i, p)]
    BY DEF AdGrowths, Growth
  <2>6. FoldSeq(+, 0, AdGrowths(adBlocks, p)) = AdGrown(adBlocks, p, Len(adBlocks))
    BY <1>0, <2>1, AdNoneGrown
  <2> QED
    BY <2>1, <2>4, <2>5, <2>6
<1> QED
  BY <1>1, <1>2, <1>3

LEMMA AdAlways == AdInit /\ [][AdNext]_adVars => [](AdTypeOK /\ AppliesToOriginal /\ EditsAddUp)
BY AdStarts, AdKeeps, AdHolds, PTL

-----------------------------------------------------------------------------
(* The agent loop (AgentLoop).                                                                    *)

AgRoles == {"user", "assistant"}

AgTyped ==
    /\ agCaller \in {"test", "codegen"}
    /\ agPhase \in {"turn", "after", "ended"}
    /\ agTurn \in 0..MaxTurns
    /\ agUsed \in [LoopTools -> Nat]
    /\ agMessages \in Seq(AgRoles)
    /\ agReason \in Reasons /\ agDiff \subseteq Loaded /\ agOutcome \in Outcomes

\* The roles of the messages alternate.
AgAlternating(messages) ==
    \A i \in 1..Len(messages) : messages[i] = (IF i % 2 = 1 THEN "user" ELSE "assistant")

\* While it is a turn of the model, two messages have been added for each turn before, and a tool has
\* run at most once in each.
AgInv ==
    /\ AgTyped
    /\ AgAlternating(agMessages)
    /\ Len(agMessages) <= 2 * MaxTurns + 1
    /\ \A t \in LoopTools : agUsed[t] <= MaxTurns /\ agUsed[t] <= Quota[t]
    /\ agPhase = "turn" =>
         /\ Len(agMessages) = 2 * agTurn + 1 /\ agReason = "none"
         /\ \A t \in LoopTools : agUsed[t] <= agTurn
    /\ agReason = "diff_emitted" => agUsed["apply_diff"] >= 1

LEMMA AgStarts == AgInit => AgInv
<1> SUFFICES ASSUME AgInit PROVE AgInv
  OBVIOUS
<1>1. agMessages = <<"user">> /\ agMessages \in Seq(AgRoles) /\ Len(agMessages) = 1
      /\ agMessages[1] = "user"
  BY DEF AgInit, AgRoles
<1>2. AgAlternating(agMessages)
  BY <1>1 DEF AgAlternating
<1>3. agUsed \in [LoopTools -> Nat] /\ \A t \in LoopTools : agUsed[t] = 0
  BY DEF AgInit
<1> QED
  BY <1>1, <1>2, <1>3, LoopAssumption DEF AgInit, AgInv, AgTyped, Reasons, Outcomes

\* The answer of the model is the next message.
LEMMA AgAnswered ==
    ASSUME NEW s \in Seq(AgRoles), AgAlternating(s), NEW n \in Nat, Len(s) = 2 * n + 1,
           NEW r, r = Append(s, "assistant")
    PROVE  r \in Seq(AgRoles) /\ AgAlternating(r) /\ Len(r) = 2 * n + 2
<1>1. r \in Seq(AgRoles) /\ Len(r) = 2 * n + 2
  BY DEF AgRoles
<1>2. \A i \in 1..Len(s) : r[i] = s[i]
  OBVIOUS
<1>3. r[2 * n + 2] = "assistant"
  OBVIOUS
<1>4. (2 * n + 2) % 2 = 0
  OBVIOUS
<1> QED
  BY <1>1, <1>2, <1>3, <1>4 DEF AgAlternating

\* A reply of the harness follows it.
LEMMA AgReplied ==
    ASSUME NEW s \in Seq(AgRoles), AgAlternating(s), NEW n \in Nat, Len(s) = 2 * n + 1,
           NEW r, r = s \o <<"assistant", "user">>
    PROVE  r \in Seq(AgRoles) /\ AgAlternating(r) /\ Len(r) = 2 * n + 3
<1> DEFINE reply == <<"assistant", "user">>
<1>0. /\ reply \in Seq(AgRoles) /\ Len(reply) = 2
      /\ reply[1] = "assistant" /\ reply[2] = "user"
  BY DEF AgRoles
<1>a. r = s \o reply
  OBVIOUS
<1> HIDE DEF reply
<1>1. r \in Seq(AgRoles) /\ Len(r) = 2 * n + 3
  BY <1>0, <1>a
<1>2. \A i \in 1..Len(s) : r[i] = s[i]
  BY <1>0, <1>a
<1>3. r[2 * n + 2] = "assistant" /\ r[2 * n + 3] = "user"
  BY <1>0, <1>a
<1>4. (2 * n + 2) % 2 = 0 /\ (2 * n + 3) % 2 = 1
  OBVIOUS
<1>5. \A i \in 1..Len(r) : i \in 1..Len(s) \/ i = 2 * n + 2 \/ i = 2 * n + 3
  BY <1>1
<1> QED
  BY <1>1, <1>2, <1>3, <1>4, <1>5 DEF AgAlternating

\* The next turn, whether or not a tool has run in this one.
LEMMA AgTurns ==
    ASSUME AgInv, Asking, NextTurn, agUsed' \in [LoopTools -> Nat],
           \A t \in LoopTools : agUsed'[t] \in {agUsed[t], agUsed[t] + 1} /\ agUsed'[t] <= Quota[t]
    PROVE  AgInv'
<1>0. /\ AgTyped /\ agPhase = "turn" /\ agTurn \in Nat /\ agTurn < MaxTurns /\ MaxTurns \in Nat
      /\ Len(agMessages) = 2 * agTurn + 1 /\ agReason = "none"
      /\ agMessages \in Seq(AgRoles) /\ AgAlternating(agMessages)
      /\ \A t \in LoopTools : agUsed[t] <= agTurn /\ agUsed[t] \in Nat
  BY LoopAssumption DEF AgInv, AgTyped, Asking
<1>1. /\ agMessages' \in Seq(AgRoles) /\ AgAlternating(agMessages')
      /\ Len(agMessages') = 2 * agTurn + 3
  BY <1>0, AgReplied DEF NextTurn
<1>2. /\ agTurn' = agTurn + 1 /\ agPhase' = "turn" /\ agReason' = "none"
      /\ UNCHANGED <<agCaller, agDiff, agOutcome>>
  BY <1>0 DEF NextTurn
<1>3. \A t \in LoopTools : agUsed'[t] <= agTurn'
  BY <1>0, <1>2
<1>4. AgTyped'
  BY <1>0, <1>1, <1>2 DEF AgTyped
<1>5. AgAlternating(agMessages)'
  BY <1>1 DEF AgAlternating
<1>6. \A t \in LoopTools : agUsed'[t] <= MaxTurns
  BY <1>0, <1>2, <1>3
<1> QED
  BY <1>0, <1>1, <1>2, <1>3, <1>4, <1>5, <1>6 DEF AgInv

\* A tool that runs stays within its quota.
LEMMA AgRuns ==
    ASSUME AgInv, NEW t \in LoopTools, Runs(t)
    PROVE  /\ agUsed' \in [LoopTools -> Nat]
           /\ \A u \in LoopTools : agUsed'[u] \in {agUsed[u], agUsed[u] + 1} /\ agUsed'[u] <= Quota[u]
           /\ agUsed'[t] >= 1
<1>0. agUsed \in [LoopTools -> Nat] /\ Quota \in [LoopTools -> Nat] /\ agUsed[t] < Quota[t]
      /\ \A u \in LoopTools : agUsed[u] <= Quota[u]
  BY LoopAssumption DEF AgInv, AgTyped, Runs
<1>1. agUsed' = [agUsed EXCEPT ![t] = agUsed[t] + 1]
  BY DEF Runs
<1>2. agUsed'[t] = agUsed[t] + 1 /\ \A u \in LoopTools \ {t} : agUsed'[u] = agUsed[u]
  BY <1>0, <1>1
<1>3. agUsed' \in [LoopTools -> Nat]
  BY <1>0, <1>1
<1>4. agUsed[t] \in Nat /\ Quota[t] \in Nat
  BY <1>0
<1> QED
  BY <1>0, <1>2, <1>3, <1>4

\* The end of the loop with a last message of the model, or without one.
LEMMA AgEnds ==
    ASSUME AgInv, Asking, NEW reason \in Reasons, EndWith(reason),
           UNCHANGED <<agCaller, agTurn, agOutcome>>,
           agMessages' = agMessages \/ agMessages' = Append(agMessages, "assistant"),
           \/ UNCHANGED <<agUsed, agDiff>> /\ reason # "diff_emitted"
           \/ Runs("apply_diff") /\ agDiff' \subseteq Loaded
    PROVE  AgInv'
<1>0. /\ AgTyped /\ agPhase = "turn" /\ agTurn \in Nat /\ agTurn < MaxTurns /\ MaxTurns \in Nat
      /\ Len(agMessages) = 2 * agTurn + 1
      /\ agMessages \in Seq(AgRoles) /\ AgAlternating(agMessages)
      /\ \A t \in LoopTools : agUsed[t] <= agTurn /\ agUsed[t] \in Nat
  BY LoopAssumption DEF AgInv, AgTyped, Asking
<1>1. /\ agMessages' \in Seq(AgRoles) /\ AgAlternating(agMessages')
      /\ Len(agMessages') <= 2 * agTurn + 2
  <2>1. CASE agMessages' = agMessages
    BY <1>0, <2>1
  <2>2. CASE agMessages' = Append(agMessages, "assistant")
    <3>1. /\ agMessages' \in Seq(AgRoles) /\ AgAlternating(agMessages')
          /\ Len(agMessages') = 2 * agTurn + 2
      BY <1>0, <2>2, AgAnswered
    <3> QED
      BY <1>0, <3>1
  <2> QED
    BY <2>1, <2>2
<1>2. AgAlternating(agMessages)'
  BY <1>1 DEF AgAlternating
<1>3. Len(agMessages') <= 2 * MaxTurns + 1
  BY <1>0, <1>1
<1>4. /\ agUsed' \in [LoopTools -> Nat] /\ agDiff' \subseteq Loaded
      /\ \A t \in LoopTools : agUsed'[t] \in {agUsed[t], agUsed[t] + 1} /\ agUsed'[t] <= Quota[t]
      /\ reason = "diff_emitted" => agUsed'["apply_diff"] >= 1
  <2>1. CASE UNCHANGED <<agUsed, agDiff>> /\ reason # "diff_emitted"
    BY <1>0, <2>1 DEF AgInv, AgTyped
  <2>2. CASE Runs("apply_diff") /\ agDiff' \subseteq Loaded
    BY <2>2, AgRuns DEF LoopTools
  <2> QED
    BY <2>1, <2>2
<1>5. \A t \in LoopTools : agUsed'[t] <= MaxTurns
  BY <1>0, <1>4
<1>6. agPhase' = "after" /\ agReason' = reason
  BY DEF EndWith
<1>7. AgTyped'
  BY <1>0, <1>1, <1>4, <1>6 DEF AgTyped
<1> QED
  BY <1>0, <1>2, <1>3, <1>4, <1>5, <1>6, <1>7 DEF AgInv

\* The steps that leave the messages and the tools as they are.
LEMMA AgRests ==
    ASSUME AgInv, UNCHANGED <<agCaller, agTurn, agUsed, agMessages, agDiff>>,
           agPhase' \in {"after", "ended"}, agOutcome' \in Outcomes,
           agReason' \in Reasons, agReason' = agReason \/ agReason' # "diff_emitted"
    PROVE  AgInv'
<1>1. AgTyped'
  BY DEF AgInv, AgTyped
<1>2. AgAlternating(agMessages)'
  BY DEF AgInv, AgAlternating
<1> QED
  BY <1>1, <1>2 DEF AgInv

LEMMA AgKeeps == AgInv /\ [AgNext]_agVars => AgInv'
<1> SUFFICES ASSUME AgInv, [AgNext]_agVars PROVE AgInv'
  OBVIOUS
<1>0. agReason \in Reasons /\ agOutcome \in Outcomes
      /\ {"budget_seconds", "budget_turns", "error", "done", "cannot_proceed", "diff_emitted"}
            \subseteq Reasons
      /\ {"none", "result", "CodegenError", "TypeError", "ImportError"} \subseteq Outcomes
  BY DEF AgInv, AgTyped, Reasons, Outcomes
<1>1. CASE NoModel \/ AnswersPair \/ Hand
  <2>1. UNCHANGED <<agCaller, agTurn, agUsed, agMessages, agReason, agDiff>> /\ agPhase' = "ended"
    BY <1>1 DEF NoModel, AnswersPair, Hand
  <2>2. agOutcome' \in Outcomes
    BY <1>0, <1>1 DEF NoModel, AnswersPair, Hand
  <2> QED
    BY <1>0, <2>1, <2>2, AgRests
<1>2. CASE OutOfTurns
  BY <1>0, <1>2, AgRests DEF OutOfTurns, EndWith
<1>3. CASE OutOfTime \/ CallFails
  <2>1. CASE OutOfTime
    BY <1>0, <2>1, AgEnds DEF OutOfTime
  <2>2. CASE CallFails
    BY <1>0, <2>2, AgEnds DEF CallFails
  <2> QED
    BY <1>3, <2>1, <2>2
<1>4. CASE \E r \in {"done", "cannot_proceed"} : Gives(r)
  <2> PICK r \in {"done", "cannot_proceed"} : Gives(r)
    BY <1>4
  <2> QED
    BY <1>0, AgEnds DEF Gives
<1>5. CASE \E t \in LoopTools : OverQuota(t) \/ Explores(t)
  <2> PICK t \in LoopTools : OverQuota(t) \/ Explores(t)
    BY <1>5
  <2>1. CASE OverQuota(t)
    <3>1. agUsed' \in [LoopTools -> Nat]
          /\ \A u \in LoopTools : agUsed'[u] = agUsed[u] /\ agUsed'[u] <= Quota[u]
      BY <2>1 DEF OverQuota, AgInv, AgTyped
    <3> QED
      BY <2>1, <3>1, AgTurns DEF OverQuota
  <2>2. CASE Explores(t)
    <3>1. Runs(t) /\ Asking /\ NextTurn
      BY <2>2 DEF Explores, Runs
    <3> QED
      BY <3>1, AgRuns, AgTurns
  <2> QED
    BY <2>1, <2>2
<1>6. CASE TalksOrMisnames
  <2>1. agUsed' \in [LoopTools -> Nat]
        /\ \A u \in LoopTools : agUsed'[u] = agUsed[u] /\ agUsed'[u] <= Quota[u]
    BY <1>6 DEF TalksOrMisnames, AgInv, AgTyped
  <2> QED
    BY <1>6, <2>1, AgTurns DEF TalksOrMisnames
<1>7. CASE \E files \in SUBSET Loaded : Applies(files)
  <2> PICK files \in SUBSET Loaded : Applies(files)
    BY <1>7
  <2>1. Asking /\ Runs("apply_diff")
    BY DEF Applies, Runs
  <2> QED
    BY <1>0, <2>1, AgEnds DEF Applies
<1>8. CASE UNCHANGED agVars
  <2>1. AgTyped'
    BY <1>8 DEF AgInv, AgTyped, agVars
  <2>2. AgAlternating(agMessages)'
    BY <1>8 DEF AgInv, AgAlternating, agVars
  <2> QED
    BY <1>8, <2>1, <2>2 DEF AgInv, agVars
<1> QED
  BY <1>1, <1>2, <1>3, <1>4, <1>5, <1>6, <1>7, <1>8 DEF AgNext

LEMMA AgHolds == AgInv => AgTypeOK /\ TurnsAlternate /\ QuotaHolds
<1> SUFFICES ASSUME AgInv PROVE AgTypeOK /\ TurnsAlternate /\ QuotaHolds
  OBVIOUS
<1>0. AgTyped /\ MaxTurns \in Nat /\ Quota \in [LoopTools -> Nat] /\ "apply_diff" \in LoopTools
      /\ agUsed \in [LoopTools -> Nat]
  BY LoopAssumption DEF AgInv, AgTyped, LoopTools
<1>1. \A t \in LoopTools : agUsed[t] \in 0..MaxTurns
  BY <1>0 DEF AgInv
<1>2. agUsed \in [LoopTools -> 0..MaxTurns]
  BY <1>0, <1>1
<1>3. AgTypeOK
  BY <1>0, <1>2 DEF AgInv, AgTyped, AgTypeOK, AgRoles
<1>4. DOMAIN agMessages = 1..Len(agMessages)
  BY <1>0 DEF AgTyped
<1>5. TurnsAlternate
  BY <1>0, <1>4 DEF AgInv, AgAlternating, TurnsAlternate, Asking
<1>6. agUsed["apply_diff"] \in Nat /\ agUsed["apply_diff"] <= Quota["apply_diff"]
      /\ Quota["apply_diff"] \in Nat
  BY <1>0 DEF AgInv
<1>7. QuotaHolds
  BY <1>0, <1>6 DEF AgInv, QuotaHolds
<1> QED
  BY <1>3, <1>5, <1>7

LEMMA AgAlways == AgInit /\ [][AgNext]_agVars => [](AgTypeOK /\ TurnsAlternate /\ QuotaHolds)
BY AgStarts, AgKeeps, AgHolds, PTL

-----------------------------------------------------------------------------
(* The repair of what does not compile (CompileRepair).  Unless a round was cut short, what was     *)
(* written is named already, or is touched in the round that runs; and a round runs only while      *)
(* there are rounds left.                                                                            *)

RepInRound == {"file", "call", "diff", "retry", "apply"}

RepRounds ==
    /\ repPhase \in RepInRound => repRound < MaxRepairRounds
    /\ repPhase \in RepInRound \ {"file"} => repQueue # <<>> /\ Head(repQueue) # NoName
    /\ repPhase \notin RepInRound => repTouched = {}
    /\ repSame.times = MaxSameFailure => repPhase = "stuck"

RepNamed ==
    ~repDeeds.cut => /\ repDeeds.written \subseteq repChanged \cup repTouched
                     /\ repDeeds.recent \subseteq repTouched

RepInv == RepairTypeOK /\ RepRounds /\ RepNamed /\ PassedCompiles

RepDeeds == [written : SUBSET Named, recent : SUBSET Named, cut : BOOLEAN]
RepTails == [signature : RepairTrees, times : 0..MaxSameFailure]

LEMMA RepParts ==
    ASSUME RepairTypeOK
    PROVE /\ repDeeds \in RepDeeds /\ repDeeds.written \in SUBSET Named
          /\ repDeeds.recent \in SUBSET Named /\ repDeeds.cut \in BOOLEAN
          /\ repSame \in RepTails /\ repSame.times \in 0..MaxSameFailure
          /\ repErrors \in RepairTrees /\ repTree \in RepairTrees
          /\ repQueue \in Seq(Sandboxed) /\ repRound \in 0..MaxRepairRounds
          /\ repTouched \subseteq Named /\ repChanged \subseteq Named /\ repRetried \subseteq Named
BY DEF RepairTypeOK, RepDeeds, RepTails

LEMMA RepTrees ==
    /\ NoErrors \in RepairTrees
    /\ RepairTypeOK => Repairable \in RepairTrees /\ Found \in RepairTrees
<1>1. NoErrors \in RepairTrees
  BY DEF NoErrors, RepairTrees, Said
<1>2. ASSUME RepairTypeOK PROVE Found \in RepairTrees
  <2>1. \A f \in Sandboxed : repTree[f] \in Said /\ Fine \in Said
    BY <1>2 DEF RepairTypeOK, RepairTrees, Said
  <2> QED
    BY <2>1 DEF Found, RepairTrees
<1>3. ASSUME RepairTypeOK PROVE Repairable \in RepairTrees
  <2>1. \A f \in Sandboxed : Found[f] \in Said /\ Fine \in Said
    BY <1>2, <1>3 DEF RepairTrees, Said
  <2> QED
    BY <2>1 DEF Repairable, RepairTrees
<1> QED
  BY <1>1, <1>2, <1>3

LEMMA RepStarts == RepairInit => RepInv
<1> SUFFICES ASSUME RepairInit PROVE RepInv
  OBVIOUS
<1>1. repDeeds \in RepDeeds /\ repDeeds.cut = FALSE /\ repDeeds.written = {}
      /\ repDeeds.recent = {}
  BY DEF RepairInit, RepDeeds
<1>2. repSame \in RepTails /\ repSame.times = 0
  BY RepTrees DEF RepairInit, RepTails, MaxSameFailure
<1>3. repQueue \in Seq(Sandboxed)
  BY DEF RepairInit
<1>4. RepairTypeOK
  BY <1>1, <1>2, <1>3, RepTrees, RepairAssumption
     DEF RepairInit, RepairTypeOK, RepDeeds, RepTails, Working
<1> QED
  BY <1>1, <1>2, <1>4
     DEF RepairInit, RepInv, RepRounds, RepInRound, RepNamed, PassedCompiles, MaxSameFailure

\* The gate, to a verdict.
LEMMA RepGates ==
    ASSUME RepInv, RepGatePasses \/ GateRaises \/ GateOutside \/ GateCapped
    PROVE RepInv'
<1>0. RepairTypeOK /\ RepRounds /\ RepNamed
  BY DEF RepInv
<1>1. /\ UNCHANGED <<repMode, repTree, repRound, repQueue, repAttempt, repTouched, repChanged,
                     repSame, repRetried, repDeeds>>
      /\ repPhase = "gate" /\ repPhase' \in {"passed", "failed", "errored", "approval"}
      /\ repErrors' \in RepairTrees
      /\ repPhase' = "passed" => RepGatePasses
  BY <1>0, RepTrees, RepParts
     DEF RepGatePasses, GateRaises, GateOutside, GateCapped, RepGateBlocks
<1>2. RepairTypeOK'
  BY <1>0, <1>1 DEF RepairTypeOK, RepVerdicts
<1>3. RepRounds' /\ RepNamed'
  BY <1>0, <1>1 DEF RepRounds, RepNamed, RepInRound
<1>4. PassedCompiles'
  <2> SUFFICES ASSUME RepGatePasses, ~Unchecked, ~repDeeds.cut,
                      NEW f \in repChanged \cup repDeeds.written
               PROVE repTree[f] = Fine
    BY <1>1 DEF PassedCompiles, Unchecked
  <2>1. f \in repChanged /\ f \in Sandboxed
    BY <1>0, <1>1, RepParts DEF RepNamed, RepRounds, RepInRound, Named
  <2>2. Found[f] = Fine
    BY <2>1 DEF RepGatePasses, NoErrors
  <2> QED
    BY <2>1, <2>2 DEF Found
<1> QED
  BY <1>2, <1>3, <1>4 DEF RepInv

LEMMA RepGateFails ==
    ASSUME RepInv, GateFails
    PROVE RepInv'
<1>0. RepairTypeOK /\ RepRounds /\ RepNamed
  BY DEF RepInv
<1>1. /\ UNCHANGED <<repMode, repTree, repRound, repAttempt, repChanged, repSame, repRetried,
                     repDeeds>>
      /\ repPhase = "gate" /\ repPhase' = "file" /\ repRound < MaxRepairRounds
      /\ repErrors' \in RepairTrees /\ repTouched' = {} /\ repTouched = {}
      /\ repQueue' \in Orders(Faulty(Repairable))
  BY <1>0, RepTrees DEF GateFails, RepGateBlocks, RepRounds, RepInRound
<1>2. repQueue' \in Seq(Sandboxed)
  <2>1. PICK n \in 1..FilesPerRound : repQueue' \in [1..n -> Faulty(Repairable)]
    BY <1>1 DEF Orders
  <2>2. n \in Nat /\ Faulty(Repairable) \subseteq Sandboxed
    BY RepairAssumption DEF Faulty
  <2>3. repQueue' \in [1..n -> Sandboxed]
    BY <2>1, <2>2
  <2> QED
    BY <2>2, <2>3
<1>3. RepairTypeOK'
  BY <1>0, <1>1, <1>2 DEF RepairTypeOK, Working
<1>4. RepRounds' /\ RepNamed' /\ PassedCompiles'
  BY <1>0, <1>1 DEF RepRounds, RepNamed, RepInRound, PassedCompiles
<1> QED
  BY <1>3, <1>4 DEF RepInv

\* The file at work, and what is left when it is done.
LEMMA RepAtWork ==
    ASSUME RepInv, repPhase \in RepInRound \ {"file"} \/ (repPhase = "file" /\ repQueue # <<>>)
    PROVE /\ Tail(repQueue) \in Seq(Sandboxed) /\ Head(repQueue) \in Sandboxed
          /\ Head(repQueue) # NoName => Head(repQueue) \in Named
<1>1. repQueue \in Seq(Sandboxed) /\ repQueue # <<>>
  BY RepParts DEF RepInv, RepRounds
<1> QED
  BY <1>1 DEF Named

\* What a round does short of writing.
LEMMA RepTries ==
    ASSUME RepInv,
           \/ SkipUnnamed \/ (\E fixed \in BOOLEAN : StartFile(fixed))
           \/ LeaveFile \/ AttemptFails \/ AttemptAnswers \/ DiffKeeps \/ DiffDrops
           \/ \E drops \in BOOLEAN : RetryAnswers(drops)
    PROVE RepInv'
<1>0. RepairTypeOK /\ RepRounds /\ RepNamed
  BY DEF RepInv
<1>1. /\ UNCHANGED <<repMode, repTree, repRound, repErrors, repTouched, repChanged, repSame,
                     repDeeds>>
      /\ repPhase \in RepInRound \ {"file"} \/ (repPhase = "file" /\ repQueue # <<>>)
      /\ repAttempt' \in {repAttempt, 0, 1, 2}
      /\ repRetried' = repRetried \/ (repRetried' = repRetried \cup {Head(repQueue)}
                                        /\ repPhase # "file")
      /\ \/ repQueue' = Tail(repQueue) /\ repPhase' = "file"
         \/ /\ repQueue' = repQueue /\ repPhase' \in {"call", "diff", "retry", "apply"}
            /\ repPhase = "file" => Head(repQueue) # NoName
  BY DEF SkipUnnamed, StartFile, LeaveFile, AttemptFails, AttemptAnswers, DiffKeeps, DiffDrops,
         RetryAnswers, NextFile, RepInRound
<1>2. /\ Tail(repQueue) \in Seq(Sandboxed)
      /\ Head(repQueue) # NoName => Head(repQueue) \in Named
  BY <1>1, RepAtWork
<1>3. repQueue' \in Seq(Sandboxed) /\ repRetried' \subseteq Named
  BY <1>0, <1>1, <1>2, RepParts DEF RepRounds
<1>4. RepairTypeOK'
  BY <1>0, <1>1, <1>3 DEF RepairTypeOK, Working
<1>5. RepRounds' /\ RepNamed' /\ PassedCompiles'
  BY <1>0, <1>1 DEF RepRounds, RepNamed, RepInRound, PassedCompiles
<1> QED
  BY <1>4, <1>5 DEF RepInv

\* A file is written, and so it is touched, or the round is cut short.
LEMMA RepWrites ==
    ASSUME RepInv,
           \/ \E x \in Said : ApplyFails(x)
           \/ \E x \in Said : \E g \in Sandboxed, y \in Said : Apply(x, g, y)
    PROVE RepInv'
<1>0. RepairTypeOK /\ RepRounds /\ RepNamed
  BY DEF RepInv
<1>1. /\ UNCHANGED <<repMode, repRound, repErrors, repChanged, repSame, repRetried>>
      /\ repPhase = "apply" /\ repPhase' = "file" /\ repQueue' = Tail(repQueue) /\ repAttempt' = 0
  BY DEF ApplyFails, Apply, NextFile
<1> DEFINE h == Head(repQueue)
<1>2. Tail(repQueue) \in Seq(Sandboxed) /\ h \in Named /\ h \in Sandboxed
  BY <1>0, <1>1, RepAtWork DEF RepInv, RepRounds, RepInRound
<1>3. repTree' \in RepairTrees
  <2>1. CASE \E x \in Said : ApplyFails(x)
    BY <1>0, <2>1, RepParts DEF ApplyFails, RepairTrees
  <2>2. CASE \E x \in Said : \E g \in Sandboxed, y \in Said : Apply(x, g, y)
    BY <1>0, <2>2, RepParts DEF Apply, RepairTrees
  <2> QED
    BY <2>1, <2>2
<1> DEFINE w == repDeeds.written \cup {h}
<1> DEFINE r == repDeeds.recent \cup {h}
<1>4. w \in SUBSET Named /\ r \in SUBSET Named
  BY <1>0, <1>2, RepParts
<1>5. Wrote(h) = [repDeeds EXCEPT !.written = w, !.recent = r]
  BY DEF Wrote
<1>6. /\ Wrote(h) \in RepDeeds /\ Wrote(h).written = w /\ Wrote(h).recent = r
      /\ Wrote(h).cut = repDeeds.cut
  <2> HIDE DEF w, r, h
  <2> QED
    BY <1>0, <1>4, <1>5, RepParts DEF RepDeeds
<1>7. /\ repDeeds' \in RepDeeds
      /\ \/ repDeeds'.cut = TRUE /\ repTouched' = repTouched
         \/ /\ repDeeds'.written = w /\ repDeeds'.recent = r /\ repDeeds'.cut = repDeeds.cut
            /\ repTouched' = repTouched \cup {h}
  <2>1. CASE \E x \in Said : ApplyFails(x)
    <3>1. repDeeds' = [Wrote(h) EXCEPT !.cut = TRUE] /\ repTouched' = repTouched
      BY <2>1 DEF ApplyFails
    <3> HIDE DEF w, r, h
    <3> QED
      BY <1>6, <3>1 DEF RepDeeds
  <2>2. CASE \E x \in Said : \E g \in Sandboxed, y \in Said : Apply(x, g, y)
    <3>1. repDeeds' = Wrote(h) /\ repTouched' = repTouched \cup {h}
      BY <2>2 DEF Apply
    <3> HIDE DEF w, r, h
    <3> QED
      BY <1>6, <3>1
  <2> QED
    BY <2>1, <2>2
<1>8. RepairTypeOK'
  BY <1>0, <1>1, <1>2, <1>3, <1>7, RepParts DEF RepairTypeOK, RepDeeds, Working
<1>9. RepRounds'
  BY <1>0, <1>1 DEF RepRounds, RepInRound
<1>10. RepNamed'
  BY <1>0, <1>1, <1>7 DEF RepNamed
<1>11. PassedCompiles'
  BY <1>1 DEF PassedCompiles
<1> QED
  BY <1>8, <1>9, <1>10, <1>11 DEF RepInv

\* A round that repaired nothing counts towards the tail, and the third of one signature ends it.
LEMMA RepSigned ==
    ASSUME RepInv, repPhase \in RepInRound, Unrepaired
    PROVE /\ repRound' \in 0..MaxRepairRounds /\ repSame' \in RepTails
          /\ repPhase' \in {"stuck", "gate"}
          /\ repSame'.times = MaxSameFailure => repPhase' = "stuck"
<1>0. RepairTypeOK /\ RepRounds
  BY DEF RepInv
<1>1. repSame.times \in 0..2 /\ repSame \in RepTails /\ repErrors \in RepairTrees
  BY <1>0, RepParts DEF RepRounds, RepInRound, MaxSameFailure
<1>2. Signed \in RepTails
  <2>1. CASE repSame.times > 0 /\ repSame.signature = repErrors
    <3> DEFINE n == repSame.times + 1
    <3>1. n \in 0..MaxSameFailure
      BY <1>1 DEF MaxSameFailure
    <3>2. Signed = [repSame EXCEPT !.times = n]
      BY <2>1 DEF Signed
    <3> HIDE DEF n
    <3> QED
      BY <1>1, <3>1, <3>2 DEF RepTails
  <2>2. CASE ~(repSame.times > 0 /\ repSame.signature = repErrors)
    <3>1. Signed = [signature |-> repErrors, times |-> 1]
      BY <2>2 DEF Signed
    <3> QED
      BY <1>1, <3>1 DEF RepTails, MaxSameFailure
  <2> QED
    BY <2>1, <2>2
<1>3. repRound + 1 \in 0..MaxRepairRounds
  BY <1>0, RepParts, RepairAssumption DEF RepRounds
<1> QED
  BY <1>2, <1>3 DEF Unrepaired

LEMMA RepRoundEnds ==
    ASSUME RepInv, EndRound \/ RoundTimesOut
    PROVE RepInv'
<1>0. RepairTypeOK /\ RepRounds /\ RepNamed
  BY DEF RepInv
<1>1. /\ UNCHANGED <<repMode, repTree, repErrors, repRetried>>
      /\ repPhase \in RepInRound /\ repTouched' = {}
      /\ repQueue' \in Seq(Sandboxed) /\ repAttempt' \in 0..2
  <2>1. repQueue \in Seq(Sandboxed) /\ <<>> \in Seq(Sandboxed) /\ repAttempt \in 0..2
    BY <1>0 DEF RepairTypeOK
  <2>2. CASE EndRound
    BY <2>1, <2>2 DEF EndRound, RepInRound
  <2>3. CASE RoundTimesOut
    BY <2>1, <2>3 DEF RoundTimesOut, RepInRound
  <2> QED
    BY <2>2, <2>3
<1>2. CASE EndRound /\ repTouched # {}
  <2>1. /\ repChanged' = repChanged \cup repTouched
        /\ repSame' = [signature |-> NoErrors, times |-> 0]
        /\ repRound' = repRound + 1 /\ repPhase' = "gate"
        /\ repDeeds' = [repDeeds EXCEPT !.recent = {}]
    BY <1>2 DEF EndRound
  <2>2. repSame' \in RepTails /\ repSame'.times = 0
    BY <2>1, RepTrees DEF RepTails, MaxSameFailure
  <2>3. /\ repDeeds' \in RepDeeds /\ repDeeds'.recent = {}
        /\ repDeeds'.written = repDeeds.written /\ repDeeds'.cut = repDeeds.cut
    BY <1>0, <2>1, RepParts DEF RepDeeds
  <2>4. repRound' \in 0..MaxRepairRounds
    BY <1>0, <1>1, <2>1, RepParts, RepairAssumption DEF RepRounds
  <2>5. repChanged' \subseteq Named
    BY <1>0, <2>1, RepParts
  <2>6. RepairTypeOK'
    BY <1>0, <1>1, <2>1, <2>2, <2>3, <2>4, <2>5
       DEF RepairTypeOK, RepDeeds, RepTails, Working
  <2>7. RepRounds' /\ PassedCompiles'
    BY <1>1, <2>1, <2>2 DEF RepRounds, RepInRound, MaxSameFailure, PassedCompiles
  <2>8. RepNamed'
    BY <1>0, <1>1, <2>1, <2>3 DEF RepNamed
  <2> QED
    BY <2>6, <2>7, <2>8 DEF RepInv
<1>3. CASE (EndRound /\ repTouched = {}) \/ RoundTimesOut
  <2>1. Unrepaired /\ repChanged' = repChanged
    BY <1>3 DEF EndRound, RoundTimesOut
  <2>2. /\ repRound' \in 0..MaxRepairRounds /\ repSame' \in RepTails
        /\ repPhase' \in {"stuck", "gate"}
        /\ repSame'.times = MaxSameFailure => repPhase' = "stuck"
    BY <1>1, <2>1, RepSigned
  <2>3. /\ repDeeds' \in RepDeeds
        /\ repDeeds'.cut = TRUE \/ (repDeeds' = repDeeds /\ repTouched = {})
    BY <1>0, <1>3, RepParts DEF EndRound, RoundTimesOut, RepDeeds
  <2>4. RepairTypeOK'
    BY <1>0, <1>1, <2>1, <2>2, <2>3, RepParts
       DEF RepairTypeOK, RepDeeds, RepTails, Working, RepVerdicts
  <2>5. RepRounds' /\ PassedCompiles'
    BY <1>1, <2>2 DEF RepRounds, RepInRound, PassedCompiles
  <2>6. RepNamed'
    BY <1>0, <1>1, <2>1, <2>3 DEF RepNamed
  <2> QED
    BY <2>4, <2>5, <2>6 DEF RepInv
<1> QED
  BY <1>2, <1>3

LEMMA RepKeeps == RepInv /\ [RepairNext]_repairVars => RepInv'
<1> SUFFICES ASSUME RepInv, [RepairNext]_repairVars PROVE RepInv'
  OBVIOUS
<1>1. CASE UNCHANGED repairVars
  BY <1>1 DEF repairVars, RepInv, RepairTypeOK, RepRounds, RepNamed, PassedCompiles, Unchecked
<1>2. CASE RepGatePasses \/ GateRaises \/ GateOutside \/ GateCapped \/ GateFails
  BY <1>2, RepGates, RepGateFails
<1>3. CASE \/ SkipUnnamed \/ (\E fixed \in BOOLEAN : StartFile(fixed))
           \/ LeaveFile \/ AttemptFails \/ AttemptAnswers \/ DiffKeeps \/ DiffDrops
           \/ \E drops \in BOOLEAN : RetryAnswers(drops)
  BY <1>3, RepTries
<1>4. CASE \/ \E x \in Said : ApplyFails(x)
           \/ \E x \in Said : \E g \in Sandboxed, y \in Said : Apply(x, g, y)
  BY <1>4, RepWrites
<1>5. CASE EndRound \/ RoundTimesOut
  BY <1>5, RepRoundEnds
<1> QED
  BY <1>1, <1>2, <1>3, <1>4, <1>5 DEF RepairNext

LEMMA RepSound ==
    RepInv => RepairTypeOK /\ PassedCompiles /\ RepairsAreNamed /\ StuckIsUnrepaired
BY DEF RepInv, RepRounds, RepInRound, RepNamed, RepairsAreNamed, StuckIsUnrepaired, RepVerdicts

LEMMA RepAlways ==
    RepairInit /\ [][RepairNext]_repairVars =>
        [](RepairTypeOK /\ PassedCompiles /\ RepairsAreNamed /\ StuckIsUnrepaired)
BY RepStarts, RepKeeps, RepSound, PTL

-----------------------------------------------------------------------------
(* The review and its repairs (ReviewGates).  Unless an exception was lost, the innermost call has  *)
(* the diff of the sandbox and the count of the repairs, and the gates before the one it is at, and  *)
(* those that are done, have let through what they look at, the code in the sandbox or this diff;    *)
(* but for those a repair drops no result of, or a conformance retry.                                 *)

\* The gates a call comes by before it is at one.
RevBefore ==
    [compile |-> {}, acceptance |-> {"compile"}, semantic |-> {"compile", "acceptance"},
     runtime |-> {"compile", "acceptance", "semantic"},
     review |-> {"compile", "acceptance", "semantic", "runtime"},
     conformance |-> {"compile", "acceptance", "semantic", "runtime", "review"},
     goals |-> {"compile", "acceptance", "semantic", "runtime", "review", "conformance"},
     artifact |-> {"compile", "acceptance", "semantic", "runtime", "review", "conformance",
                   "goals"},
     evidence |-> {"compile", "acceptance", "semantic", "runtime", "review", "conformance",
                   "goals", "artifact"},
     jira |-> {"compile", "acceptance", "semantic", "runtime", "review", "conformance", "goals",
               "artifact", "evidence"}]

\* The gates whose judgement is about the version that is there.
RevHeld ==
    {"compile", "review", "conformance", "evidence"}
        \cup IF revMade["conformance"] = 0 THEN {"acceptance", "semantic", "runtime"} ELSE {}

\* What a gate looks at.
RevSeen(g) == IF g = "compile" THEN revTree ELSE revTells

RevRuns ==
    revStatus = "running" =>
        /\ revStack # <<>>
        /\ ~revLost =>
               /\ Inner.diff = revTells /\ Inner.st.diff = revTells /\ Inner.st.spent = revMade
               /\ \A g \in RevHeld :
                      g \in Inner.st.done \cup RevBefore[Inner.at] => revJudged[g] = RevSeen(g)

\* Without a repair that reaches further the diff tells the whole of the code.
RevWhole == (\A kind \in Reaching : revMade[kind] = 0) => revTells = revTree

RevInv == RevTypeOK /\ RevRuns /\ RevWhole /\ ShownIsJudged /\ RepairsAreBounded

LEMMA RevGateNames ==
    RevGateSet = {"compile", "acceptance", "semantic", "runtime", "review", "conformance", "goals",
                  "artifact", "evidence"}
<1>1. DOMAIN RevGates = 1..9
  BY DEF RevGates
<1>2. {RevGates[i] : i \in 1..9}
        = {RevGates[1], RevGates[2], RevGates[3], RevGates[4], RevGates[5], RevGates[6],
           RevGates[7], RevGates[8], RevGates[9]}
  OBVIOUS
<1> QED
  BY <1>1, <1>2 DEF RevGateSet, RevGates

\* The next gate, which has one more before it.
LEMMA RevAfter ==
    ASSUME NEW g \in RevGateSet
    PROVE /\ After(g) \in RevGateSet \cup {"jira"}
          /\ RevBefore[After(g)] = RevBefore[g] \cup {g}
<1>1. DOMAIN RevGates = 1..9 /\ Len(RevGates) = 9
  BY DEF RevGates
<1>2. PICK i \in 1..9 : RevGates[i] = g
  BY <1>1 DEF RevGateSet
<1>3. \A j \in 1..9 : RevGates[j] = g => j = i
  BY <1>2 DEF RevGates
<1> DEFINE k == CHOOSE j \in DOMAIN RevGates : RevGates[j] = g
<1>4. k = i
  BY <1>1, <1>2, <1>3
<1>5. After(g) = IF i = 9 THEN "jira" ELSE RevGates[i + 1]
  <2>1. After(g) = IF k = Len(RevGates) THEN "jira" ELSE RevGates[k + 1]
    BY DEF After
  <2> HIDE DEF k
  <2> QED
    BY <1>1, <1>4, <2>1
<1>6. \/ g = "compile" /\ After(g) = "acceptance"
      \/ g = "acceptance" /\ After(g) = "semantic"
      \/ g = "semantic" /\ After(g) = "runtime"
      \/ g = "runtime" /\ After(g) = "review"
      \/ g = "review" /\ After(g) = "conformance"
      \/ g = "conformance" /\ After(g) = "goals"
      \/ g = "goals" /\ After(g) = "artifact"
      \/ g = "artifact" /\ After(g) = "evidence"
      \/ g = "evidence" /\ After(g) = "jira"
  <2>1. i \in {1, 2, 3, 4, 5, 6, 7, 8, 9}
    BY <1>2
  <2>2. /\ RevGates[1] = "compile" /\ RevGates[2] = "acceptance" /\ RevGates[3] = "semantic"
        /\ RevGates[4] = "runtime" /\ RevGates[5] = "review" /\ RevGates[6] = "conformance"
        /\ RevGates[7] = "goals" /\ RevGates[8] = "artifact" /\ RevGates[9] = "evidence"
    BY DEF RevGates
  <2> QED
    BY <1>2, <1>5, <2>1, <2>2
<1>7. After(g) \in RevGateSet \cup {"jira"}
  BY <1>6, RevGateNames
<1> QED
  BY <1>6, <1>7 DEF RevBefore

\* The parts of a frame and of a state.
LEMMA RevFrameParts ==
    ASSUME NEW frame \in RevFrames
    PROVE /\ frame.at \in RevGateSet \cup {"jira"} /\ frame.diff \in RevDiffs
          /\ frame.st \in RevStates /\ frame.st.diff \in RevDiffs
          /\ frame.st.done \in SUBSET RevGateSet /\ frame.st.spent \in [RevKinds -> Nat]
BY DEF RevFrames, RevStates

LEMMA RevDone ==
    ASSUME NEW st \in RevStates, NEW g \in RevGateSet
    PROVE LET t == [st EXCEPT !.done = @ \cup {g}]
          IN  /\ t \in RevStates /\ t.done = st.done \cup {g} /\ t.diff = st.diff
              /\ t.spent = st.spent
<1> DEFINE d == st.done \cup {g}
<1>1. d \in SUBSET RevGateSet
  BY DEF RevStates
<1>2. [st EXCEPT !.done = @ \cup {g}] = [st EXCEPT !.done = d]
  OBVIOUS
<1> HIDE DEF d
<1>3. LET t == [st EXCEPT !.done = d]
      IN  t \in RevStates /\ t.done = d /\ t.diff = st.diff /\ t.spent = st.spent
  BY <1>1 DEF RevStates
<1> QED
  BY <1>2, <1>3 DEF d

\* The innermost call is replaced.
LEMMA RevReplaced ==
    ASSUME NEW stack \in Seq(RevFrames), stack # <<>>, NEW frame \in RevFrames,
           NEW next, next = [stack EXCEPT ![Len(stack)] = frame]
    PROVE /\ next \in Seq(RevFrames) /\ Len(next) = Len(stack) /\ next # <<>>
          /\ next[Len(next)] = frame
<1> DEFINE n == Len(stack)
<1>1. n \in Nat /\ n # 0 /\ n \in 1..n /\ stack \in [1..n -> RevFrames]
  OBVIOUS
<1>2. next \in [1..n -> RevFrames] /\ next[n] = frame
  BY <1>1
<1>3. next \in Seq(RevFrames) /\ Len(next) = n
  <2> HIDE DEF n
  <2> QED
    BY <1>1, <1>2
<1> QED
  BY <1>1, <1>2, <1>3

\* One is called, or another takes the place of the last ones.
LEMMA RevAppended ==
    ASSUME NEW stack \in Seq(RevFrames), NEW frame \in RevFrames,
           NEW next, next = Append(stack, frame)
    PROVE next \in Seq(RevFrames) /\ next # <<>> /\ next[Len(next)] = frame
<1>1. Len(next) = Len(stack) + 1 /\ Len(stack) \in Nat /\ next \in Seq(RevFrames)
      /\ next[Len(stack) + 1] = frame
  OBVIOUS
<1> QED
  BY <1>1

LEMMA RevStarts == RevInit => RevInv
<1> SUFFICES ASSUME RevInit PROVE RevInv
  OBVIOUS
<1>1. /\ RevNewState \in RevStates /\ RevNewState.diff = 1 /\ RevNewState.done = {}
      /\ RevNewState.spent = [k \in RevKinds |-> 0]
  BY ReviewAssumption DEF RevNewState, RevStates, RevDiffs, Partly
<1>2. /\ Call(RevNewState) \in RevFrames /\ Call(RevNewState).at = "compile"
      /\ Call(RevNewState).diff = 1 /\ Call(RevNewState).st = RevNewState
  BY <1>1, RevGateNames, ReviewAssumption DEF Call, RevFrames, RevDiffs, Partly
<1> DEFINE c == Call(RevNewState)
<1>3. revStack = <<c>>
  BY DEF RevInit
<1> HIDE DEF c
<1>4. /\ revStack \in Seq(RevFrames) /\ revStack # <<>> /\ Inner = c
  BY <1>2, <1>3 DEF Inner, c
<1>5. RevTypeOK
  <2>1. revJudged \in [RevGateSet -> RevDiffs] /\ revMade \in [RevKinds -> Nat]
    BY ReviewAssumption DEF RevInit, RevDiffs, Partly
  <2>2. revTree \in RevVersionSet /\ revShown \in RevDiffs /\ revTells \in RevDiffs
    BY ReviewAssumption DEF RevInit, RevVersionSet, RevDiffs, Partly
  <2> QED
    BY <1>1, <1>4, <2>1, <2>2 DEF RevInit, RevTypeOK
<1>6. RevRuns
  BY <1>1, <1>2, <1>4 DEF RevInit, RevRuns, RevBefore, c
<1>7. ShownIsJudged /\ RepairsAreBounded /\ RevWhole
  BY ReviewAssumption DEF RevInit, ShownIsJudged, RepairsAreBounded, RevWhole
<1> QED
  BY <1>5, <1>6, <1>7 DEF RevInv

\* The call that runs, its state, and what the types say of them.
LEMMA RevInner ==
    ASSUME RevInv, revStatus = "running"
    PROVE /\ revStack \in Seq(RevFrames) /\ revStack # <<>> /\ Inner \in RevFrames
          /\ Inner.at \in RevGateSet \cup {"jira"} /\ Inner.diff \in RevDiffs
          /\ Inner.st \in RevStates /\ Inner.st.diff \in RevDiffs
          /\ Inner.st.done \in SUBSET RevGateSet /\ Inner.st.spent \in [RevKinds -> Nat]
<1>1. revStack \in Seq(RevFrames) /\ revStack # <<>>
  BY DEF RevInv, RevTypeOK, RevRuns
<1>2. Inner \in RevFrames
  BY <1>1 DEF Inner
<1> QED
  BY <1>1, <1>2, RevFrameParts

\* Nothing is shown while the task runs.
LEMMA RevShowsNothing ==
    ASSUME RevInv, revStatus' = "running", revMade' = revMade, revLost => revLost'
    PROVE ShownIsJudged' /\ RepairsAreBounded'
BY DEF RevInv, ShownIsJudged, RepairsAreBounded

\* A call goes on to the gate after one that has let its version through.
LEMMA RevMovesOn ==
    ASSUME RevInv, revStatus = "running", NEW g \in RevGateSet, Inner.at = g,
           NEW st \in RevStates, st.diff = Inner.st.diff, st.spent = Inner.st.spent,
           st.done \subseteq Inner.st.done \cup {g},
           revStack' = Replaced([Inner EXCEPT !.at = After(g), !.st = st]),
           revSaved' \in RevStates,
           revJudged' \in [RevGateSet -> RevDiffs],
           \A h \in RevGateSet \ {g} : revJudged'[h] = revJudged[h],
           ~revLost /\ g \in RevHeld =>
               revJudged'[g] = (IF g = "compile" THEN revTree ELSE revTells),
           UNCHANGED <<revTree, revTells, revVerified, revStatus, revShown, revMade, revLost>>
    PROVE RevInv'
<1> DEFINE f == [Inner EXCEPT !.at = After(g), !.st = st]
<1>1. /\ f \in RevFrames /\ f.at = After(g) /\ f.diff = Inner.diff /\ f.st = st
  <2> DEFINE at == After(g)
  <2>1. Inner \in RevFrames /\ at \in RevGateSet \cup {"jira"}
    BY RevInner, RevAfter
  <2>2. f = [Inner EXCEPT !.at = at, !.st = st]
    OBVIOUS
  <2> HIDE DEF at, f
  <2>3. f \in RevFrames /\ f.at = at /\ f.diff = Inner.diff /\ f.st = st
    BY <2>1, <2>2 DEF RevFrames
  <2> QED
    BY <2>3 DEF at
<1>2. revStack' = [revStack EXCEPT ![Len(revStack)] = f]
  BY DEF Replaced
<1> HIDE DEF f
<1>3. revStack' \in Seq(RevFrames) /\ revStack' # <<>> /\ Inner' = f
  <2>1. revStack \in Seq(RevFrames) /\ revStack # <<>>
    BY RevInner
  <2>2. /\ revStack' \in Seq(RevFrames) /\ revStack' # <<>>
        /\ revStack'[Len(revStack')] = f
    BY <1>1, <1>2, <2>1, RevReplaced
  <2> QED
    BY <2>2 DEF Inner
<1>4. RevTypeOK'
  BY <1>3 DEF RevInv, RevTypeOK
<1>5. RevHeld' = RevHeld /\ RevHeld \subseteq RevGateSet
  BY RevGateNames DEF RevHeld
<1>6. RevRuns'
  <2>1. SUFFICES ASSUME ~revLost
                 PROVE /\ f.diff = revTells /\ f.st.diff = revTells /\ f.st.spent = revMade
                       /\ \A h \in RevHeld :
                              h \in f.st.done \cup RevBefore[f.at] => revJudged'[h] = RevSeen(h)
    BY <1>3, <1>5 DEF RevRuns, RevSeen
  <2>2. /\ Inner.diff = revTells /\ Inner.st.diff = revTells /\ Inner.st.spent = revMade
        /\ \A h \in RevHeld :
               h \in Inner.st.done \cup RevBefore[g] => revJudged[h] = RevSeen(h)
    BY <2>1 DEF RevInv, RevRuns
  <2>3. RevBefore[f.at] = RevBefore[g] \cup {g}
    BY <1>1, RevAfter
  <2> QED
    BY <1>1, <1>5, <2>1, <2>2, <2>3 DEF RevSeen
<1>7. RevWhole'
  BY DEF RevInv, RevWhole
<1> QED
  BY <1>4, <1>6, <1>7, RevShowsNothing DEF RevInv

LEMMA RevPassesOver ==
    ASSUME RevInv, NEW g \in RevGateSet, Cached(g)
    PROVE RevInv'
<1>1. revStatus = "running" /\ Inner.at = g /\ g \in Inner.st.done
  BY DEF Cached, At
<1>2. revStack' = Replaced([Inner EXCEPT !.at = After(g), !.st = Inner.st])
  <2>1. [Inner EXCEPT !.at = After(g)] = [Inner EXCEPT !.at = After(g), !.st = Inner.st]
    BY <1>1, RevInner DEF RevFrames
  <2> QED
    BY <2>1 DEF Cached
<1>3. ~revLost /\ g \in RevHeld => revJudged[g] = (IF g = "compile" THEN revTree ELSE revTells)
  BY <1>1 DEF RevInv, RevRuns, RevSeen
<1>4. Inner.st \in RevStates /\ revSaved' \in RevStates
      /\ revJudged' \in [RevGateSet -> RevDiffs]
  BY <1>1, RevInner DEF RevInv, RevTypeOK, Cached
<1> QED
  BY <1>1, <1>2, <1>3, <1>4, RevMovesOn DEF Cached

LEMMA RevLetsThrough ==
    ASSUME RevInv, NEW g \in RevGateSet, At(g), NEW version \in RevDiffs,
           LetsThrough(g, version),
           ~revLost /\ g \in RevHeld => version = (IF g = "compile" THEN revTree ELSE revTells)
    PROVE RevInv'
<1>1. revStatus = "running" /\ Inner.at = g
  BY DEF At
<1> DEFINE st == [Inner.st EXCEPT !.done = @ \cup {g}]
<1>2. /\ st \in RevStates /\ st.done = Inner.st.done \cup {g} /\ st.diff = Inner.st.diff
      /\ st.spent = Inner.st.spent
  BY <1>1, RevInner, RevDone
<1>3. /\ revStack' = Replaced([Inner EXCEPT !.at = After(g), !.st = st])
      /\ revSaved' = st /\ revJudged' = [revJudged EXCEPT ![g] = version]
      /\ UNCHANGED <<revTree, revTells, revVerified, revStatus, revShown, revMade, revLost>>
  BY DEF LetsThrough
<1> HIDE DEF st
<1>4. /\ revJudged' \in [RevGateSet -> RevDiffs] /\ revJudged'[g] = version
      /\ \A h \in RevGateSet \ {g} : revJudged'[h] = revJudged[h]
  BY <1>3 DEF RevInv, RevTypeOK
<1> QED
  BY <1>1, <1>2, <1>3, <1>4, RevMovesOn

\* The gates that let a version through: the one of the call, of its state, or of the sandbox.
LEMMA RevPassing ==
    ASSUME RevInv,
           \/ CompilePass \/ AcceptancePass \/ SemanticPass \/ RuntimePass \/ ReviewPass
           \/ ConformancePass \/ GoalsPass \/ ArtifactPass \/ EvidencePass
    PROVE RevInv'
<1>1. PICK g \in RevGateSet :
        /\ At(g)
        /\ \/ g \in {"compile", "artifact"} /\ LetsThrough(g, revTree)
           \/ g # "compile" /\ \E version \in {Inner.diff, Inner.st.diff} : LetsThrough(g, version)
  BY RevGateNames
     DEF CompilePass, AcceptancePass, SemanticPass, RuntimePass, ReviewPass, ConformancePass,
         GoalsPass, ArtifactPass, EvidencePass, Fresh
<1>2. revTree \in RevDiffs
  BY ReviewAssumption DEF RevInv, RevTypeOK, RevVersionSet, RevDiffs, Partly
<1>3. CASE g \in {"compile", "artifact"} /\ LetsThrough(g, revTree)
  <2>1. g \in RevHeld => g = "compile"
    BY <1>3 DEF RevHeld
  <2> QED
    BY <1>1, <1>2, <1>3, <2>1, RevLetsThrough
<1>4. CASE g # "compile" /\ \E version \in {Inner.diff, Inner.st.diff} : LetsThrough(g, version)
  <2>1. PICK version \in {Inner.diff, Inner.st.diff} : LetsThrough(g, version)
    BY <1>4
  <2>2. version \in RevDiffs /\ (~revLost => version = revTells)
    BY <1>1, RevInner DEF At, RevInv, RevRuns
  <2> QED
    BY <1>1, <1>4, <2>1, <2>2, RevLetsThrough
<1> QED
  BY <1>1, <1>3, <1>4

LEMMA RevAccepts ==
    ASSUME RevInv, AcceptanceRaises
    PROVE RevInv'
<1>1. revStatus = "running" /\ Inner.at = "acceptance" /\ "acceptance" \in RevGateSet
  BY RevGateNames DEF AcceptanceRaises, Fresh, At
<1>2. After("acceptance") = "semantic"
  <2>1. RevBefore[After("acceptance")] = {"compile", "acceptance"}
        /\ After("acceptance") \in RevGateSet \cup {"jira"}
    BY <1>1, RevAfter DEF RevBefore
  <2> QED
    BY <2>1, RevGateNames DEF RevBefore
<1>3. revStack' = Replaced([Inner EXCEPT !.at = "semantic", !.st = Inner.st])
  <2>1. [Inner EXCEPT !.at = "semantic"] = [Inner EXCEPT !.at = "semantic", !.st = Inner.st]
    BY <1>1, RevInner DEF RevFrames
  <2> QED
    BY <2>1 DEF AcceptanceRaises
<1>4. /\ revJudged' = [revJudged EXCEPT !["acceptance"] = Inner.st.diff]
      /\ UNCHANGED <<revSaved, revTree, revTells, revVerified, revStatus, revShown, revMade, revLost>>
  BY DEF AcceptanceRaises
<1>5. /\ Inner.st \in RevStates /\ Inner.st.diff \in RevDiffs /\ revSaved' \in RevStates
      /\ ~revLost => Inner.st.diff = revTells
  BY <1>1, <1>4, RevInner DEF RevInv, RevTypeOK, RevRuns
<1>6. /\ revJudged' \in [RevGateSet -> RevDiffs] /\ revJudged'["acceptance"] = Inner.st.diff
      /\ \A h \in RevGateSet \ {"acceptance"} : revJudged'[h] = revJudged[h]
  BY <1>1, <1>4, <1>5 DEF RevInv, RevTypeOK
<1> QED
  BY <1>1, <1>2, <1>3, <1>4, <1>5, <1>6, RevMovesOn

\* The end of all calls: what the release shows has come by every gate.
LEMMA RevEnding ==
    ASSUME RevInv, revStatus = "running", NEW status \in RevEnds, Ends(status),
           revShown' \in {revShown, Inner.st.diff},
           status = "asked_jira" => Inner.at = "jira" /\ revShown' = Inner.st.diff
    PROVE RevInv'
<1>1. /\ revStatus' = status /\ revStack' = <<>> /\ status # "running"
      /\ UNCHANGED <<revSaved, revTree, revTells, revVerified, revJudged, revMade, revLost>>
  BY DEF Ends, RevEnds
<1>2. RevTypeOK'
  BY <1>1, RevInner DEF RevInv, RevTypeOK
<1>3. RevRuns' /\ RevWhole' /\ RepairsAreBounded'
  BY <1>1 DEF RevInv, RevRuns, RevWhole, RepairsAreBounded
<1>4. ShownIsJudged'
  <2>1. SUFFICES ASSUME status = "asked_jira", ~revLost
                 PROVE /\ revShown' = revTells /\ revJudged["compile"] = revTree
                       /\ \A g \in {"review", "conformance", "evidence"} :
                              revJudged[g] = revTells
                       /\ revMade["conformance"] = 0 =>
                              \A g \in {"acceptance", "semantic", "runtime"} :
                                  revJudged[g] = revTells
                       /\ RevWhole
    BY <1>1 DEF ShownIsJudged, RevWhole
  <2>2. \A g \in RevHeld : g \in RevBefore["jira"] => revJudged[g] = RevSeen(g)
    BY <2>1 DEF RevInv, RevRuns
  <2>3. revShown' = revTells /\ RevWhole
    BY <2>1 DEF RevInv, RevRuns
  <2> QED
    BY <2>2, <2>3 DEF RevHeld, RevBefore, RevSeen
<1> QED
  BY <1>2, <1>3, <1>4 DEF RevInv

LEMMA RevEnded ==
    ASSUME RevInv,
           \/ \E g \in RevGateSet \ {"conformance", "semantic"} : Blocks(g)
           \/ SemanticAsks \/ ConformanceBlocks \/ ReservationAsks \/ ReservationFails \/ JiraAsks
           \/ ApplyIsGated
    PROVE RevInv'
<1>1. revStatus = "running"
  BY DEF Blocks, SemanticAsks, ConformanceBlocks, ReservationAsks, ReservationFails, JiraAsks,
         ApplyIsGated, Fresh, At
<1>2. PICK status \in RevEnds :
        /\ Ends(status) /\ revShown' \in {revShown, Inner.st.diff}
        /\ status = "asked_jira" => Inner.at = "jira" /\ revShown' = Inner.st.diff
  BY DEF Blocks, SemanticAsks, ConformanceBlocks, ReservationAsks, ReservationFails, JiraAsks,
         ApplyIsGated, At, RevEnds
<1> QED
  BY <1>1, <1>2, RevEnding

\* What git diff may tell of the next version.
LEMMA RevTold ==
    ASSUME RevInv, revTree < RevVersions, NEW kind \in RevKinds, NEW diff \in TellsOf(kind)
    PROVE /\ revTree + 1 \in RevVersionSet /\ diff \in RevDiffs
          /\ kind \notin Reaching /\ revTells = revTree => diff = revTree + 1
<1>1. revTree \in RevVersionSet /\ revTells \in RevDiffs
  BY DEF RevInv, RevTypeOK
<1>2. diff \in {revTree + 1, revTells, Partly(revTree + 1)}
  BY DEF TellsOf
<1>3. kind \notin Reaching /\ revTells = revTree => diff = revTree + 1
  BY DEF TellsOf
<1> QED
  BY <1>1, <1>2, <1>3, ReviewAssumption DEF RevVersionSet, RevDiffs, Partly

\* A new version: whatever a repair keeps is no result of a gate that is held to it.
LEMMA RevRepairs ==
    ASSUME RevInv, revStatus = "running", NEW kind \in RevKinds, Repair(kind)
    PROVE RevInv'
<1>0. PICK diff \in TellsOf(kind) :
        LET s == Reset(Inner.st, kind, diff)
        IN /\ MayRepair(kind)
           /\ revTree' = revTree + 1 /\ revTells' = diff
           /\ revStack' = Append(Replaced([Inner EXCEPT !.st = s]), Call(s))
           /\ revSaved' = s
           /\ revMade' = [revMade EXCEPT ![kind] = @ + 1]
           /\ UNCHANGED <<revVerified, revStatus, revShown, revJudged, revLost>>
  BY DEF Repair
<1> DEFINE n == Inner.st.spent[kind] + 1
<1> DEFINE spent == [Inner.st.spent EXCEPT ![kind] = n]
<1> DEFINE st == [diff |-> diff, done |-> Inner.st.done \cap KeptBy(kind), spent |-> spent]
<1> DEFINE f == [Inner EXCEPT !.st = st]
<1>1. /\ st = Reset(Inner.st, kind, diff)
      /\ Inner.st.spent[kind] < RevBudget[kind] /\ revTree < RevVersions
      /\ revTree' = revTree + 1 /\ revTells' = diff
      /\ revStack' = Append(Replaced(f), Call(st)) /\ revSaved' = st
      /\ revMade' = [revMade EXCEPT ![kind] = @ + 1]
      /\ UNCHANGED <<revVerified, revStatus, revShown, revJudged, revLost>>
  BY <1>0 DEF MayRepair, Reset
<1>2. /\ Inner \in RevFrames /\ Inner.st.done \in SUBSET RevGateSet
      /\ Inner.st.spent \in [RevKinds -> Nat] /\ revStack \in Seq(RevFrames) /\ revStack # <<>>
  BY RevInner
<1>3. /\ revTree + 1 \in RevVersionSet /\ diff \in RevDiffs
      /\ kind \notin Reaching /\ revTells = revTree => diff = revTree + 1
  BY <1>0, <1>1, RevTold
<1>4. n \in Nat /\ spent \in [RevKinds -> Nat] /\ n <= RevBudget[kind]
  BY <1>1, <1>2, ReviewAssumption
<1>5. st \in RevStates /\ st.diff = diff /\ st.done = Inner.st.done \cap KeptBy(kind)
      /\ st.spent = spent
  <2> HIDE DEF spent
  <2> QED
    BY <1>2, <1>3, <1>4 DEF RevStates
<1> HIDE DEF st
<1>6. f \in RevFrames
  BY <1>2, <1>5 DEF RevFrames
<1>7. /\ Call(st) \in RevFrames /\ Call(st).at = "compile" /\ Call(st).diff = diff
      /\ Call(st).st = st
  BY <1>3, <1>5, RevGateNames DEF Call, RevFrames
<1> HIDE DEF f
<1>8. revStack' \in Seq(RevFrames) /\ revStack' # <<>> /\ Inner' = Call(st)
  <2> DEFINE r == Replaced(f)
  <2>1. r \in Seq(RevFrames)
    BY <1>2, <1>6, RevReplaced DEF Replaced
  <2>2. revStack' = Append(r, Call(st))
    BY <1>1
  <2> HIDE DEF r
  <2>3. /\ revStack' \in Seq(RevFrames) /\ revStack' # <<>>
        /\ revStack'[Len(revStack')] = Call(st)
    BY <1>7, <2>1, <2>2, RevAppended
  <2> QED
    BY <2>3 DEF Inner
<1>9. revMade' \in [RevKinds -> Nat] /\ revMade \in [RevKinds -> Nat]
      /\ revMade'[kind] = revMade[kind] + 1
      /\ \A k \in RevKinds \ {kind} : revMade'[k] = revMade[k]
  BY <1>1 DEF RevInv, RevTypeOK
<1>10. RevTypeOK'
  BY <1>1, <1>3, <1>5, <1>8, <1>9 DEF RevInv, RevTypeOK
<1>11. ~revLost => revMade' = spent
  <2>1. ~revLost => Inner.st.spent = revMade
    BY DEF RevInv, RevRuns
  <2> QED
    BY <1>1, <1>9, <2>1
<1>12. \A g \in RevHeld' : g \notin st.done
  <2>1. CASE kind = "conformance"
    <3>1. revMade'["conformance"] # 0
      BY <1>9, <2>1
    <3> QED
      BY <1>5, <2>1, <3>1 DEF RevHeld, KeptBy
  <2>2. CASE kind # "conformance"
    BY <1>5, <2>2 DEF RevHeld, KeptBy
  <2> QED
    BY <2>1, <2>2
<1>13. RevRuns'
  BY <1>1, <1>5, <1>7, <1>8, <1>11, <1>12 DEF RevRuns, RevBefore
<1>16. RevWhole'
  <2> SUFFICES ASSUME \A k \in Reaching : revMade'[k] = 0
               PROVE diff = revTree + 1
    BY <1>1 DEF RevWhole
  <2>1. kind \notin Reaching
    BY <1>9
  <2>2. \A k \in Reaching : revMade[k] = 0
    BY <1>9, <2>1 DEF Reaching, RevKinds
  <2> QED
    BY <1>3, <2>1, <2>2 DEF RevInv, RevWhole
<1>14. ShownIsJudged'
  BY <1>1 DEF ShownIsJudged
<1>15. RepairsAreBounded'
  <2> SUFFICES ASSUME ~revLost, NEW k \in RevKinds PROVE revMade'[k] <= RevBudget[k]
    BY <1>1 DEF RepairsAreBounded
  <2>1. CASE k = kind
    BY <1>2, <1>4, <1>11, <2>1
  <2>2. CASE k # kind
    BY <1>9, <2>2 DEF RevInv, RepairsAreBounded
  <2> QED
    BY <2>1, <2>2
<1> QED
  BY <1>10, <1>13, <1>14, <1>15, <1>16 DEF RevInv

\* What a semantic review leaves that has lost an exception: it is done, and the next gate is on.
LEMMA RevLosing ==
    ASSUME NEW frame \in RevFrames,
           NEW next, next = [frame EXCEPT !.at = "runtime", !.st.done = @ \cup {"semantic"}]
    PROVE next \in RevFrames
<1> DEFINE st == [frame.st EXCEPT !.done = @ \cup {"semantic"}]
<1>1. st \in RevStates
  BY RevGateNames, RevFrameParts, RevDone
<1>2. next = [frame EXCEPT !.at = "runtime", !.st = st]
  BY DEF RevFrames
<1> HIDE DEF st
<1> QED
  BY <1>1, <1>2, RevGateNames DEF RevFrames

\* A call has caught an exception, and where it was lost no more is said.
LEMMA RevCaught ==
    ASSUME RevInv, revLost' = TRUE, NEW stack \in Seq(RevFrames), NEW frame \in RevFrames,
           revStack' = Append(stack, frame),
           revTree' \in RevVersionSet, revTells' \in RevDiffs, revMade' \in [RevKinds -> Nat],
           RevWhole', revStatus' = "running",
           UNCHANGED <<revSaved, revVerified, revShown, revJudged>>
    PROVE RevInv'
<1>1. revStack' \in Seq(RevFrames) /\ revStack' # <<>>
  BY RevAppended
<1> QED
  BY <1>1 DEF RevInv, RevTypeOK, RevRuns, ShownIsJudged, RepairsAreBounded

\* Of calls there is an innermost one.
LEMMA RevLatest ==
    ASSUME NEW n \in Nat, NEW S \in SUBSET (1..n), S # {}
    PROVE \E c \in S : \A d \in S : d <= c
<1> DEFINE T == {m \in Nat : n - m \in S}
<1>1. PICK c \in S : c \in 1..n
  OBVIOUS
<1>2. n - c \in Nat /\ n - (n - c) = c
  BY <1>1
<1>3. T \subseteq Nat /\ T # {}
  BY <1>1, <1>2
<1>4. PICK x \in T : \A y \in T : ~(<<y, x>> \in OpToRel(<, Nat))
  BY <1>3, NatLessThanWellFounded, WFMin
<1>5. \A y \in T : ~(y < x)
  BY <1>3, <1>4 DEF OpToRel
<1>6. x \in Nat /\ n - x \in S
  BY <1>4
<1>7. \A d \in S : d <= n - x
  <2> SUFFICES ASSUME NEW d \in S PROVE d <= n - x
    OBVIOUS
  <2>1. d \in Int /\ d <= n /\ n - d \in Nat /\ n - (n - d) = d
    OBVIOUS
  <2>2. n - d \in T
    BY <2>1
  <2>3. ~(n - d < x)
    BY <1>5, <2>2
  <2> QED
    BY <1>6, <2>1, <2>3
<1> QED
  BY <1>6, <1>7

LEMMA RevRaises ==
    ASSUME RevInv, Raises
    PROVE RevInv'
<1>1. revStatus = "running" /\ revShown' = revShown
  BY DEF Raises
<1>2. revStack \in Seq(RevFrames) /\ revStack # <<>>
  BY <1>1, RevInner
<1>3. PICK n \in 0..Len(revStack) : PropagatesFrom(n)
  <2>1. Len(revStack) \in Nat /\ Len(revStack) # 0
    BY <1>2
  <2>2. Len(revStack) \in 0..Len(revStack) /\ Len(revStack) - 1 \in 0..Len(revStack)
    BY <2>1
  <2> QED
    BY <2>2 DEF Raises
<1>4. CASE Catchers(n) = {}
  <2>1. Ends("raised")
    BY <1>3, <1>4 DEF PropagatesFrom
  <2> QED
    BY <1>1, <2>1, RevEnding DEF RevEnds
<1>5. CASE Catchers(n) # {}
  <2> DEFINE k == CHOOSE c \in Catchers(n) : \A d \in Catchers(n) : d <= c
  <2> DEFINE frame == revStack[k]
  <2>1. IF frame.at = "runtime"
        THEN Ends("failed")
        ELSE /\ revStack' = Append(SubSeq(revStack, 1, k - 1),
                                   [frame EXCEPT !.at = "runtime",
                                                 !.st.done = @ \cup {"semantic"}])
             /\ revLost' = TRUE
             /\ UNCHANGED <<revSaved, revTree, revTells, revVerified, revStatus, revJudged, revMade>>
    BY <1>3, <1>5 DEF PropagatesFrom
  <2>2. k \in Catchers(n)
    <3>1. n \in Nat /\ Catchers(n) \in SUBSET (1..n)
      BY <1>2 DEF Catchers
    <3>2. \E c \in Catchers(n) : \A d \in Catchers(n) : d <= c
      BY <1>5, <3>1, RevLatest
    <3> QED
      BY <3>2
  <2>3. k \in 1..Len(revStack)
    BY <1>2, <2>2 DEF Catchers
  <2> HIDE DEF k
  <2>4. frame \in RevFrames /\ k - 1 \in Nat /\ k - 1 <= Len(revStack)
    BY <1>2, <2>3
  <2>5. SubSeq(revStack, 1, k - 1) \in Seq(RevFrames)
    BY <1>2, <2>3
  <2>6. CASE frame.at = "runtime"
    <3>1. Ends("failed")
      BY <2>1, <2>6
    <3> QED
      BY <1>1, <3>1, RevEnding DEF RevEnds
  <2>7. CASE frame.at # "runtime"
    <3> DEFINE next == [frame EXCEPT !.at = "runtime", !.st.done = @ \cup {"semantic"}]
    <3>1. next \in RevFrames
      BY <2>4, RevLosing
    <3>2. /\ revTree \in RevVersionSet /\ revTells \in RevDiffs
          /\ revMade \in [RevKinds -> Nat] /\ RevWhole
      BY DEF RevInv, RevTypeOK
    <3>3. /\ revStack' = Append(SubSeq(revStack, 1, k - 1), next)
          /\ revLost' = TRUE
          /\ UNCHANGED <<revSaved, revTree, revTells, revVerified, revStatus, revJudged, revMade>>
      BY <2>1, <2>7
    <3>4. RevWhole'
      BY <3>2, <3>3 DEF RevWhole
    <3> HIDE DEF next, frame
    <3> QED
      BY <1>1, <2>5, <3>1, <3>2, <3>3, <3>4, RevCaught
  <2> QED
    BY <2>6, <2>7
<1> QED
  BY <1>4, <1>5

LEMMA RevSemanticRaises ==
    ASSUME RevInv, SemanticRepairRaises
    PROVE RevInv'
<1>1. revStatus = "running" /\ revTree < RevVersions
  BY DEF SemanticRepairRaises, Fresh, At, MayRepair
<1>2. revTree' \in RevVersionSet /\ revTells' \in RevDiffs
  <2>1. revTells' \in TellsOf("semantic") /\ revTree' = revTree + 1
    BY DEF SemanticRepairRaises
  <2> QED
    BY <1>1, <2>1, RevTold DEF RevKinds
<1>3. revMade' \in [RevKinds -> Nat] /\ RevWhole'
  <2>1. revMade \in [RevKinds -> Nat] /\ revMade["semantic"] + 1 \in Nat \ {0}
    BY DEF RevInv, RevTypeOK, RevKinds
  <2>2. revMade' = [revMade EXCEPT !["semantic"] = @ + 1]
    BY DEF SemanticRepairRaises
  <2>3. revMade' \in [RevKinds -> Nat] /\ revMade'["semantic"] # 0
    BY <2>1, <2>2 DEF RevKinds
  <2> QED
    BY <2>3 DEF RevWhole, Reaching
<1> DEFINE next == [Inner EXCEPT !.at = "runtime", !.st.done = @ \cup {"semantic"}]
<1>4. next \in RevFrames
  BY <1>1, RevInner, RevLosing
<1>5. revStack' = [revStack EXCEPT ![Len(revStack)] = next]
  BY DEF SemanticRepairRaises, Replaced
<1> HIDE DEF next
<1>6. revStack' \in Seq(RevFrames) /\ revStack' # <<>>
  BY <1>1, <1>4, <1>5, RevInner, RevReplaced
<1>7. revLost' = TRUE /\ revStatus' = "running"
      /\ UNCHANGED <<revSaved, revVerified, revShown, revJudged>>
  BY <1>1 DEF SemanticRepairRaises
<1> QED
  BY <1>2, <1>3, <1>6, <1>7
     DEF RevInv, RevTypeOK, RevRuns, ShownIsJudged, RepairsAreBounded

LEMMA RevKeeps == RevInv /\ [RevNext]_revVars => RevInv'
<1> SUFFICES ASSUME RevInv, [RevNext]_revVars PROVE RevInv'
  OBVIOUS
<1>1. CASE UNCHANGED revVars
  BY <1>1 DEF revVars, RevInv, RevTypeOK, RevRuns, RevWhole, ShownIsJudged, RepairsAreBounded,
              Inner, RevHeld, RevSeen
<1>2. CASE \E g \in RevGateSet \ {"conformance"} : Cached(g)
  BY <1>2, RevPassesOver
<1>3. CASE \/ CompilePass \/ AcceptancePass \/ SemanticPass \/ RuntimePass \/ ReviewPass
           \/ ConformancePass \/ GoalsPass \/ ArtifactPass \/ EvidencePass
  BY <1>3, RevPassing
<1>4. CASE QualityRefine \/ SemanticRepair \/ RuntimeRepair \/ ConformanceRetry \/ ReservationRepair
  <2>1. revStatus = "running"
    BY <1>4 DEF QualityRefine, SemanticRepair, RuntimeRepair, ConformanceRetry, ReservationRepair,
                Fresh, At
  <2>2. PICK kind \in RevKinds : Repair(kind)
    BY <1>4 DEF QualityRefine, SemanticRepair, RuntimeRepair, ConformanceRetry, ReservationRepair,
                RevKinds
  <2> QED
    BY <2>1, <2>2, RevRepairs
<1>5. CASE \/ \E g \in RevGateSet \ {"conformance", "semantic"} : Blocks(g)
           \/ SemanticAsks \/ ConformanceBlocks \/ ReservationAsks \/ ReservationFails \/ JiraAsks
           \/ ApplyIsGated
  BY <1>5, RevEnded
<1>6. CASE AcceptanceRaises \/ Raises \/ SemanticRepairRaises
  BY <1>6, RevAccepts, RevRaises, RevSemanticRaises
<1> QED
  BY <1>1, <1>2, <1>3, <1>4, <1>5, <1>6 DEF RevNext

LEMMA RevSound == RevInv => RevTypeOK /\ ShownIsJudged /\ RepairsAreBounded
BY DEF RevInv

LEMMA RevAlways ==
    RevInit /\ [][RevNext]_revVars => [](RevTypeOK /\ ShownIsJudged /\ RepairsAreBounded)
BY RevStarts, RevKeeps, RevSound, PTL

-----------------------------------------------------------------------------
(* The workspace (TaskWorkspace).  There is one attempt: its index is kept with the first code,    *)
(* in the state and in the checkpoint.  A verdict of the gate is in no checkpoint a job resumes,   *)
(* and is dropped with the code it was about.                                                       *)

WsDisks == [intent : {"none", "request", "issue"}, rows : Changes,
            diffs : [1..MaxAttempts -> Changes]]
WsCountings == [faults : 0..MaxWsFaults, deaths : 0..MaxWsDeaths, made : 0..MaxAttempts]

\* The one attempt has the first directory.
WsIndexed ==
    wsAt # "swept" =>
        \/ /\ wsState.index = 0 /\ wsRow.state.index = 0
           /\ \A n \in 1..MaxAttempts : wsDisk.diffs[n] = {}
        \/ wsState.index = 1 /\ wsRow.state.index = 1

\* There is code from the compiler on.
WsShown == {"compile", "cap", "gate", "ask", "approval", "released"}
WsCoded ==
    /\ wsAt \in WsShown => wsState.diff # {}
    /\ wsRow.stage \in {"codegen", "compile"} => wsRow.state.diff # {}

\* Nobody resumes what the gate has passed.
WsJudged ==
    /\ wsState.validated =>
           wsAt \notin {"intake", "translate", "context", "plan", "codegen", "compile", "cap"}
    /\ wsRow.state.validated => wsRow.stage = "awaiting_approval"
    /\ wsAt = "resume" => wsState = wsRow.state

WsBacked ==
    wsAt \in {"ask", "approval", "released"} \/ (wsAt = "gate" /\ wsState.validated) =>
       /\ wsDisk.intent = "issue" /\ wsState.diff # {}
       /\ wsState.diff \subseteq wsDisk.rows \cup wsState.backing

\* Without a fault the directory has what the job has.
WsSame ==
    wsCounts.faults = 0 /\ wsCounts.deaths = 0 =>
        /\ wsAt \notin {"no_intent", "resume"}
        /\ wsAt \in WsShown \cup {"plan", "codegen"} => wsDisk.intent = "issue"
        /\ wsAt \in WsShown => wsState.index = 1 /\ wsDisk.diffs[1] = wsState.diff

WsInv == WsTypeOK /\ WsIndexed /\ WsCoded /\ WsJudged /\ WsBacked /\ WsSame

\* What the types say of the parts.
LEMMA WsParts ==
    ASSUME WsTypeOK
    PROVE /\ wsDisk \in WsDisks /\ wsDisk.rows \in Changes
          /\ wsDisk.diffs \in [1..MaxAttempts -> Changes]
          /\ wsIssue.named \in Changes /\ wsIssue.new \in Changes
          /\ wsState \in States /\ wsRow.state \in States /\ wsRow.stage \in WsStages
          /\ wsState.index \in 0..MaxAttempts /\ wsState.diff \in Changes
          /\ wsState.validated \in BOOLEAN /\ wsRow.state.validated \in BOOLEAN
          /\ wsCounts \in WsCountings /\ wsCounts.faults \in 0..MaxWsFaults
          /\ wsCounts.deaths \in 0..MaxWsDeaths /\ wsCounts.made \in 0..MaxAttempts
BY DEF WsTypeOK, WsDisks, WsCountings, States

LEMMA WsFirst == 1 \in 1..MaxAttempts /\ 1 \in 0..MaxAttempts /\ 0 \in 0..MaxAttempts
BY WorkspaceAssumption

LEMMA WsNews ==
    /\ NewState \in States /\ NewState.index = 0 /\ NewState.validated = FALSE
    /\ NoDisk \in WsDisks /\ \A n \in 1..MaxAttempts : NoDisk.diffs[n] = {}
<1>1. NewState \in States
  BY WsFirst DEF NewState, States, Changes
<1>2. [n \in 1..MaxAttempts |-> {}] \in [1..MaxAttempts -> Changes]
  BY DEF Changes
<1>3. NoDisk \in WsDisks
  BY <1>2 DEF NoDisk, WsDisks, Changes
<1> QED
  BY <1>1, <1>3 DEF NewState, NoDisk

\* A write succeeds, or it is counted as failed.
LEMMA WsWrites ==
    ASSUME WsTypeOK, NEW disk \in WsDisks, Writes(disk)
    PROVE /\ wsDisk' \in WsDisks /\ wsCounts' \in WsCountings
          /\ wsCounts'.deaths = wsCounts.deaths /\ wsCounts'.made = wsCounts.made
          /\ \/ wsDisk' = disk /\ wsCounts' = wsCounts
             \/ wsDisk' = wsDisk /\ wsCounts'.faults > 0
<1>1. CASE wsDisk' = disk /\ UNCHANGED wsCounts
  BY <1>1, WsParts
<1>2. CASE /\ wsCounts.faults < MaxWsFaults /\ UNCHANGED wsDisk
           /\ wsCounts' = [wsCounts EXCEPT !.faults = @ + 1]
  <2> DEFINE n == wsCounts.faults + 1
  <2>1. n \in 0..MaxWsFaults /\ n > 0
    BY <1>2, WsParts, WorkspaceAssumption
  <2>2. wsCounts' = [wsCounts EXCEPT !.faults = n]
    BY <1>2
  <2> HIDE DEF n
  <2>3. wsCounts' \in WsCountings /\ wsCounts'.faults = n
        /\ wsCounts'.deaths = wsCounts.deaths /\ wsCounts'.made = wsCounts.made
    BY <2>1, <2>2, WsParts DEF WsCountings
  <2> QED
    BY <1>2, <2>1, <2>3, WsParts
<1> QED
  BY <1>1, <1>2 DEF Writes

\* A directory with another intent, more evidence, or another diff, is one.
LEMMA WsIntent ==
    ASSUME NEW disk \in WsDisks, NEW intent \in {"none", "request", "issue"}
    PROVE /\ [disk EXCEPT !.intent = intent] \in WsDisks
          /\ [disk EXCEPT !.intent = intent].intent = intent
          /\ [disk EXCEPT !.intent = intent].diffs = disk.diffs
BY DEF WsDisks

LEMMA WsEvidence ==
    ASSUME NEW disk \in WsDisks, NEW files \in Changes
    PROVE /\ WithEvidence(disk, files) \in WsDisks
          /\ WithEvidence(disk, files).intent = disk.intent
          /\ WithEvidence(disk, files).diffs = disk.diffs
<1> DEFINE r == disk.rows \cup files
<1>1. r \in Changes
  BY DEF Changes, WsDisks
<1>2. WithEvidence(disk, files) = [disk EXCEPT !.rows = r]
  BY DEF WithEvidence
<1> HIDE DEF r
<1> QED
  BY <1>1, <1>2 DEF WsDisks

LEMMA WsDiff ==
    ASSUME NEW disk \in WsDisks, NEW diff \in Changes
    PROVE /\ [disk EXCEPT !.diffs[1] = diff] \in WsDisks
          /\ [disk EXCEPT !.diffs[1] = diff].intent = disk.intent
          /\ [disk EXCEPT !.diffs[1] = diff].rows = disk.rows
          /\ [disk EXCEPT !.diffs[1] = diff].diffs[1] = diff
<1> DEFINE d == [disk.diffs EXCEPT ![1] = diff]
<1>1. d \in [1..MaxAttempts -> Changes] /\ d[1] = diff
  BY WsFirst DEF WsDisks
<1>2. [disk EXCEPT !.diffs[1] = diff] = [disk EXCEPT !.diffs = d]
  BY DEF WsDisks
<1> HIDE DEF d
<1> QED
  BY <1>1, <1>2 DEF WsDisks

\* The index of the attempt is the first.
LEMMA WsIndex ==
    ASSUME WsTypeOK, WsIndexed, wsAt # "swept"
    PROVE AttemptIndex(wsState) = 1
<1>1. CASE wsState.index = 1
  BY <1>1 DEF AttemptIndex
<1>2. CASE wsState.index = 0 /\ \A n \in 1..MaxAttempts : wsDisk.diffs[n] = {}
  <2>1. Attempts(wsDisk) = {}
    BY <1>2 DEF Attempts
  <2>2. Cardinality(Attempts(wsDisk)) = 0
    BY <2>1, FS_EmptySet
  <2> QED
    BY <1>2, <2>2 DEF AttemptIndex
<1> QED
  BY <1>1, <1>2 DEF WsIndexed

LEMMA WsStarts == WsInit => WsInv
<1> SUFFICES ASSUME WsInit PROVE WsInv
  OBVIOUS
<1>1. WsTypeOK
  <2>1. wsCounts \in [faults : 0..MaxWsFaults, deaths : 0..MaxWsDeaths, made : 0..MaxAttempts]
    BY WorkspaceAssumption DEF WsInit
  <2>2. wsRow \in [stage : WsStages, state : States]
    BY WsNews DEF WsInit, WsStages
  <2> QED
    BY <2>1, <2>2, WsNews DEF WsInit, WsTypeOK, WsRunning, WsDisks
<1>2. wsRow.stage = "intake" /\ wsRow.state = NewState /\ wsState = NewState /\ wsAt = "intake"
  BY DEF WsInit
<1> QED
  BY <1>1, <1>2, WsNews DEF WsInit, WsInv, WsIndexed, WsCoded, WsJudged, WsBacked, WsSame, WsShown

\* What there is to show of a step's types.
LEMMA WsTypes ==
    ASSUME WsTypeOK, wsIssue' = wsIssue, wsKnown' \in BOOLEAN,
           wsAt' \in WsRunning \cup WsOver \cup {"resume", "cap", "approval", "swept"},
           wsDisk' \in WsDisks, wsCounts' \in WsCountings, wsState' \in States,
           \/ wsRow' = wsRow
           \/ \E stage \in WsStages : wsRow' = [stage |-> stage, state |-> wsState']
    PROVE WsTypeOK'
<1>1. wsRow' \in [stage : WsStages, state : States]
  BY DEF WsTypeOK
<1> QED
  BY <1>1 DEF WsTypeOK, WsDisks, WsCountings

\* Up to the plan the job has no code, and writes evidence.
WsFirstSteps == {"intake", "translate", "context", "plan"}

LEMMA WsPrepares ==
    ASSUME WsInv, WriteIntent \/ WsTranslate \/ ReadIssue \/ ReadIssueAgain \/ MakePlan
    PROVE WsInv'
<1>0. WsTypeOK /\ WsIndexed /\ WsCoded /\ WsJudged /\ WsBacked /\ WsSame
  BY DEF WsInv
<1>1. /\ wsAt \in WsFirstSteps /\ wsAt' \in {"translate", "context", "plan", "codegen"}
      /\ wsState' = wsState /\ wsIssue' = wsIssue /\ wsKnown' \in BOOLEAN
      /\ \E stage \in {"intake", "translate", "retrieve", "plan"} :
             wsRow' = [stage |-> stage, state |-> wsState']
  <2>1. wsKnown \in BOOLEAN
    BY <1>0 DEF WsTypeOK
  <2>2. wsKnown' \in BOOLEAN
    BY <2>1 DEF WriteIntent, WsTranslate, ReadIssue, ReadIssueAgain, MakePlan, WsKeepsTask
  <2> QED
    BY <2>2 DEF WriteIntent, WsTranslate, ReadIssue, ReadIssueAgain, MakePlan, WsKeepsTask, WsGo,
                WsCheckpoint, WsFirstSteps
<1>2. /\ wsDisk' \in WsDisks /\ wsCounts' \in WsCountings /\ wsDisk'.diffs = wsDisk.diffs
      /\ wsCounts'.deaths = wsCounts.deaths
      /\ wsCounts'.faults = 0 => wsCounts.faults = 0
      /\ wsCounts'.faults = 0 /\ wsCounts'.deaths = 0 /\ wsAt' \in {"plan", "codegen"} =>
             wsDisk'.intent = "issue"
  <2>0. wsDisk \in WsDisks /\ wsCounts \in WsCountings /\ wsCounts.deaths \in 0..MaxWsDeaths
        /\ wsIssue.named \in Changes
    BY <1>0, WsParts
  <2>1. CASE WriteIntent
    <3> DEFINE disk == [wsDisk EXCEPT !.intent = "request"]
    <3>1. disk \in WsDisks /\ disk.diffs = wsDisk.diffs
      BY <2>0, WsIntent
    <3>2. Writes(disk) /\ wsAt' = "translate"
      BY <2>1 DEF WriteIntent, WsGo
    <3> HIDE DEF disk
    <3> QED
      BY <1>0, <2>0, <3>1, <3>2, WsWrites
  <2>2. CASE WsTranslate
    BY <2>0, <2>2 DEF WsTranslate, WsGo
  <2>3. CASE ReadIssue
    <3>1. PICK found \in Changes :
            Writes(Prefetched(WithEvidence([wsDisk EXCEPT !.intent = "issue"], wsIssue.named),
                              found))
      BY <2>3 DEF ReadIssue
    <3> DEFINE d == [wsDisk EXCEPT !.intent = "issue"]
    <3> DEFINE e == WithEvidence(d, wsIssue.named)
    <3> DEFINE disk == Prefetched(e, found)
    <3>2. d \in WsDisks /\ d.diffs = wsDisk.diffs /\ d.intent = "issue"
      BY <2>0, WsIntent
    <3> HIDE DEF d
    <3>3. e \in WsDisks /\ e.diffs = wsDisk.diffs /\ e.intent = "issue"
      BY <2>0, <3>2, WsEvidence
    <3> HIDE DEF e
    <3>4. disk \in WsDisks /\ disk.diffs = wsDisk.diffs /\ disk.intent = "issue"
      BY <3>3, WsEvidence DEF Prefetched
    <3>5. Writes(disk)
      BY <3>1 DEF d, e
    <3> HIDE DEF disk
    <3> QED
      BY <1>0, <2>0, <3>4, <3>5, WsWrites
  <2>4. CASE ReadIssueAgain
    <3>1. PICK found \in Changes : Writes(WithEvidence(wsDisk, found))
      BY <2>4 DEF ReadIssueAgain
    <3> DEFINE disk == WithEvidence(wsDisk, found)
    <3>2. disk \in WsDisks /\ disk.diffs = wsDisk.diffs
      BY <2>0, WsEvidence
    <3>3. Writes(disk) /\ wsCounts.deaths > 0
      BY <2>4, <3>1 DEF ReadIssueAgain
    <3> HIDE DEF disk
    <3> QED
      BY <1>0, <2>0, <3>2, <3>3, WsWrites
  <2>5. CASE MakePlan
    BY <1>0, <2>0, <2>5 DEF MakePlan, WsGo, WsSame
  <2> QED
    BY <2>1, <2>2, <2>3, <2>4, <2>5
<1>3. PICK stage \in {"intake", "translate", "retrieve", "plan"} :
        wsRow' = [stage |-> stage, state |-> wsState']
  BY <1>1
<1>4. wsRow'.stage = stage /\ wsRow'.state = wsState
  BY <1>1, <1>3
<1>5. WsTypeOK'
  <2>1. stage \in WsStages /\ wsState \in States
    BY <1>0, WsParts DEF WsStages
  <2> QED
    BY <1>0, <1>1, <1>2, <1>3, <2>1, WsTypes DEF WsRunning
<1>6. WsIndexed'
  BY <1>0, <1>1, <1>2, <1>4 DEF WsIndexed, WsFirstSteps
<1>7. WsCoded' /\ WsJudged' /\ WsBacked'
  BY <1>0, <1>1, <1>4 DEF WsCoded, WsJudged, WsBacked, WsFirstSteps, WsShown
<1>8. WsSame'
  BY <1>0, <1>1, <1>2 DEF WsSame, WsFirstSteps, WsShown
<1> QED
  BY <1>5, <1>6, <1>7, <1>8 DEF WsInv

\* The diff of the state is replaced, in the directory of the first attempt too.
LEMMA WsShows ==
    ASSUME WsInv, wsAt # "swept", NEW diff \in Changes, Shows(diff)
    PROVE /\ wsState' = [wsState EXCEPT !.diff = diff, !.index = 1]
          /\ wsDisk' \in WsDisks /\ wsCounts' \in WsCountings
          /\ wsDisk'.intent = wsDisk.intent /\ wsDisk'.rows = wsDisk.rows
          /\ wsCounts'.deaths = wsCounts.deaths
          /\ \/ wsDisk'.diffs[1] = diff /\ wsCounts' = wsCounts
             \/ wsCounts'.faults > 0
<1>0. WsTypeOK /\ WsIndexed
  BY DEF WsInv
<1>1. AttemptIndex(wsState) = 1
  BY <1>0, WsIndex
<1> DEFINE disk == [wsDisk EXCEPT !.diffs[1] = diff]
<1>2. /\ disk \in WsDisks /\ disk.intent = wsDisk.intent /\ disk.rows = wsDisk.rows
      /\ disk.diffs[1] = diff
  BY <1>0, WsParts, WsDiff
<1>3. Writes(disk) /\ wsState' = [wsState EXCEPT !.diff = diff, !.index = 1]
  BY <1>1 DEF Shows
<1> HIDE DEF disk
<1> QED
  BY <1>0, <1>2, <1>3, WsWrites

\* A state with another diff, of the first attempt, is one.
LEMMA WsStateSets ==
    ASSUME NEW s \in States, NEW diff \in Changes
    PROVE LET t == [s EXCEPT !.diff = diff, !.index = 1]
          IN  t \in States /\ t.diff = diff /\ t.index = 1 /\ t.validated = s.validated
BY WsFirst DEF States

LEMMA WsGenerates ==
    ASSUME WsInv, Generate
    PROVE WsInv'
<1>0. WsTypeOK /\ WsIndexed /\ WsCoded /\ WsJudged /\ WsBacked /\ WsSame
  BY DEF WsInv
<1>1. /\ wsAt = "codegen" /\ wsAt' = "compile" /\ wsIssue' = wsIssue /\ wsKnown' = wsKnown
      /\ wsCounts.made < MaxAttempts /\ wsCounts' = [wsCounts EXCEPT !.made = @ + 1]
      /\ wsRow' = [stage |-> "codegen", state |-> wsState']
  BY DEF Generate, WsGo, WsKeepsTask, WsCheckpoint
<1>2. AttemptIndex(wsState) = 1
  BY <1>0, <1>1, WsIndex
<1>3. PICK diff \in Changes \ {{}} :
        /\ wsState' = [wsState EXCEPT !.diff = diff, !.index = 1]
        /\ wsDisk' = [wsDisk EXCEPT !.diffs[1] = diff]
  BY <1>2 DEF Generate
<1>4. /\ wsState' \in States /\ wsState'.diff = diff /\ wsState'.index = 1
      /\ wsState'.validated = wsState.validated
  BY <1>0, <1>3, WsParts, WsStateSets
<1>5. wsDisk' \in WsDisks /\ wsDisk'.intent = wsDisk.intent /\ wsDisk'.diffs[1] = diff
  BY <1>0, <1>3, WsParts, WsDiff
<1>6. /\ wsCounts' \in WsCountings /\ wsCounts'.faults = wsCounts.faults
      /\ wsCounts'.deaths = wsCounts.deaths
  <2> DEFINE n == wsCounts.made + 1
  <2>1. n \in 0..MaxAttempts
    BY <1>0, <1>1, WsParts, WorkspaceAssumption
  <2>2. wsCounts' = [wsCounts EXCEPT !.made = n]
    BY <1>1
  <2> HIDE DEF n
  <2> QED
    BY <1>0, <2>1, <2>2, WsParts DEF WsCountings
<1>7. WsTypeOK'
  BY <1>0, <1>1, <1>4, <1>5, <1>6, WsTypes DEF WsRunning, WsStages, WsTypeOK
<1>8. wsRow'.stage = "codegen" /\ wsRow'.state = wsState'
  BY <1>1
<1>9. WsIndexed' /\ WsCoded' /\ WsJudged' /\ WsBacked'
  BY <1>0, <1>1, <1>4, <1>8 DEF WsIndexed, WsCoded, WsJudged, WsBacked, WsShown
<1>10. WsSame'
  BY <1>0, <1>1, <1>4, <1>5, <1>6 DEF WsSame
<1> QED
  BY <1>7, <1>9, <1>10 DEF WsInv

LEMMA WsCompiles ==
    ASSUME WsInv, CompilePasses
    PROVE WsInv'
<1>0. WsTypeOK /\ WsIndexed /\ WsCoded /\ WsJudged /\ WsBacked /\ WsSame
  BY DEF WsInv
<1>1. /\ wsAt = "compile" /\ wsAt' = "gate" /\ wsIssue' = wsIssue /\ wsKnown' = wsKnown
      /\ wsRow' = [stage |-> "compile", state |-> wsState']
  BY DEF CompilePasses, WsGo, WsKeepsTask, WsCheckpoint
<1>2. PICK diff \in Changes \ {{}} :
        IF diff = wsState.diff THEN UNCHANGED <<wsState, wsDisk, wsCounts>> ELSE Shows(diff)
  BY DEF CompilePasses
<1>3. /\ wsState' \in States /\ wsState'.diff = diff /\ wsState'.validated = FALSE
      /\ wsDisk' \in WsDisks /\ wsDisk'.intent = wsDisk.intent
      /\ wsCounts' \in WsCountings /\ wsCounts'.deaths = wsCounts.deaths
      /\ \/ UNCHANGED <<wsState, wsDisk, wsCounts>>
         \/ /\ wsState'.index = 1
            /\ (wsDisk'.diffs[1] = diff /\ wsCounts' = wsCounts) \/ wsCounts'.faults > 0
  <2>0. wsState \in States /\ wsDisk \in WsDisks /\ wsCounts \in WsCountings
        /\ wsState.validated = FALSE
    BY <1>0, <1>1, WsParts DEF WsJudged
  <2>1. CASE diff = wsState.diff
    <3>1. UNCHANGED <<wsState, wsDisk, wsCounts>>
      BY <1>2, <2>1
    <3> QED
      BY <2>0, <2>1, <3>1
  <2>2. CASE diff # wsState.diff
    <3>1. Shows(diff) /\ wsAt # "swept"
      BY <1>1, <1>2, <2>2
    <3>2. wsState' = [wsState EXCEPT !.diff = diff, !.index = 1]
      BY <3>1, WsShows
    <3>3. wsState' \in States /\ wsState'.diff = diff /\ wsState'.validated = FALSE
          /\ wsState'.index = 1
      BY <2>0, <3>2, WsStateSets
    <3> QED
      BY <3>1, <3>3, WsShows
  <2> QED
    BY <2>1, <2>2
<1>4. WsTypeOK'
  BY <1>0, <1>1, <1>3, WsTypes DEF WsRunning, WsStages, WsTypeOK
<1>5. wsRow'.stage = "compile" /\ wsRow'.state = wsState'
  BY <1>1
<1>6. WsIndexed'
  BY <1>0, <1>1, <1>3, <1>5 DEF WsIndexed
<1>7. WsCoded' /\ WsJudged' /\ WsBacked'
  BY <1>0, <1>1, <1>3, <1>5 DEF WsCoded, WsJudged, WsBacked, WsShown
<1>8. WsSame'
  BY <1>0, <1>1, <1>3 DEF WsSame, WsShown
<1> QED
  BY <1>4, <1>6, <1>7, <1>8 DEF WsInv

\* The cap and its grant, a retry, and the grant of the release: flags, and code that is dropped.
LEMMA WsMarks ==
    ASSUME WsInv, CapExceeded \/ GrantCap \/ WsRetry \/ GrantJira
    PROVE WsInv'
<1>0. WsTypeOK /\ WsIndexed /\ WsCoded /\ WsJudged /\ WsBacked /\ WsSame
  BY DEF WsInv
<1>1. wsState \in States /\ wsDisk \in WsDisks /\ wsCounts \in WsCountings
  BY <1>0, WsParts
<1>2. wsIssue' = wsIssue /\ wsKnown' = wsKnown /\ wsDisk' = wsDisk /\ wsCounts' = wsCounts
  BY DEF CapExceeded, GrantCap, WsRetry, GrantJira, WsKeepsTask
<1>3. wsState' \in States /\ wsState'.index = wsState.index /\ wsState'.backing = wsState.backing
  <2>1. {} \in Changes
    BY DEF Changes
  <2> QED
    BY <1>1, <2>1 DEF CapExceeded, GrantCap, WsRetry, GrantJira, States
<1>4. CASE CapExceeded
  <2>1. /\ wsAt = "compile" /\ wsAt' = "cap"
        /\ wsState'.diff = wsState.diff /\ wsState'.validated = FALSE
        /\ wsRow' = [stage |-> "awaiting_approval", state |-> wsState']
    BY <1>0, <1>1, <1>4 DEF CapExceeded, WsGo, WsCheckpoint, States, WsJudged
  <2>2. wsRow'.stage = "awaiting_approval" /\ wsRow'.state = wsState'
    BY <2>1
  <2>3. WsTypeOK'
    BY <1>0, <1>1, <1>2, <1>3, <2>1, WsTypes DEF WsTypeOK, WsStages
  <2>4. WsIndexed' /\ WsCoded' /\ WsJudged' /\ WsBacked'
    BY <1>0, <1>2, <1>3, <2>1, <2>2 DEF WsIndexed, WsCoded, WsJudged, WsBacked, WsShown
  <2>5. WsSame'
    BY <1>0, <1>2, <1>3, <2>1 DEF WsSame, WsShown
  <2> QED
    BY <2>3, <2>4, <2>5 DEF WsInv
<1>5. CASE GrantCap \/ WsRetry \/ GrantJira
  <2>1. /\ wsRow' = wsRow
        /\ \/ /\ wsAt = "cap" /\ wsAt' = "compile" /\ wsState'.diff = wsState.diff
              /\ wsState'.validated = FALSE
           \/ wsAt = "gate" /\ wsAt' = "codegen" /\ wsState'.validated = FALSE
           \/ wsAt = "approval" /\ wsAt' = "gate" /\ wsState'.diff = wsState.diff
    BY <1>1, <1>5 DEF GrantCap, WsRetry, GrantJira, WsGo, States
  <2>2. WsTypeOK'
    BY <1>0, <1>1, <1>2, <1>3, <2>1, WsTypes DEF WsTypeOK, WsRunning
  <2>3. WsIndexed' /\ WsCoded' /\ WsJudged' /\ WsBacked'
    BY <1>0, <1>2, <1>3, <2>1 DEF WsIndexed, WsCoded, WsJudged, WsBacked, WsShown
  <2>4. WsSame'
    BY <1>0, <1>2, <1>3, <2>1 DEF WsSame, WsShown
  <2> QED
    BY <2>2, <2>3, <2>4 DEF WsInv
<1> QED
  BY <1>4, <1>5

\* What the gate says, and that it said it.
LEMMA WsGates ==
    ASSUME WsInv, GateRefuses \/ ClaimsRefuse \/ AttestationRefuses \/ GateCloses
    PROVE WsInv'
<1>0. WsTypeOK /\ WsIndexed /\ WsCoded /\ WsJudged /\ WsBacked /\ WsSame
  BY DEF WsInv
<1>1. /\ wsState \in States /\ wsDisk \in WsDisks /\ wsCounts \in WsCountings
      /\ wsState.diff \in Changes /\ wsIssue.new \in Changes
  BY <1>0, WsParts
<1>2. PICK verdict \in {"no_intent", "weak", "untracked", "claims", "mismatch", "ask"},
           excused \in Changes :
        /\ GateDecides(verdict, excused)
        /\ verdict = "no_intent" => wsDisk.intent # "issue"
        /\ verdict = "ask" => wsDisk.intent = "issue" /\ Untracked(excused) = {}
  <2>1. \A attested \in Changes : Excused(attested) \in Changes
    BY <1>1 DEF Excused, Changes
  <2>2. {} \in Changes /\ \A attested \in SUBSET wsState.diff : attested \in Changes
    BY <1>1 DEF Changes
  <2>3. CASE GateRefuses
    BY <2>1, <2>2, <2>3 DEF GateRefuses, IntentMissing
  <2>4. CASE ClaimsRefuse
    BY <2>2, <2>4 DEF ClaimsRefuse
  <2>5. CASE AttestationRefuses
    BY <2>1, <2>5 DEF AttestationRefuses
  <2>6. CASE GateCloses
    BY <2>1, <2>2, <2>6 DEF GateCloses, IntentMissing
  <2> QED
    BY <2>3, <2>4, <2>5, <2>6
<1>3. /\ wsAt = "gate" /\ wsAt' = verdict
      /\ wsState' = [wsState EXCEPT !.validated = TRUE, !.backing = excused]
      /\ UNCHANGED <<wsDisk, wsRow, wsCounts, wsIssue, wsKnown>>
  BY <1>2 DEF GateDecides, WsKeepsTask
<1>4. /\ wsState' \in States /\ wsState'.index = wsState.index /\ wsState'.diff = wsState.diff
      /\ wsState'.backing = excused
  BY <1>1, <1>3 DEF States
<1>5. verdict = "ask" => /\ wsDisk.intent = "issue"
                         /\ wsState.diff \subseteq wsDisk.rows \cup excused
  BY <1>2 DEF Untracked
<1>6. WsTypeOK'
  BY <1>0, <1>1, <1>3, <1>4, WsTypes DEF WsTypeOK, WsRunning, WsOver
<1>7. WsIndexed' /\ WsCoded' /\ WsJudged'
  BY <1>0, <1>3, <1>4 DEF WsIndexed, WsCoded, WsJudged, WsShown
<1>8. WsBacked'
  BY <1>0, <1>3, <1>4, <1>5 DEF WsBacked, WsCoded, WsShown
<1>9. WsSame'
  BY <1>0, <1>2, <1>3, <1>4 DEF WsSame, WsShown
<1> QED
  BY <1>6, <1>7, <1>8, <1>9 DEF WsInv

\* The job goes on with what it has, to the approval, the release or its failure.
LEMMA WsGoesOn ==
    ASSUME WsInv, GateSkipped \/ AskJira \/ Release \/ WsFails
    PROVE WsInv'
<1>0. WsTypeOK /\ WsIndexed /\ WsCoded /\ WsJudged /\ WsBacked /\ WsSame
  BY DEF WsInv
<1>1. wsState \in States /\ wsDisk \in WsDisks /\ wsCounts \in WsCountings
  BY <1>0, WsParts
<1>2. /\ UNCHANGED <<wsState, wsDisk, wsCounts, wsIssue, wsKnown>>
      /\ \/ wsAt = "gate" /\ wsState.validated /\ wsAt' = "ask" /\ wsRow' = wsRow
         \/ /\ wsAt = "ask" /\ wsAt' = "approval"
            /\ wsRow' = [stage |-> "awaiting_approval", state |-> wsState']
         \/ wsAt = "ask" /\ wsAt' = "released" /\ wsRow' = wsRow
         \/ wsAt \in WsRunning /\ wsAt' = "failed" /\ wsRow' = wsRow
  BY DEF GateSkipped, AskJira, Release, WsFails, WsGo, WsCheckpoint, WsKeepsTask
<1>3. WsTypeOK'
  BY <1>0, <1>1, <1>2, WsTypes DEF WsTypeOK, WsRunning, WsOver, WsStages
<1>4. CASE wsRow' = wsRow
  <2>1. WsIndexed' /\ WsCoded' /\ WsJudged' /\ WsBacked'
    BY <1>0, <1>2, <1>4 DEF WsIndexed, WsCoded, WsJudged, WsBacked, WsShown, WsRunning
  <2>2. WsSame'
    BY <1>0, <1>2, <1>4 DEF WsSame, WsShown
  <2> QED
    BY <1>3, <2>1, <2>2 DEF WsInv
<1>5. CASE wsRow' = [stage |-> "awaiting_approval", state |-> wsState'] /\ wsAt' = "approval"
             /\ wsAt = "ask"
  <2>1. wsRow'.stage = "awaiting_approval" /\ wsRow'.state = wsState'
    BY <1>5
  <2>2. WsIndexed' /\ WsCoded' /\ WsJudged' /\ WsBacked'
    BY <1>0, <1>2, <1>5, <2>1 DEF WsIndexed, WsCoded, WsJudged, WsBacked, WsShown
  <2>3. WsSame'
    BY <1>0, <1>2, <1>5 DEF WsSame, WsShown
  <2> QED
    BY <1>3, <2>2, <2>3 DEF WsInv
<1> QED
  BY <1>2, <1>4, <1>5

\* The state of the checkpoint is put back, and the job goes where it can do without the rest.
LEMMA WsRestarts ==
    ASSUME WsInv, WsDie \/ WsResume
    PROVE WsInv'
<1>0. WsTypeOK /\ WsIndexed /\ WsCoded /\ WsJudged /\ WsBacked /\ WsSame
  BY DEF WsInv
<1>1. /\ wsState \in States /\ wsDisk \in WsDisks /\ wsCounts \in WsCountings
      /\ wsRow.state \in States /\ wsRow.stage \in WsStages
      /\ wsCounts.deaths \in 0..MaxWsDeaths
  BY <1>0, WsParts
<1>2. UNCHANGED <<wsDisk, wsRow, wsIssue, wsKnown>>
  BY DEF WsDie, WsResume, WsKeepsTask
<1>3. CASE WsDie
  <2>1. wsAt # "swept" /\ wsAt' = "resume" /\ wsState' = wsRow.state
    BY <1>3 DEF WsDie, WsRunning
  <2>2. wsCounts' \in WsCountings /\ wsCounts'.deaths > 0
    <3> DEFINE n == wsCounts.deaths + 1
    <3>1. n \in 0..MaxWsDeaths /\ n > 0
      BY <1>1, <1>3, WorkspaceAssumption DEF WsDie
    <3>2. wsCounts' = [wsCounts EXCEPT !.deaths = n]
      BY <1>3 DEF WsDie
    <3> HIDE DEF n
    <3> QED
      BY <1>1, <3>1, <3>2 DEF WsCountings
  <2>3. WsTypeOK'
    BY <1>0, <1>1, <1>2, <2>1, <2>2, WsTypes DEF WsTypeOK
  <2>4. WsIndexed' /\ WsCoded' /\ WsJudged' /\ WsBacked'
    BY <1>0, <1>2, <2>1 DEF WsIndexed, WsCoded, WsJudged, WsBacked, WsShown
  <2>5. WsSame'
    BY <1>1, <2>2 DEF WsSame
  <2> QED
    BY <2>3, <2>4, <2>5 DEF WsInv
<1>4. CASE WsResume
  <2>1. /\ wsAt = "resume" /\ wsState' = wsState /\ wsCounts' = wsCounts
        /\ wsAt' = WsResumesAt[wsRow.stage] /\ wsState = wsRow.state
    BY <1>0, <1>4 DEF WsResume, WsJudged
  <2>2. \/ wsAt' \in {"translate", "context", "plan", "codegen"}
             /\ wsRow.stage # "awaiting_approval"
        \/ wsRow.stage \in {"codegen", "compile"} /\ wsAt' \in {"compile", "gate"}
        \/ wsRow.stage = "awaiting_approval" /\ wsAt' = "failed"
    BY <1>1, <2>1 DEF WsResumesAt, WsStages
  <2>3. WsTypeOK'
    BY <1>0, <1>1, <1>2, <2>1, <2>2, WsTypes DEF WsTypeOK, WsRunning, WsOver
  <2>4. WsIndexed' /\ WsCoded' /\ WsJudged' /\ WsBacked'
    BY <1>0, <1>2, <2>1, <2>2 DEF WsIndexed, WsCoded, WsJudged, WsBacked, WsShown
  <2>5. WsSame'
    BY <1>0, <2>1 DEF WsSame
  <2> QED
    BY <2>3, <2>4, <2>5 DEF WsInv
<1> QED
  BY <1>3, <1>4

LEMMA WsSweeps ==
    ASSUME WsInv, Sweep
    PROVE WsInv'
<1>0. WsTypeOK /\ WsCoded /\ WsJudged
  BY DEF WsInv
<1>1. wsState \in States /\ wsCounts \in WsCountings
  BY <1>0, WsParts
<1>2. wsAt' = "swept" /\ wsDisk' = NoDisk
      /\ UNCHANGED <<wsRow, wsState, wsCounts, wsIssue, wsKnown>>
  BY DEF Sweep, WsKeepsTask
<1>3. WsTypeOK'
  BY <1>0, <1>1, <1>2, WsTypes, WsNews DEF WsTypeOK
<1> QED
  BY <1>0, <1>2, <1>3 DEF WsInv, WsIndexed, WsCoded, WsJudged, WsBacked, WsSame, WsShown

LEMMA WsKeeps == WsInv /\ [WsNext]_wsVars => WsInv'
<1> SUFFICES ASSUME WsInv, [WsNext]_wsVars PROVE WsInv'
  OBVIOUS
<1>1. CASE UNCHANGED wsVars
  BY <1>1 DEF wsVars, WsInv, WsTypeOK, WsIndexed, WsCoded, WsJudged, WsBacked, WsSame
<1> QED
  BY <1>1, WsPrepares, WsGenerates, WsCompiles, WsMarks, WsGates, WsGoesOn, WsRestarts, WsSweeps
     DEF WsNext, WsStep

LEMMA WsSound == WsInv => WsTypeOK /\ AskedIsBacked
<1> SUFFICES ASSUME WsInv PROVE WsTypeOK /\ AskedIsBacked
  OBVIOUS
<1>0. WsTypeOK /\ WsBacked /\ WsSame
  BY DEF WsInv
<1>1. DiffIsBacked
  BY <1>0 DEF WsBacked, DiffIsBacked
<1>2. AttemptIsShown
  BY <1>0 DEF WsSame, WsShown, AttemptIsShown
<1>3. RefusedForReason
  BY <1>0, WsParts DEF WsSame, RefusedForReason
<1> QED
  BY <1>0, <1>1, <1>2, <1>3 DEF AskedIsBacked

LEMMA WsAlways == WsInit /\ [][WsNext]_wsVars => [](WsTypeOK /\ AskedIsBacked)
BY WsStarts, WsKeeps, WsSound, PTL

-----------------------------------------------------------------------------
(* The stages together (MCStages).  They share no variable and a step is one of the component in  *)
(* focus, so that what each component keeps alone it keeps among the others.                       *)

LEMMA StagesBegin ==
    StagesInit => /\ PlnInit /\ BatInit /\ GenInit /\ CliInit /\ AdInit /\ AgInit /\ RepairInit
                  /\ RevInit /\ WsInit
BY DEF StagesInit

\* A step of the stages is for each component one of its own, or leaves it where it is.
LEMMA StagesGo ==
    [StagesNext]_stagesVars =>
        /\ [PlnNext]_plnVars /\ [BatNext]_batVars /\ [GenNext]_genVars /\ [CliNext]_cliVars
        /\ [AdNext]_adVars /\ [AgNext]_agVars /\ [RepairNext]_repairVars /\ [RevNext]_revVars
        /\ [WsNext]_wsVars
<1>1. CASE UNCHANGED stagesVars
  BY <1>1 DEF stagesVars
<1>2. CASE StagesNext
  BY <1>2 DEF StagesNext, OthersStay
<1> QED
  BY <1>1, <1>2

\* A behaviour of the stages is one of each component.
LEMMA StagesAreComponents ==
    StagesSpec =>
        /\ PlnInit /\ [][PlnNext]_plnVars
        /\ BatInit /\ [][BatNext]_batVars
        /\ GenInit /\ [][GenNext]_genVars
        /\ CliInit /\ [][CliNext]_cliVars
        /\ AdInit /\ [][AdNext]_adVars
        /\ AgInit /\ [][AgNext]_agVars
        /\ RepairInit /\ [][RepairNext]_repairVars
        /\ RevInit /\ [][RevNext]_revVars
        /\ WsInit /\ [][WsNext]_wsVars
BY StagesBegin, StagesGo, PTL DEF StagesSpec

\* What each component keeps, it keeps among the others.
LEMMA StagesKeep ==
    StagesSpec =>
        /\ [](PlnTypeOK /\ PlanIsReviewed)
        /\ [](BatTypeOK /\ PatchedIsMerged /\ NoStrayCall)
        /\ [](GenTypeOK /\ ReturnedIsChecked /\ CallsAreBounded)
        /\ [](CliTypeOK /\ LastTryOnly /\ WorkIsReturned /\ NothingLeft)
        /\ [](AdTypeOK /\ AppliesToOriginal /\ EditsAddUp)
        /\ [](AgTypeOK /\ TurnsAlternate /\ QuotaHolds)
        /\ [](RepairTypeOK /\ PassedCompiles /\ RepairsAreNamed /\ StuckIsUnrepaired)
        /\ [](RevTypeOK /\ ShownIsJudged /\ RepairsAreBounded)
        /\ [](WsTypeOK /\ AskedIsBacked)
BY StagesAreComponents, PlnAlways, BatAlways, GenAlways, CliAlways, AdAlways, AgAlways, RepAlways,
   RevAlways, WsAlways, PTL

\* Every component keeps its types: its phases and rows, the counters of attempts, repairs, turns
\* and deaths within what the settings allow, the texts and diffs within the files there are.
THEOREM StagesTypesCorrect == StagesSpec => []StagesTypeOK
BY StagesKeep, PTL DEF StagesTypeOK

\* A plan that is carried out was approved by the reviewer, or granted by a person who was shown it,
\* was made for an issue that was read, keeps its contracts and has something to edit, whatever the
\* planner answers and however often the job dies on the way (bootstrap_task, resume_task,
\* resume_after_approval).
THEOREM PlanCorrect == StagesSpec => []PlanIsReviewed
BY StagesKeep, PTL

\* A patch is validated before a generator returns it (CodegenService.generate_patch), by a call that
\* asks a bounded number of times, and what the stage records as patched is in the merged diff,
\* whichever of the three ways the results came; within its deadline it leaves no call behind.
THEOREM PatchesCorrect == StagesSpec => []PatchesAreChecked
BY StagesKeep, PTL DEF PatchesAreChecked

\* An answer is taken whole and once, whichever way a model gives it: the diff of a command-line agent
\* is the work of its last attempt and no worktree is left (_call_claude_code), blocks apply to the
\* files on disk and their lengths add up (_parse_response_aider), and the turns of the loop alternate
\* within the quota of each tool (services/agent_loop.py).
THEOREM AnswersCorrect == StagesSpec => []AnswersAreKept
BY StagesKeep, PTL DEF AnswersAreKept

\* A compile gate that has passed has a change that compiles and names what the repairs wrote
\* (_run_compile_repair_loop), and an operator is shown all that git diff tells of code that compiles, judged
\* as shown by every gate whose result each repair drops, the repairs being within their budgets, as
\* long as no exception is lost (_execute_develop_pipeline).
THEOREM JudgedCorrect == StagesSpec => []RepairsAreJudged
BY StagesKeep, PTL DEF RepairsAreJudged

\* Every file of a diff an operator is asked about is backed by the manifest, the attestation or the
\* plan, through repairs, failed writes and deaths; without the last two the directory of the attempt
\* holds that diff, and no task is refused for an intent that was read (services/task_workspace.py).
THEOREM AskedCorrect == StagesSpec => []AskedIsBacked
BY StagesKeep, PTL
=============================================================================
