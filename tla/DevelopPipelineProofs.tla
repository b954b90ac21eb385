------------------------ MODULE DevelopPipelineProofs ------------------------
(***************************************************************************)
(* Theorems about the develop pipeline, for any budgets, bounds and        *)
(* settings: its variables keep their types; no pass returns without an    *)
(* approval or an end (the evidence gate's early return); and, when only   *)
(* the Jira approval is in use, the pipeline implements JiraRelease.       *)
(*                                                                         *)
(* First what the helpers of DevelopPipeline make of a pipeline_state,     *)
(* then the types, which need to know where the diff of pipeline_state may *)
(* be a partial one, then the flag compile_repair_cap_exceeded, then what  *)
(* JiraRelease sees of each step.                                          *)
(***************************************************************************)
EXTENDS DevelopPipeline, TLAPS

-----------------------------------------------------------------------------
(* Constants.                                                              *)

LEMMA Stages ==
    Running = {"codegen", "coverage", "scope", "apply", "patched", "record", "retry", "tests",
               "shape", "compile", "feature", "acceptance", "symbols", "semantic", "runtime",
               "review", "conformance", "failing_test", "goals", "artifact", "evidence", "jira",
               "transition", "writeback", "finish"}
BY DEF After, Running

LEMMA NextStage == \A stage \in Running : After[stage] \in Running \cup {"completed"}
BY Stages DEF After

LEMMA GateFacts ==
   /\ CachedGates \subseteq Cached /\ Cached \subseteq Running
   /\ "retry" \in Cached
   /\ CachedGates \subseteq Gates /\ "conformance" \in Gates
   /\ {"compile", "feature", "acceptance", "semantic", "evidence"} \subseteq CachedGates
BY Stages DEF CachedGates, TreeGates, StateGates, LocalGates, Cached, Gates

LEMMA PlaceFacts ==
   /\ Running \cup Repairing \cup Ended \cup {"waiting", "down"} = Places
   /\ Ended = {"completed", "failed", "returned", "orphaned"}
   /\ Repairing = {"refine_patched", "semantic_patched", "runtime_patched", "reservation_patched"}
   /\ \A kind \in RepairKinds : Patched[kind] \in Repairing
BY DEF Places, Ended, Repairing, Patched, RepairKinds

LEMMA KindFacts ==
   /\ RetryKinds \subseteq Kinds /\ RepairKinds \subseteq Kinds
   /\ {"coverage", "scope", "conformance"} \subseteq Kinds
BY DEF Kinds, RetryKinds

LEMMA NumberFacts ==
    /\ Versions \subseteq Diffs /\ 0 \in Versions
    /\ \A version \in Versions : Partial(version) \in Diffs
    /\ edits \in Versions /\ MayEdit => NewVersion \in Versions
BY BoundsNat DEF Versions, Diffs, Partial, MayEdit, NewVersion

-----------------------------------------------------------------------------
(* What the helpers make of a pipeline_state.                              *)

LEMMA NoStateTyped == NoState \in StateType
BY NumberFacts DEF NoState, StateType

LEMMA StateUpdates ==
    ASSUME NEW s \in StateType
    PROVE /\ \A diff \in Diffs : [s EXCEPT !.diff = diff] \in StateType
          /\ \A diff \in Diffs : [s EXCEPT !.diff = diff, !.result = diff] \in StateType
          /\ \A version \in Versions : [s EXCEPT !.base = version] \in StateType
          /\ [s EXCEPT !.applied = TRUE] \in StateType
          /\ [s EXCEPT !.applied = FALSE] \in StateType
          /\ \A done \in SUBSET Cached : [s EXCEPT !.done = done] \in StateType
          /\ \A pending \in SUBSET Questions : [s EXCEPT !.pending = pending] \in StateType
          /\ \A spent \in [Kinds -> Nat] : [s EXCEPT !.spent = spent] \in StateType
BY DEF StateType

LEMMA SpentUpdate ==
    ASSUME NEW s \in StateType, NEW kind \in Kinds
    PROVE [s EXCEPT !.spent[kind] = @ + 1] \in StateType
<1>1. s.spent \in [Kinds -> Nat]
  BY DEF StateType
<1>2. [s.spent EXCEPT ![kind] = @ + 1] \in [Kinds -> Nat]
  BY <1>1
<1> QED BY <1>2, StateUpdates

LEMMA RetryTyped ==
    ASSUME ps \in StateType
    PROVE /\ RetryState \in StateType
          /\ \A kind \in Kinds : [RetryState EXCEPT !.spent[kind] = @ + 1] \in StateType
<1>1. RetryState \in StateType
  <2> DEFINE counted == [ps.spent EXCEPT !["conformance"] = @ + 1]
  <2>1. /\ ps.done \ RetryDrops \in SUBSET Cached
        /\ ps.pending \ {"conflict"} \in SUBSET Questions
        /\ 0 \in Diffs
    BY NumberFacts DEF StateType
  <2>2. counted \in [Kinds -> Nat]
    BY KindFacts DEF StateType
  <2>3. RetryState = [ps EXCEPT !.diff = 0, !.result = 0, !.applied = FALSE,
                                !.done = ps.done \ RetryDrops, !.pending = ps.pending \ {"conflict"}, !.spent = counted]
    BY DEF RetryState, StateType
  <2> HIDE DEF counted
  <2> QED BY <2>1, <2>2, <2>3 DEF StateType
<1> QED BY <1>1, SpentUpdate

LEMMA RefreshedTyped ==
    ASSUME NEW s \in StateType, tree \in Versions, shows \in [Versions -> Diffs]
    PROVE Refreshed(s) \in StateType
<1>1. shows[tree] \in Diffs /\ Partial(tree) \in Diffs
  BY NumberFacts
<1> QED BY <1>1, StateUpdates DEF Refreshed

LEMMA DoneTyped ==
    ASSUME ps \in StateType
    PROVE \A gate \in Cached : Done(gate) \in StateType
<1>1. \A gate \in Cached : ps.done \cup {gate} \in SUBSET Cached
  BY DEF StateType
<1> QED BY <1>1, StateUpdates DEF Done

LEMMA RepairTyped ==
    ASSUME ps \in StateType, tree \in Versions, shows \in [Versions -> Diffs], NEW kind \in Kinds
    PROVE Refreshed([ps EXCEPT !.done = @ \ RepairDrops, !.spent[kind] = @ + 1]) \in StateType
<1> DEFINE dropped == [ps EXCEPT !.done = @ \ RepairDrops]
<1>1. ps.done \ RepairDrops \in SUBSET Cached
  BY DEF StateType
<1>2. dropped \in StateType
  BY <1>1, StateUpdates
<1>3. [dropped EXCEPT !.spent[kind] = @ + 1] \in StateType
  BY <1>2, SpentUpdate
<1>4. dropped.spent = ps.spent
  BY DEF StateType
<1>5. [ps EXCEPT !.done = @ \ RepairDrops, !.spent[kind] = @ + 1] \in StateType
  BY <1>3, <1>4
<1> QED BY <1>5, RefreshedTyped

LEMMA AnswerTyped ==
    ASSUME ps \in StateType, NEW question
    PROVE Answer(question) \in StateType
<1>1. CompileGranted \in StateType
  BY DEF CompileGranted, StateType
<1>2. [ps EXCEPT !.pending = @ \ {"semantic"},
                 !.done = (@ \cup {"semantic"}) \ {"evidence"}] \in StateType
  BY GateFacts DEF StateType
<1>3. [ps EXCEPT !.pending = @ \ {"reservation"}, !.acked = TRUE] \in StateType
  BY DEF StateType
<1>4. [ps EXCEPT !.pending = @ \ {"jira"}, !.granted = TRUE] \in StateType
  BY DEF StateType
<1> QED BY <1>1, <1>2, <1>3, <1>4 DEF Answer

\* An edit makes a version, and tells a diff of it.
LEMMA ChangedTyped ==
    ASSUME TypeOK, NEW widely, Changed(widely)
    PROVE tree' \in Versions /\ edits' \in Versions /\ shows' \in [Versions -> Diffs]
<1>1. NewVersion \in Versions /\ NewVersion \in Diffs /\ Partial(NewVersion) \in Diffs
  BY NumberFacts DEF Changed, TypeOK
<1>2. shows[tree] \in Diffs
  BY DEF TypeOK
<1>3. Told(widely) \subseteq Diffs
  BY <1>1, <1>2 DEF Told
<1> QED BY <1>1, <1>3 DEF Changed, TypeOK

LEMMA SeesTyped ==
    ASSUME TypeOK
    PROVE \A gate : Sees(gate) \in Diffs
<1>1. tree \in Diffs /\ 0 \in Diffs /\ local \in Diffs
  BY NumberFacts DEF TypeOK
<1>2. ps.diff \in Diffs
  BY DEF TypeOK, StateType
<1> QED BY <1>1, <1>2 DEF Sees

-----------------------------------------------------------------------------
(* Ways on.                                                                *)

LEMMA SkipTyped ==
    ASSUME pc \in Running, Skip
    PROVE pc' \in Places /\ pc' # "waiting"
<1>1. pc' \in Running \cup {"completed"}
  BY NextStage DEF Skip
<1> QED BY <1>1, Stages, PlaceFacts

LEMMA NewPassTyped ==
    ASSUME NEW state \in StateType, NewPass(state)
    PROVE /\ pc' \in Places /\ pc' # "waiting" /\ ps' \in StateType
          /\ local' \in Diffs /\ generated' \in BOOLEAN /\ round' \in 0 .. MaxRounds
<1>1. "codegen" \in Places
  BY Stages, PlaceFacts
<1>2. 0 \in Diffs /\ 0 \in 0 .. MaxRounds
  BY NumberFacts, BoundsNat
<1> QED BY <1>1, <1>2 DEF NewPass

LEMMA CheckpointTyped ==
    ASSUME NEW stage \in CheckpointStages, NEW s \in StateType, NEW version \in Versions
    PROVE Checkpoint(stage, s, version)
            \in [stage : CheckpointStages, ps : StateType, snap : Versions]
BY DEF Checkpoint

-----------------------------------------------------------------------------
(* Types.  The sandbox holds a version and never half of one.  That is not *)
(* clear where a patch is applied: a diff refreshed from the sandbox is    *)
(* relative to the commit before its patch, and must not be applied to a   *)
(* fresh clone.  It is not, because it is refreshed only where the patch   *)
(* is recorded, and what forgets that record forgets the diff as well or   *)
(* goes back to a checkpoint from before the refresh.                      *)

WaitingAsks == pc = "waiting" => approval.question \in Questions

Unpatched == {"codegen", "coverage", "scope", "apply", "patched", "record"}

WholeDiff ==
    /\ ps.applied \/ ps.result \in Versions
    /\ pc \in (Running \ Unpatched) \cup Repairing => ps.applied
    /\ pc \in {"patched", "record"} => ~ps.applied
    /\ pc \in {"coverage", "scope", "apply"} => ps.applied \/ local \in Versions
    /\ ckpt.ps.applied \/ ckpt.ps.result \in Versions
    /\ ckpt.stage = "codegen" => ckpt.ps.result \in Versions

TypeInv == TypeOK /\ WaitingAsks

LEMMA InitTyped == Init => TypeInv
<1> SUFFICES ASSUME Init PROVE TypeInv
  OBVIOUS
<1>1. "codegen" \in Places /\ "waiting" \in Places
  BY Stages, PlaceFacts
<1>2. {"review_pre", "awaiting_approval"} \subseteq CheckpointStages /\ "plan" \in Questions
  BY DEF CheckpointStages, Questions
<1>3. crashes \in 0 .. MaxCrashes /\ round \in 0 .. MaxRounds
  BY BoundsNat DEF Init
<1>4. ckpt \in [stage : CheckpointStages, ps : StateType, snap : Versions]
  BY <1>2, NoStateTyped, NumberFacts, CheckpointTyped DEF Init
<1>5. cleared \in [Gates -> Diffs]
  BY NumberFacts DEF Init
<1>6. shipped \in Seq([diff : Diffs, tree : Versions])
  BY DEF Init
<1>7. Asked("plan", NoState) = [question |-> "plan", diff |-> 0]
  BY DEF Asked, NoState
<1>8. approval \in [question : Questions \cup {"none"}, diff : Diffs] /\ WaitingAsks
   BY <1>2, <1>7, NumberFacts DEF Init, NoQuestion, WaitingAsks
<1> QED BY <1>1, <1>3, <1>4, <1>5, <1>6, <1>8, NoStateTyped, NumberFacts
   DEF Init, TypeInv, TypeOK

LEMMA FailTyped == ASSUME TypeInv, Fail PROVE TypeInv'
BY NoStateTyped, PlaceFacts
   DEF Fail, TypeInv, TypeOK, WaitingAsks, pass, sandbox, judgements, decisions

LEMMA ParkTyped ==
   ASSUME TypeInv, NEW state \in StateType, NEW question \in Questions, Park(question, state)
   PROVE TypeInv'
<1> DEFINE parked == [state EXCEPT !.pending = @ \cup {question}]
<1>1. parked \in StateType
  <2>1. state.pending \cup {question} \in SUBSET Questions
    BY DEF StateType
  <2> QED BY <2>1, StateUpdates
<1>2. Asked(question, parked) \in [question : Questions, diff : Diffs]
  BY <1>1 DEF Asked, StateType
<1>3. Checkpoint("awaiting_approval", parked, head)
        \in [stage : CheckpointStages, ps : StateType, snap : Versions]
  <2>1. "awaiting_approval" \in CheckpointStages
    BY DEF CheckpointStages
  <2> QED BY <1>1, <2>1, CheckpointTyped DEF TypeInv, TypeOK
<1> HIDE DEF parked
<1> QED BY <1>1, <1>2, <1>3, PlaceFacts
        DEF Park, parked, TypeInv, TypeOK, WaitingAsks, pass, sandbox, judgements

\* The record of a transition joins the others.
LEMMA SentTyped ==
    ASSUME TypeOK
    PROVE Append(shipped, [diff |-> ps.diff, tree |-> tree])
            \in Seq([diff : Diffs, tree : Versions])
<1>1. ps.diff \in Diffs /\ tree \in Versions
  BY DEF TypeOK, StateType
<1>2. [diff |-> ps.diff, tree |-> tree] \in [diff : Diffs, tree : Versions]
  BY <1>1
<1>3. shipped \in Seq([diff : Diffs, tree : Versions])
  BY DEF TypeOK
<1> HIDE DEF TypeOK
<1> QED BY <1>2, <1>3

LEMMA StepTyped ==
    ASSUME TypeInv, WholeDiff, [Next]_vars
    PROVE TypeInv'
<1>1. CASE FailStage
  BY <1>1, FailTyped DEF FailStage
<1>2. CASE ConformanceFailed
  BY <1>2, FailTyped DEF ConformanceFailed
<1>3. CASE AskConflict
  BY <1>3, ParkTyped DEF AskConflict, Questions, TypeInv, TypeOK
<1>4. CASE SemanticBlocked
  BY <1>4, ParkTyped DEF SemanticBlocked, Questions, TypeInv, TypeOK
<1>5. CASE AskReservation
  BY <1>5, ParkTyped DEF AskReservation, Questions, TypeInv, TypeOK
<1>6. CASE AskJira
  BY <1>6, ParkTyped DEF AskJira, Questions, TypeInv, TypeOK
<1>7. CASE CompileCapped
  <2>1. [ps EXCEPT !.cap = TRUE] \in StateType
    BY DEF TypeInv, TypeOK, StateType
  <2>2. "compile" \in Questions
    BY DEF Questions
  <2> QED BY <1>7, <2>1, <2>2, ParkTyped DEF CompileCapped
<1> USE DEF TypeInv, TypeOK, WaitingAsks, pass, sandbox, judgements, decisions
<1>8. CASE UNCHANGED vars
  BY <1>8 DEF vars
<1>9. CASE CodegenCached
  <2>1. ps.result \in Diffs
    BY DEF StateType
  <2> QED BY <1>9, <2>1, SkipTyped, Stages DEF CodegenCached
<1>10. CASE Codegen
  BY <1>10, SkipTyped, Stages, StateUpdates, NumberFacts, CheckpointTyped
     DEF Codegen, CheckpointStages
<1>11. CASE CoverageRetry
  BY <1>11, NewPassTyped, RetryTyped, KindFacts, NumberFacts DEF CoverageRetry, Retry
<1>12. CASE ScopeRetry
  BY <1>12, NewPassTyped, RetryTyped, KindFacts, NumberFacts DEF ScopeRetry, Retry
<1>13. CASE PassStage
  BY <1>13, SkipTyped, Stages DEF PassStage
<1>14. CASE SkipApply
  BY <1>14, Stages, PlaceFacts DEF SkipApply
<1>15. CASE Apply
  <2>1. "codegen" \in CheckpointStages
    BY DEF CheckpointStages
  <2>2. ps' \in StateType
    BY <1>15, StateUpdates DEF Apply
  <2>3. ckpt' \in [stage : CheckpointStages, ps : StateType, snap : Versions]
    BY <1>15, <2>1, <2>2, CheckpointTyped DEF Apply
  <2>4. tree' \in Versions /\ edits' \in Versions /\ shows' \in [Versions -> Diffs]
    BY <1>15, ChangedTyped DEF Apply, WholeDiff
  <2> QED BY <1>15, <2>2, <2>3, <2>4, SkipTyped, Stages DEF Apply
<1>16. CASE CommitPatch
  BY <1>16, SkipTyped, Stages DEF CommitPatch
<1>17. CASE RecordPatch
  BY <1>17, SkipTyped, Stages, StateUpdates, CheckpointTyped
     DEF RecordPatch, CheckpointStages
<1>18. CASE Complete
  <2>1. ps.done \cup {"retry"} \in SUBSET Cached
    BY GateFacts DEF StateType
  <2>2. ps' \in StateType
    BY <1>18, <2>1, StateUpdates DEF Complete
  <2>3. /\ tree' \in Versions /\ head' \in Versions /\ edits' \in Versions
        /\ shows' \in [Versions -> Diffs]
    BY <1>18, ChangedTyped DEF Complete, Edit, Changed
  <2> QED BY <1>18, <2>2, <2>3, SkipTyped, Stages DEF Complete
<1>19. CASE SkipGate
  BY <1>19, SkipTyped, GateFacts DEF SkipGate
<1>20. ASSUME NEW gate \in CachedGates, PassGate(gate) PROVE TypeInv'
  <2>1. "review_post" \in CheckpointStages
    BY DEF CheckpointStages
  <2>2. ps' \in StateType
    BY <1>20, GateFacts, DoneTyped DEF PassGate
  <2>3. ckpt' \in [stage : CheckpointStages, ps : StateType, snap : Versions]
    BY <1>20, <2>1, <2>2, CheckpointTyped DEF PassGate
  <2>4. cleared' \in [Gates -> Diffs]
    BY <1>20, SeesTyped, GateFacts DEF PassGate, Clear
  <2>5. pc' \in Places /\ pc' # "waiting"
    <3>1. gate = pc /\ gate \in Running
      BY <1>20, GateFacts DEF PassGate, Open
    <3>2. After[gate] \in Places /\ After[gate] # "waiting"
      BY <3>1, NextStage, Stages, PlaceFacts
    <3>3. "returned" \in Places
      BY PlaceFacts
    <3> QED BY <1>20, <3>2, <3>3 DEF PassGate
  <2> QED BY <1>20, <2>2, <2>3, <2>4, <2>5 DEF PassGate
<1>21. CASE CompileRepair
  <2>1. round' \in 0 .. MaxRounds
    BY <1>21, BoundsNat DEF CompileRepair
  <2>2. tree' \in Versions /\ edits' \in Versions /\ shows' \in [Versions -> Diffs]
    BY <1>21, ChangedTyped DEF CompileRepair
  <2> QED BY <1>21, <2>1, <2>2, Stages DEF CompileRepair, Open
<1>22. CASE CompilePassed
  <2>1. "compile" \in CheckpointStages
    BY DEF CheckpointStages
  <2>2. ps' \in StateType
    BY <1>22, GateFacts, DoneTyped, RefreshedTyped DEF CompilePassed
  <2>3. ckpt' \in [stage : CheckpointStages, ps : StateType, snap : Versions]
    BY <1>22, <2>1, <2>2, CheckpointTyped DEF CompilePassed
  <2>4. cleared' \in [Gates -> Diffs]
    BY <1>22, SeesTyped, GateFacts DEF CompilePassed, Clear
  <2> QED BY <1>22, <2>2, <2>3, <2>4, SkipTyped, Stages DEF CompilePassed, Open
<1>23. CASE CompileSkipped
  BY <1>23, SkipTyped, Stages, GateFacts, DoneTyped, CheckpointTyped
     DEF CompileSkipped, Open, CheckpointStages
<1>24. CASE FeatureRepair
  BY <1>24, SkipTyped, Stages, GateFacts, DoneTyped, StateUpdates, NumberFacts
     DEF FeatureRepair, Open
<1>25. CASE ConformancePassed
  <2>1. cleared' \in [Gates -> Diffs]
    BY <1>25, SeesTyped, GateFacts DEF ConformancePassed, Clear
  <2> QED BY <1>25, <2>1, SkipTyped, Stages DEF ConformancePassed
<1>26. CASE ConformanceRetry
  BY <1>26, NewPassTyped, RetryTyped, NumberFacts DEF ConformanceRetry, Retry
<1>27. ASSUME NEW kind \in RepairKinds, RepairApply(kind) PROVE TypeInv'
  BY <1>27, PlaceFacts, ChangedTyped DEF RepairApply, Edit, Changed
<1>28. ASSUME NEW kind \in RepairKinds, RepairRecord(kind) PROVE TypeInv'
  BY <1>28, RepairTyped, KindFacts, NewPassTyped DEF RepairRecord
<1>29. CASE SkipJira
  BY <1>29, SkipTyped, Stages DEF SkipJira
<1>30. CASE Transition
  <2>1. shipped' \in Seq([diff : Diffs, tree : Versions])
    BY <1>30, SentTyped DEF Transition
  <2>2. pc' \in Places /\ pc' # "waiting"
    BY <1>30, Stages, NextStage, PlaceFacts DEF Transition, After
  <2> QED BY <1>30, <2>1, <2>2 DEF Transition
<1>31. CASE RecordTransition
  BY <1>31, SkipTyped, Stages DEF RecordTransition, StateType
<1>32. CASE Finish
  BY <1>32, SkipTyped, Stages DEF Finish
<1>33. CASE Grant
  BY <1>33, NewPassTyped, AnswerTyped, NumberFacts DEF Grant, NoQuestion
<1>34. CASE Reject
  BY <1>34, PlaceFacts, NumberFacts DEF Reject, NoQuestion
<1>35. CASE HandEdit
  BY <1>35, ChangedTyped DEF HandEdit
<1>36. CASE Crash
  BY <1>36, PlaceFacts, BoundsNat DEF Crash
<1>37. CASE ResumeWaiting
  BY <1>37, PlaceFacts DEF ResumeWaiting
<1>38. CASE ResumeReview
  BY <1>38, NewPassTyped, NoStateTyped DEF ResumeReview
<1>39. CASE ResumeCodegen
  BY <1>39, NewPassTyped, StateUpdates DEF ResumeCodegen
<1>40. CASE ResumeGated
  BY <1>40, NewPassTyped DEF ResumeGated
<1> HIDE DEF TypeInv, TypeOK, WaitingAsks, pass, sandbox, judgements, decisions
<1> QED
    BY <1>1, <1>2, <1>3, <1>4, <1>5, <1>6, <1>7, <1>8, <1>9, <1>10, <1>11, <1>12, <1>13,
       <1>14, <1>15, <1>16, <1>17, <1>18, <1>19, <1>20, <1>21, <1>22, <1>23, <1>24,
       <1>25, <1>26, <1>27, <1>28, <1>29, <1>30, <1>31, <1>32, <1>33, <1>34, <1>35,
       <1>36, <1>37, <1>38, <1>39, <1>40
    DEF Next, PassStep, Operator, Environment

-----------------------------------------------------------------------------
(* What the pipeline_states the helpers make keep of the last one: whether *)
(* a patch is recorded, the diff, whether the compile repair is exhausted, *)
(* whether the Jira transition is granted and whether it is made.          *)

\* What no reset touches.
Kept(s, t) == (s.granted <=> t.granted) /\ (s.written <=> t.written)

LEMMA RetryFields ==
    ASSUME ps \in StateType
    PROVE /\ RetryState.result = 0 /\ ~RetryState.applied /\ (RetryState.cap <=> ps.cap)
          /\ Kept(RetryState, ps)
          /\ \A kind \in Kinds : LET s == [RetryState EXCEPT !.spent[kind] = @ + 1]
                                 IN  s.result = 0 /\ ~s.applied /\ (s.cap <=> ps.cap) /\ Kept(s, ps)
<1>1. /\ RetryState.result = 0 /\ ~RetryState.applied /\ (RetryState.cap <=> ps.cap)
      /\ Kept(RetryState, ps)
  BY DEF RetryState, StateType, Kept
<1>2. RetryState \in StateType
  BY RetryTyped
<1> QED BY <1>1, <1>2 DEF StateType, Kept

LEMMA RefreshedFields ==
    ASSUME NEW s \in StateType
    PROVE /\ (Refreshed(s).applied <=> s.applied) /\ (Refreshed(s).cap <=> s.cap)
          /\ Kept(Refreshed(s), s)
BY DEF Refreshed, StateType, Kept

LEMMA DoneFields ==
    ASSUME ps \in StateType, NEW gate
    PROVE /\ Done(gate).diff = ps.diff /\ Done(gate).result = ps.result
          /\ (Done(gate).applied <=> ps.applied)
          /\ (Done(gate).cap <=> ps.cap) /\ Kept(Done(gate), ps)
BY DEF Done, StateType, Kept

LEMMA RepairFields ==
    ASSUME ps \in StateType, NEW kind \in Kinds
    PROVE LET s == Refreshed([ps EXCEPT !.done = @ \ RepairDrops, !.spent[kind] = @ + 1])
          IN  (s.applied <=> ps.applied) /\ (s.cap <=> ps.cap) /\ Kept(s, ps)
<1> DEFINE dropped == [ps EXCEPT !.done = @ \ RepairDrops, !.spent[kind] = @ + 1]
<1>1. (dropped.applied <=> ps.applied) /\ (dropped.cap <=> ps.cap) /\ Kept(dropped, ps)
  BY DEF StateType, Kept
<1>2. Refreshed(dropped).applied <=> dropped.applied
  BY DEF Refreshed, StateType
<1>3. Refreshed(dropped).cap <=> dropped.cap
  BY DEF Refreshed, StateType
<1>4. Kept(Refreshed(dropped), dropped)
  BY DEF Refreshed, StateType, Kept
<1> QED BY <1>1, <1>2, <1>3, <1>4 DEF Kept

\* Only the answer to the Jira question, or one that is to no recorded question, grants.
LEMMA AnswerFields ==
    ASSUME ps \in StateType, NEW question
    PROVE /\ Answer(question).diff = ps.diff /\ Answer(question).result = ps.result
          /\ (Answer(question).applied <=> ps.applied)
          /\ Answer(question).cap => ps.cap /\ question # "compile"
          /\ Answer(question).written <=> ps.written
          /\ question = "jira" => Answer(question).granted
          /\ question \in {"compile", "semantic", "reservation"}
               => (Answer(question).granted <=> ps.granted)
<1>1. /\ CompileGranted.diff = ps.diff /\ CompileGranted.result = ps.result
      /\ (CompileGranted.applied <=> ps.applied)
      /\ ~CompileGranted.cap /\ Kept(CompileGranted, ps)
  BY DEF CompileGranted, StateType, Kept
<1>2. CASE question = "compile"
  BY <1>1, <1>2 DEF Answer, Kept
<1>3. CASE question = "semantic"
  BY <1>3 DEF Answer, StateType
<1>4. CASE question = "reservation"
  BY <1>4 DEF Answer, StateType
<1>5. CASE question \notin {"compile", "semantic", "reservation"}
  BY <1>5 DEF Answer, StateType
<1> QED BY <1>2, <1>3, <1>4, <1>5

LEMMA PlaceSplit ==
    /\ After["codegen"] = "coverage" /\ After["coverage"] = "scope" /\ After["scope"] = "apply"
    /\ After["apply"] = "patched" /\ After["patched"] = "record" /\ After["record"] = "retry"
    /\ "retry" \in Running \ Unpatched
    /\ \A stage \in Running \ Unpatched :
          After[stage] \in (Running \ Unpatched) \cup {"completed"}
    /\ Unpatched \subseteq Running /\ Unpatched \cap Repairing = {}
    /\ Cached \cap Unpatched = {}
    /\ (Ended \cup {"waiting", "down"}) \cap (Running \cup Repairing) = {}
<1>1. /\ After["codegen"] = "coverage" /\ After["coverage"] = "scope" /\ After["scope"] = "apply"
      /\ After["apply"] = "patched" /\ After["patched"] = "record" /\ After["record"] = "retry"
  BY DEF After
<1>2. \A stage \in Running \ Unpatched : After[stage] \in (Running \ Unpatched) \cup {"completed"}
  BY Stages DEF After, Unpatched
<1>3. Cached \cap Unpatched = {}
  BY DEF Cached, CachedGates, TreeGates, StateGates, LocalGates, Unpatched
<1> QED BY <1>1, <1>2, <1>3, Stages, PlaceFacts DEF Unpatched

LEMMA InitWhole == Init => WholeDiff
BY NumberFacts, Stages, PlaceFacts DEF Init, WholeDiff, NoState, Checkpoint, Unpatched

LEMMA StepWhole ==
    ASSUME TypeInv, WholeDiff, [Next]_vars
    PROVE WholeDiff'
<1> USE DEF WholeDiff, pass, sandbox, judgements, decisions
<1>1. CASE UNCHANGED vars
  BY <1>1 DEF vars
<1>2. CASE CodegenCached
  BY <1>2, PlaceSplit DEF CodegenCached, Skip, Unpatched
<1>3. CASE Codegen
  BY <1>3, PlaceSplit, NumberFacts
     DEF Codegen, Skip, Unpatched, Checkpoint, TypeInv, TypeOK, StateType
<1>4. CASE CoverageRetry
  BY <1>4, RetryFields, KindFacts, NumberFacts, PlaceSplit
     DEF CoverageRetry, Retry, NewPass, Unpatched, TypeInv, TypeOK
<1>5. CASE AskConflict
  BY <1>5, PlaceSplit DEF AskConflict, Park, Checkpoint, TypeInv, TypeOK, StateType, Ended
<1>6. CASE ScopeRetry
  BY <1>6, RetryFields, KindFacts, NumberFacts, PlaceSplit
     DEF ScopeRetry, Retry, NewPass, Unpatched, TypeInv, TypeOK
<1>7. CASE PassStage
  BY <1>7, PlaceSplit DEF PassStage, Skip, Unpatched
<1>8. CASE SkipApply
  BY <1>8, PlaceSplit DEF SkipApply, Unpatched
<1>9. CASE Apply
  BY <1>9, PlaceSplit DEF Apply, Skip, Unpatched, Checkpoint, TypeInv, TypeOK, StateType
<1>10. CASE CommitPatch
  BY <1>10, PlaceSplit DEF CommitPatch, Skip, Unpatched
<1>11. CASE RecordPatch
  BY <1>11, PlaceSplit
     DEF RecordPatch, Skip, Unpatched, Checkpoint, TypeInv, TypeOK, StateType
<1>12. CASE Complete
  BY <1>12, PlaceSplit DEF Complete, Skip, Unpatched, TypeInv, TypeOK, StateType
<1>13. CASE SkipGate
  BY <1>13, PlaceSplit, GateFacts DEF SkipGate, Skip, Unpatched
<1>14. CASE CompileRepair
  BY <1>14 DEF CompileRepair, Open
<1>15. CASE CompilePassed
  BY <1>15, PlaceSplit, DoneTyped, DoneFields, RefreshedFields, GateFacts
     DEF CompilePassed, Open, Skip, Checkpoint, Unpatched, TypeInv, TypeOK
<1>16. CASE CompileSkipped
  BY <1>16, PlaceSplit, DoneFields, GateFacts
     DEF CompileSkipped, Open, Skip, Checkpoint, Unpatched, TypeInv, TypeOK
<1>17. CASE CompileCapped
  BY <1>17, PlaceSplit
     DEF CompileCapped, Park, Checkpoint, TypeInv, TypeOK, StateType, Ended
<1>18. CASE FeatureRepair
  BY <1>18, PlaceSplit, DoneTyped, DoneFields, GateFacts, NumberFacts
     DEF FeatureRepair, Open, Skip, Unpatched, TypeInv, TypeOK, StateType
<1>19. CASE SemanticBlocked
  BY <1>19, PlaceSplit
     DEF SemanticBlocked, Park, Checkpoint, TypeInv, TypeOK, StateType, Ended
<1>20. CASE ConformancePassed
  BY <1>20, PlaceSplit, Stages DEF ConformancePassed, Skip, Unpatched
<1>21. CASE ConformanceRetry
  BY <1>21, RetryFields, KindFacts, NumberFacts, PlaceSplit
     DEF ConformanceRetry, Retry, NewPass, Unpatched, TypeInv, TypeOK
<1>22. CASE SkipJira
  BY <1>22, PlaceSplit, Stages DEF SkipJira, Skip, Unpatched
<1>23. CASE AskReservation
  BY <1>23, PlaceSplit
     DEF AskReservation, Park, Checkpoint, TypeInv, TypeOK, StateType, Ended
<1>24. CASE AskJira
  BY <1>24, PlaceSplit DEF AskJira, Park, Checkpoint, TypeInv, TypeOK, StateType, Ended
<1>25. CASE Transition
  BY <1>25, PlaceSplit, Stages DEF Transition, Unpatched
<1>26. CASE RecordTransition
  BY <1>26, PlaceSplit, Stages
     DEF RecordTransition, Skip, Unpatched, TypeInv, TypeOK, StateType
<1>27. CASE Finish
  BY <1>27, PlaceSplit, Stages DEF Finish, Skip, Unpatched
<1>28. CASE FailStage
  BY <1>28, PlaceSplit, NumberFacts DEF FailStage, Fail, NoState, Ended
<1>29. CASE ConformanceFailed
  BY <1>29, PlaceSplit, NumberFacts DEF ConformanceFailed, Fail, NoState, Ended
<1>30. CASE Grant
  BY <1>30, AnswerFields, PlaceSplit DEF Grant, NewPass, Unpatched, TypeInv, TypeOK
<1>31. CASE Reject
  BY <1>31, PlaceSplit DEF Reject, Ended
<1>32. CASE HandEdit
  BY <1>32 DEF HandEdit
<1>33. CASE Crash
  BY <1>33, PlaceSplit DEF Crash
<1>34. CASE ResumeWaiting
  BY <1>34, PlaceSplit DEF ResumeWaiting, Ended
<1>35. CASE ResumeReview
  BY <1>35, PlaceSplit, NumberFacts DEF ResumeReview, NewPass, NoState, Unpatched
<1>36. CASE ResumeCodegen
  <2> DEFINE unpatched == [ckpt.ps EXCEPT !.applied = FALSE]
  <2>1. unpatched.result = ckpt.ps.result /\ ~unpatched.applied
    BY DEF TypeInv, TypeOK, StateType
  <2>2. /\ ckpt.stage = "codegen" /\ ckpt' = ckpt /\ pc' = "codegen"
        /\ ps' \in {ckpt.ps, unpatched}
    BY <1>36 DEF ResumeCodegen, NewPass
  <2> QED BY <2>1, <2>2, PlaceSplit DEF Unpatched
<1>37. CASE ResumeGated
  BY <1>37, PlaceSplit DEF ResumeGated, NewPass, Unpatched
<1>38. ASSUME NEW gate \in CachedGates, PassGate(gate) PROVE WholeDiff'
  BY <1>38, PlaceSplit, DoneFields, GateFacts
     DEF PassGate, Open, Checkpoint, Unpatched, TypeInv, TypeOK, Ended
<1>39. ASSUME NEW kind \in RepairKinds, RepairApply(kind) PROVE WholeDiff'
  BY <1>39, PlaceSplit, PlaceFacts, Stages
     DEF RepairApply, Open, JiraGate, Unpatched, RepairStage, RepairKinds
<1>40. ASSUME NEW kind \in RepairKinds, RepairRecord(kind) PROVE WholeDiff'
  BY <1>40, PlaceSplit, PlaceFacts, RepairFields, KindFacts
     DEF RepairRecord, NewPass, Unpatched, TypeInv, TypeOK
<1> HIDE DEF WholeDiff, pass, sandbox, judgements, decisions
<1> QED
    BY <1>1, <1>2, <1>3, <1>4, <1>5, <1>6, <1>7, <1>8, <1>9, <1>10, <1>11, <1>12, <1>13,
       <1>14, <1>15, <1>16, <1>17, <1>18, <1>19, <1>20, <1>21, <1>22, <1>23, <1>24,
       <1>25, <1>26, <1>27, <1>28, <1>29, <1>30, <1>31, <1>32, <1>33, <1>34, <1>35,
       <1>36, <1>37, <1>38, <1>39, <1>40
    DEF Next, PassStep, Operator, Environment

-----------------------------------------------------------------------------
(* The exhausted compile repair.  A pass runs without                      *)
(* compile_repair_cap_exceeded: the compile gate that sets it parks the    *)
(* task behind a compile approval, whose grant clears it, and a checkpoint *)
(* that holds it is one that no restart continues from.                    *)

CapWaits ==
    /\ pc \notin {"waiting", "failed"} => ~ps.cap
    /\ pc = "waiting" /\ ps.cap => approval.question = "compile"
    /\ ckpt.stage # "awaiting_approval" => ~ckpt.ps.cap
    /\ pc # "returned"

LEMMA NoReturn == \A stage \in Running : After[stage] \notin {"waiting", "failed", "returned"}
<1>1. "waiting" \notin Running \cup {"completed"} /\ "failed" \notin Running \cup {"completed"}
      /\ "returned" \notin Running \cup {"completed"}
  BY Stages
<1> QED BY <1>1, NextStage

LEMMA InitCap == Init => CapWaits
BY DEF Init, CapWaits, NoState, Checkpoint

LEMMA StepCap ==
    ASSUME TypeInv, CapWaits, [Next]_vars
    PROVE CapWaits'
<1> USE DEF CapWaits, pass, sandbox, judgements, decisions
<1>1. CASE UNCHANGED vars
  BY <1>1 DEF vars
<1>2. CASE CodegenCached
  BY <1>2, NoReturn, Stages DEF CodegenCached, Skip
<1>3. CASE Codegen
  BY <1>3, NoReturn, Stages DEF Codegen, Skip, Checkpoint, TypeInv, TypeOK, StateType
<1>4. CASE CoverageRetry
  BY <1>4, RetryFields, KindFacts, Stages DEF CoverageRetry, Retry, NewPass, TypeInv, TypeOK
<1>5. CASE AskConflict
  BY <1>5 DEF AskConflict, Park, Checkpoint, Asked, TypeInv, TypeOK, StateType
<1>6. CASE ScopeRetry
  BY <1>6, RetryFields, KindFacts, Stages DEF ScopeRetry, Retry, NewPass, TypeInv, TypeOK
<1>7. CASE PassStage
  BY <1>7, NoReturn, Stages DEF PassStage, Skip
<1>8. CASE SkipApply
  BY <1>8 DEF SkipApply
<1>9. CASE Apply
  BY <1>9, NoReturn, Stages DEF Apply, Skip, Checkpoint, TypeInv, TypeOK, StateType
<1>10. CASE CommitPatch
  BY <1>10, NoReturn, Stages DEF CommitPatch, Skip
<1>11. CASE RecordPatch
  BY <1>11, NoReturn, Stages DEF RecordPatch, Skip, Checkpoint, TypeInv, TypeOK, StateType
<1>12. CASE Complete
  BY <1>12, NoReturn, Stages DEF Complete, Skip, TypeInv, TypeOK, StateType
<1>13. CASE SkipGate
  BY <1>13, NoReturn, Stages, GateFacts DEF SkipGate, Skip
<1>14. CASE CompileRepair
  BY <1>14 DEF CompileRepair, Open
<1>15. CASE CompilePassed
  BY <1>15, DoneTyped, DoneFields, RefreshedFields, GateFacts, NoReturn, Stages
     DEF CompilePassed, Open, Skip, Checkpoint, TypeInv, TypeOK
<1>16. CASE CompileSkipped
  BY <1>16, DoneFields, GateFacts, NoReturn, Stages
     DEF CompileSkipped, Open, Skip, Checkpoint, TypeInv, TypeOK
<1>17. CASE CompileCapped
  BY <1>17 DEF CompileCapped, Park, Checkpoint, Asked, TypeInv, TypeOK, StateType
<1>18. CASE FeatureRepair
  BY <1>18, DoneTyped, DoneFields, GateFacts, NoReturn, Stages
     DEF FeatureRepair, Open, Skip, TypeInv, TypeOK, StateType
<1>19. CASE SemanticBlocked
  BY <1>19 DEF SemanticBlocked, Open, Park, Checkpoint, Asked, TypeInv, TypeOK, StateType
<1>20. CASE ConformancePassed
  BY <1>20, NoReturn, Stages DEF ConformancePassed, Skip
<1>21. CASE ConformanceRetry
  BY <1>21, RetryFields DEF ConformanceRetry, Retry, NewPass, TypeInv, TypeOK
<1>22. CASE SkipJira
  BY <1>22, NoReturn, Stages DEF SkipJira, Skip
<1>23. CASE AskReservation
  BY <1>23 DEF AskReservation, JiraGate, Park, Checkpoint, Asked, TypeInv, TypeOK, StateType
<1>24. CASE AskJira
  BY <1>24 DEF AskJira, JiraGate, Park, Checkpoint, Asked, TypeInv, TypeOK, StateType
<1>25. CASE Transition
  BY <1>25, NoReturn, Stages DEF Transition
<1>26. CASE RecordTransition
  BY <1>26, NoReturn, Stages DEF RecordTransition, Skip, TypeInv, TypeOK, StateType
<1>27. CASE Finish
  BY <1>27, NoReturn, Stages DEF Finish, Skip
<1>28. CASE FailStage
  BY <1>28 DEF FailStage, Fail, NoState
<1>29. CASE ConformanceFailed
  BY <1>29 DEF ConformanceFailed, Fail, NoState
<1>30. CASE Grant
  BY <1>30, AnswerFields DEF Grant, NewPass, TypeInv, TypeOK
<1>31. CASE Reject
  BY <1>31 DEF Reject
<1>32. CASE HandEdit
  BY <1>32 DEF HandEdit
<1>33. CASE Crash
  BY <1>33, Stages, PlaceFacts DEF Crash
<1>34. CASE ResumeWaiting
  BY <1>34 DEF ResumeWaiting
<1>35. CASE ResumeReview
  BY <1>35 DEF ResumeReview, NewPass, NoState
<1>36. CASE ResumeCodegen
  BY <1>36 DEF ResumeCodegen, NewPass, TypeInv, TypeOK, StateType
<1>37. CASE ResumeGated
  BY <1>37 DEF ResumeGated, NewPass
<1>38. ASSUME NEW gate \in CachedGates, PassGate(gate) PROVE CapWaits'
  BY <1>38, DoneFields, GateFacts, NoReturn, Stages
     DEF PassGate, Open, Checkpoint, TypeInv, TypeOK
<1>39. ASSUME NEW kind \in RepairKinds, RepairApply(kind) PROVE CapWaits'
  BY <1>39, PlaceFacts, GateFacts, Stages
     DEF RepairApply, Open, JiraGate, RepairStage, RepairKinds
<1>40. ASSUME NEW kind \in RepairKinds, RepairRecord(kind) PROVE CapWaits'
  BY <1>40, PlaceFacts, RepairFields, KindFacts DEF RepairRecord, NewPass, TypeInv, TypeOK
<1> HIDE DEF CapWaits, pass, sandbox, judgements, decisions
<1> QED
    BY <1>1, <1>2, <1>3, <1>4, <1>5, <1>6, <1>7, <1>8, <1>9, <1>10, <1>11, <1>12, <1>13,
       <1>14, <1>15, <1>16, <1>17, <1>18, <1>19, <1>20, <1>21, <1>22, <1>23, <1>24,
       <1>25, <1>26, <1>27, <1>28, <1>29, <1>30, <1>31, <1>32, <1>33, <1>34, <1>35,
       <1>36, <1>37, <1>38, <1>39, <1>40
    DEF Next, PassStep, Operator, Environment

-----------------------------------------------------------------------------
(* The release: the pipeline implements JiraRelease where the Jira         *)
(* approval is required, no other approval stands before the pass, and the *)
(* process does not die.                                                   *)

OwnGrantOnly ==
    /\ On("jira_approval") /\ ~On("plan_approval") /\ ~On("contracts")
    /\ MaxCrashes = 0

Shipping == {"writeback", "finish", "completed"}

ReleaseInv ==
    /\ pc # "down"
    /\ pc \in {"transition", "writeback", "finish"} => ps.granted
    /\ pc \in Shipping => Len(shipped) = 1
    /\ pc \notin Shipping => shipped = <<>>
    /\ ps.written => pc \in {"finish", "completed"}
    /\ pc = "waiting" => approval.question \in {"compile", "semantic", "reservation", "jira"}
    /\ AskingJira => ~ps.granted

\* The stages before the Jira gate, and the Jira gate.
Judging == Running \ {"jira", "transition", "writeback", "finish"}

LEMMA JudgingFacts ==
    /\ \A stage \in Judging : After[stage] \in Judging \cup {"jira"}
    /\ After["jira"] = "transition" /\ After["transition"] = "writeback"
    /\ After["writeback"] = "finish" /\ After["finish"] = "completed"
    /\ Cached \subseteq Judging /\ Unpatched \cup {"retry", "conformance"} \subseteq Judging
    /\ (Judging \cup Repairing \cup {"jira"})
         \cap (Shipping \cup Ended \cup {"waiting", "down", "transition"}) = {}
<1>1. \A stage \in Judging : After[stage] \in Judging \cup {"jira"}
  BY Stages DEF After, Judging
<1>2. /\ After["jira"] = "transition" /\ After["transition"] = "writeback"
      /\ After["writeback"] = "finish" /\ After["finish"] = "completed"
  BY DEF After
<1>3. Cached \subseteq Judging
  BY GateFacts DEF Judging, Cached, CachedGates, TreeGates, StateGates, LocalGates
<1> QED BY <1>1, <1>2, <1>3, Stages, PlaceFacts DEF Judging, Shipping, Unpatched

LEMMA InitRelease == OwnGrantOnly /\ Init => ReleaseInv
BY DEF Init, OwnGrantOnly, ReleaseInv, NoState, Shipping, AskingJira, NoQuestion

LEMMA StepRelease ==
    ASSUME OwnGrantOnly, TypeInv, ReleaseInv, [Next]_vars
    PROVE ReleaseInv'
<1> USE JudgingFacts DEF ReleaseInv, AskingJira, Shipping, pass, sandbox, judgements, decisions
<1>1. CASE UNCHANGED vars
  BY <1>1 DEF vars
<1>2. CASE CodegenCached
  BY <1>2 DEF CodegenCached, Skip, Unpatched
<1>3. CASE Codegen
  <2>1. Kept(ps', ps)
    BY <1>3 DEF Codegen, TypeInv, TypeOK, StateType, Kept
  <2>2. pc = "codegen" /\ pc' \in Judging \cup {"jira"} /\ shipped' = shipped
    BY <1>3 DEF Codegen, Skip, Unpatched
  <2> QED BY <2>1, <2>2 DEF Kept
<1>4. CASE CoverageRetry
  BY <1>4, RetryFields, KindFacts
     DEF CoverageRetry, Retry, NewPass, TypeInv, TypeOK, Kept, Unpatched
<1>5. CASE AskConflict
  BY <1>5 DEF AskConflict, OwnGrantOnly
<1>6. CASE ScopeRetry
  BY <1>6, RetryFields, KindFacts
     DEF ScopeRetry, Retry, NewPass, TypeInv, TypeOK, Kept, Unpatched
<1>7. CASE PassStage
  BY <1>7 DEF PassStage, Skip, Unpatched
<1>8. CASE SkipApply
  BY <1>8 DEF SkipApply, Unpatched
<1>9. CASE Apply
  BY <1>9 DEF Apply, Skip, Unpatched, TypeInv, TypeOK, StateType
<1>10. CASE CommitPatch
  BY <1>10 DEF CommitPatch, Skip, Unpatched
<1>11. CASE RecordPatch
  BY <1>11 DEF RecordPatch, Skip, Unpatched, TypeInv, TypeOK, StateType
<1>12. CASE Complete
  <2>1. Kept(ps', ps)
    BY <1>12 DEF Complete, TypeInv, TypeOK, StateType, Kept
  <2>2. pc = "retry" /\ pc' \in Judging \cup {"jira"} /\ shipped' = shipped
    BY <1>12 DEF Complete, Skip, Unpatched
  <2> QED BY <2>1, <2>2 DEF Kept, Unpatched
<1>13. CASE SkipGate
  BY <1>13 DEF SkipGate, Skip
<1>14. CASE CompileRepair
  BY <1>14 DEF CompileRepair, Open
<1>15. CASE CompilePassed
  BY <1>15, DoneTyped, DoneFields, RefreshedFields, GateFacts
     DEF CompilePassed, Open, Skip, TypeInv, TypeOK, Kept
<1>16. CASE CompileSkipped
  BY <1>16, DoneFields, GateFacts DEF CompileSkipped, Open, Skip, TypeInv, TypeOK, Kept
<1>17. CASE CompileCapped
  BY <1>17 DEF CompileCapped, Open, Park, Asked, TypeInv, TypeOK, StateType
<1>18. CASE FeatureRepair
  <2>1. ps' = [Done("feature") EXCEPT !.diff = NewVersion] /\ Done("feature") \in StateType
    BY <1>18, DoneTyped, GateFacts DEF FeatureRepair, TypeInv, TypeOK
  <2>2. Kept(ps', ps)
    BY <2>1, DoneFields DEF TypeInv, TypeOK, StateType, Kept
  <2>3. pc \in Judging /\ pc' \in Judging \cup {"jira"} /\ shipped' = shipped
    BY <1>18, GateFacts DEF FeatureRepair, Open, Skip
  <2> QED BY <2>2, <2>3 DEF Kept
<1>19. CASE SemanticBlocked
  BY <1>19 DEF SemanticBlocked, Open, Park, Asked, TypeInv, TypeOK, StateType
<1>20. CASE ConformancePassed
  BY <1>20 DEF ConformancePassed, Skip, Unpatched
<1>21. CASE ConformanceRetry
  BY <1>21, RetryFields
     DEF ConformanceRetry, Retry, NewPass, TypeInv, TypeOK, Kept, Unpatched
<1>22. CASE SkipJira
  BY <1>22 DEF SkipJira, Skip, JiraGate, OwnGrantOnly
<1>23. CASE AskReservation
  BY <1>23 DEF AskReservation, JiraGate, Park, Asked, TypeInv, TypeOK, StateType
<1>24. CASE AskJira
  BY <1>24 DEF AskJira, JiraGate, Park, Asked, TypeInv, TypeOK, StateType
<1>25. CASE Transition
  BY <1>25 DEF Transition
<1>26. CASE RecordTransition
  BY <1>26 DEF RecordTransition, Skip, TypeInv, TypeOK, StateType
<1>27. CASE Finish
  BY <1>27 DEF Finish, Skip
<1>28. CASE FailStage
  BY <1>28, GateFacts DEF FailStage, Fail, NoState, Open, JiraGate
<1>29. CASE ConformanceFailed
  BY <1>29 DEF ConformanceFailed, Fail, NoState
<1>30. CASE Grant
  BY <1>30, AnswerFields DEF Grant, NewPass, TypeInv, TypeOK
<1>31. CASE Reject
  BY <1>31 DEF Reject
<1>32. CASE HandEdit
  BY <1>32 DEF HandEdit
<1>33. CASE Crash
  BY <1>33 DEF Crash, OwnGrantOnly, TypeInv, TypeOK
<1>34. CASE ResumeWaiting
  BY <1>34 DEF ResumeWaiting
<1>35. CASE ResumeReview
  BY <1>35 DEF ResumeReview
<1>36. CASE ResumeCodegen
  BY <1>36 DEF ResumeCodegen
<1>37. CASE ResumeGated
  BY <1>37 DEF ResumeGated
<1>38. ASSUME NEW gate \in CachedGates, PassGate(gate) PROVE ReleaseInv'
  BY <1>38, DoneFields, GateFacts DEF PassGate, Open, TypeInv, TypeOK, Kept
<1>39. ASSUME NEW kind \in RepairKinds, RepairApply(kind) PROVE ReleaseInv'
  BY <1>39, PlaceFacts, GateFacts
     DEF RepairApply, Open, JiraGate, RepairStage, RepairKinds, Unpatched
<1>40. ASSUME NEW kind \in RepairKinds, RepairRecord(kind) PROVE ReleaseInv'
  BY <1>40, PlaceFacts, RepairFields, KindFacts
     DEF RepairRecord, NewPass, TypeInv, TypeOK, Kept, Unpatched
<1> HIDE DEF ReleaseInv, AskingJira, Shipping, pass, sandbox, judgements, decisions
<1> QED
    BY <1>1, <1>2, <1>3, <1>4, <1>5, <1>6, <1>7, <1>8, <1>9, <1>10, <1>11, <1>12, <1>13,
       <1>14, <1>15, <1>16, <1>17, <1>18, <1>19, <1>20, <1>21, <1>22, <1>23, <1>24,
       <1>25, <1>26, <1>27, <1>28, <1>29, <1>30, <1>31, <1>32, <1>33, <1>34, <1>35,
       <1>36, <1>37, <1>38, <1>39, <1>40
    DEF Next, PassStep, Operator, Environment

\* Steps that JiraRelease does not see, and steps that end the work.
LEMMA Unseen ==
    ASSUME pc \notin Ended, pc' \notin Ended, ~AskingJira, ~AskingJira',
           ps'.granted <=> ps.granted, shipped' = shipped
    PROVE UNCHANGED Release!vars
<1>1. ReleasePhase' = ReleasePhase
  BY DEF ReleasePhase
<1> QED BY <1>1 DEF Release!vars

LEMMA WorkEnds ==
    ASSUME pc \notin Ended, pc' \in Ended, ~AskingJira, shipped' = shipped
    PROVE Release!End
BY DEF Release!End, ReleasePhase

LEMMA ReleaseInit == OwnGrantOnly /\ Init => Release!Init
<1> SUFFICES ASSUME OwnGrantOnly, Init PROVE Release!Init
  OBVIOUS
<1>1. pc = "codegen" /\ ~ps.granted /\ shipped = <<>>
  BY DEF OwnGrantOnly, Init, NoState
<1>2. Len(shipped) = 0
  BY <1>1
<1> QED BY <1>1, <1>2 DEF Release!Init, ReleasePhase, Ended, AskingJira

LEMMA ReleaseStep ==
    ASSUME OwnGrantOnly, TypeInv, ReleaseInv, ReleaseInv', [Next]_vars
    PROVE [Release!Next]_(Release!vars)
<1> USE JudgingFacts, PlaceFacts DEF pass, sandbox, judgements, decisions
<1>1. CASE UNCHANGED vars
  <2>1. pc' = pc /\ ps' = ps /\ approval' = approval /\ shipped' = shipped
    BY <1>1 DEF vars
  <2> QED BY <2>1 DEF Release!vars, ReleasePhase, AskingJira
<1>2. CASE CodegenCached
  BY <1>2, Unseen DEF CodegenCached, Skip, Unpatched, AskingJira
<1>3. CASE Codegen
  BY <1>3, Unseen DEF Codegen, Skip, Unpatched, TypeInv, TypeOK, StateType, AskingJira
<1>4. CASE CoverageRetry
  BY <1>4, RetryFields, KindFacts, Unseen
     DEF CoverageRetry, Retry, NewPass, TypeInv, TypeOK, Kept, Unpatched, AskingJira
<1>5. CASE AskConflict
  BY <1>5 DEF AskConflict, OwnGrantOnly
<1>6. CASE ScopeRetry
  BY <1>6, RetryFields, KindFacts, Unseen
     DEF ScopeRetry, Retry, NewPass, TypeInv, TypeOK, Kept, Unpatched, AskingJira
<1>7. CASE PassStage
  BY <1>7, Unseen DEF PassStage, Skip, Unpatched, AskingJira
<1>8. CASE SkipApply
  BY <1>8, Unseen DEF SkipApply, Unpatched, AskingJira
<1>9. CASE Apply
  BY <1>9, Unseen DEF Apply, Skip, Unpatched, TypeInv, TypeOK, StateType, AskingJira
<1>10. CASE CommitPatch
  BY <1>10, Unseen DEF CommitPatch, Skip, Unpatched, AskingJira
<1>11. CASE RecordPatch
  BY <1>11, Unseen
     DEF RecordPatch, Skip, Unpatched, TypeInv, TypeOK, StateType, AskingJira
<1>12. CASE Complete
  BY <1>12, Unseen
     DEF Complete, Skip, Unpatched, TypeInv, TypeOK, StateType, AskingJira
<1>13. CASE SkipGate
  BY <1>13, Unseen DEF SkipGate, Skip, AskingJira
<1>14. CASE CompileRepair
  BY <1>14, Unseen DEF CompileRepair, Open, AskingJira
<1>15. CASE CompilePassed
  BY <1>15, DoneTyped, DoneFields, RefreshedFields, GateFacts, Unseen
     DEF CompilePassed, Open, Skip, TypeInv, TypeOK, Kept, AskingJira
<1>16. CASE CompileSkipped
  BY <1>16, DoneFields, GateFacts, Unseen
     DEF CompileSkipped, Open, Skip, TypeInv, TypeOK, Kept, AskingJira
<1>17. CASE CompileCapped
  BY <1>17, Unseen
     DEF CompileCapped, Open, Park, Asked, TypeInv, TypeOK, StateType, AskingJira
<1>18. CASE FeatureRepair
  <2>1. ps' = [Done("feature") EXCEPT !.diff = NewVersion] /\ Done("feature") \in StateType
    BY <1>18, DoneTyped, GateFacts DEF FeatureRepair, TypeInv, TypeOK
  <2>2. ps'.granted <=> ps.granted
    BY <2>1, DoneFields DEF TypeInv, TypeOK, StateType, Kept
  <2>3. pc \in Judging /\ pc' \in Judging \cup {"jira"} /\ shipped' = shipped
    BY <1>18, GateFacts DEF FeatureRepair, Open, Skip
  <2> QED BY <2>2, <2>3, Unseen DEF AskingJira
<1>19. CASE SemanticBlocked
  BY <1>19, Unseen
     DEF SemanticBlocked, Open, Park, Asked, TypeInv, TypeOK, StateType, AskingJira
<1>20. CASE ConformancePassed
  BY <1>20, Unseen DEF ConformancePassed, Skip, Unpatched, AskingJira
<1>21. CASE ConformanceRetry
  BY <1>21, RetryFields, Unseen
     DEF ConformanceRetry, Retry, NewPass, TypeInv, TypeOK, Kept, Unpatched, AskingJira
<1>22. CASE SkipJira
  BY <1>22, Unseen DEF SkipJira, Skip, JiraGate, OwnGrantOnly, AskingJira
<1>23. CASE AskReservation
  BY <1>23, Unseen
     DEF AskReservation, JiraGate, Park, Asked, TypeInv, TypeOK, StateType, AskingJira
<1>24. CASE AskJira
  <2>1. pc = "jira" /\ ~ps.granted /\ shipped' = shipped
    BY <1>24 DEF AskJira, JiraGate, Park
  <2>2. AskingJira' /\ pc' = "waiting"
    BY <1>24 DEF AskJira, Park, Asked, AskingJira
  <2>3. ReleasePhase = "working" /\ ReleasePhase' = "asked"
    BY <2>1, <2>2 DEF ReleasePhase, AskingJira
  <2> QED BY <2>1, <2>3 DEF Release!Next, Release!Ask
<1>25. CASE Transition
  <2>1. /\ pc = "transition" /\ ps.granted /\ ~ps.written /\ shipped = <<>>
        /\ pc' = "writeback" /\ ps' = ps
    BY <1>25 DEF Transition, ReleaseInv, Shipping
  <2>2. Len(shipped) = 0 /\ Len(shipped)' = 1
    BY <2>1 DEF ReleaseInv, Shipping
  <2>3. ReleasePhase = "authorised" /\ ReleasePhase' = "authorised"
    BY <2>1 DEF ReleasePhase, AskingJira
  <2> QED BY <2>2, <2>3 DEF Release!Next, Release!Move
<1>26. CASE RecordTransition
  BY <1>26, Unseen DEF RecordTransition, Skip, TypeInv, TypeOK, StateType, AskingJira
<1>27. CASE Finish
  <2>1. pc = "finish" /\ pc' = "completed" /\ shipped' = shipped
    BY <1>27 DEF Finish, Skip
  <2> QED BY <2>1, WorkEnds DEF Release!Next, AskingJira
<1>28. CASE FailStage
  <2>1. pc \notin Ended /\ ~AskingJira
    BY <1>28, GateFacts, Stages DEF FailStage, Open, JiraGate, AskingJira
  <2>2. pc' \in Ended /\ shipped' = shipped
    BY <1>28 DEF FailStage, Fail
  <2> QED BY <2>1, <2>2, WorkEnds DEF Release!Next
<1>29. CASE ConformanceFailed
  <2>1. pc \notin Ended /\ ~AskingJira
    BY <1>29, GateFacts, Stages DEF ConformanceFailed, Open, JiraGate, AskingJira
  <2>2. pc' \in Ended /\ shipped' = shipped
    BY <1>29 DEF ConformanceFailed, Fail
  <2> QED BY <2>1, <2>2, WorkEnds DEF Release!Next
<1>30. CASE Grant
  <2>1. pc = "waiting" /\ pc' = "codegen" /\ shipped' = shipped /\ ps' = Answer(approval.question)
    BY <1>30 DEF Grant, NewPass
  <2>2. ps \in StateType
    BY DEF TypeInv, TypeOK
  <2>3. CASE approval.question = "jira"
    <3>1. ReleasePhase = "asked"
      BY <2>1, <2>3 DEF ReleasePhase, AskingJira
    <3>2. ReleasePhase' = "authorised"
      BY <2>1, <2>2, <2>3, AnswerFields DEF ReleasePhase, AskingJira
    <3> QED BY <2>1, <3>1, <3>2 DEF Release!Next, Release!Decide
  <2>4. CASE approval.question # "jira"
    <3>1. ps'.granted <=> ps.granted
      BY <2>1, <2>2, <2>4, AnswerFields DEF ReleaseInv
    <3> QED BY <2>1, <2>4, <3>1, Unseen DEF AskingJira
  <2> QED BY <2>3, <2>4
<1>31. CASE Reject
  <2>1. pc = "waiting" /\ pc' = "failed" /\ shipped' = shipped
    BY <1>31 DEF Reject
  <2>2. CASE AskingJira
    <3>1. ReleasePhase = "asked" /\ ReleasePhase' = "ended"
      BY <2>1, <2>2 DEF ReleasePhase
    <3> QED BY <2>1, <3>1 DEF Release!Next, Release!Decide
  <2>3. CASE ~AskingJira
    BY <2>1, <2>3, WorkEnds DEF Release!Next
  <2> QED BY <2>2, <2>3
<1>32. CASE HandEdit
  BY <1>32, Unseen DEF HandEdit, AskingJira
<1>33. CASE Crash
  BY <1>33 DEF Crash, ReleaseInv
<1>34. CASE ResumeWaiting
  BY <1>34 DEF ResumeWaiting, ReleaseInv
<1>35. CASE ResumeReview
  BY <1>35 DEF ResumeReview, ReleaseInv
<1>36. CASE ResumeCodegen
  BY <1>36 DEF ResumeCodegen, ReleaseInv
<1>37. CASE ResumeGated
  BY <1>37 DEF ResumeGated, ReleaseInv
<1>38. ASSUME NEW gate \in CachedGates, PassGate(gate) PROVE [Release!Next]_(Release!vars)
  <2>1. pc \in Judging /\ pc # "waiting" /\ pc \notin Ended /\ shipped' = shipped
    BY <1>38, GateFacts DEF PassGate, Open
  <2>2. ps'.granted <=> ps.granted
    BY <1>38, DoneFields DEF PassGate, TypeInv, TypeOK, Kept
  <2>3. CASE pc' = "returned"
    BY <2>1, <2>3, WorkEnds DEF Release!Next, AskingJira
  <2>4. CASE pc' # "returned"
    <3>1. pc' \in Judging \cup {"jira"}
      BY <1>38, <2>1, <2>4 DEF PassGate, Open
    <3> QED BY <2>1, <2>2, <3>1, Unseen DEF AskingJira
  <2> QED BY <2>3, <2>4
<1>39. ASSUME NEW kind \in RepairKinds, RepairApply(kind) PROVE [Release!Next]_(Release!vars)
  BY <1>39, PlaceFacts, GateFacts, Unseen
     DEF RepairApply, Open, JiraGate, RepairStage, RepairKinds, Unpatched, AskingJira
<1>40. ASSUME NEW kind \in RepairKinds, RepairRecord(kind) PROVE [Release!Next]_(Release!vars)
  BY <1>40, PlaceFacts, RepairFields, KindFacts, Unseen
     DEF RepairRecord, NewPass, TypeInv, TypeOK, Kept, Unpatched, AskingJira
<1> QED
    BY <1>1, <1>2, <1>3, <1>4, <1>5, <1>6, <1>7, <1>8, <1>9, <1>10, <1>11, <1>12, <1>13,
       <1>14, <1>15, <1>16, <1>17, <1>18, <1>19, <1>20, <1>21, <1>22, <1>23, <1>24,
       <1>25, <1>26, <1>27, <1>28, <1>29, <1>30, <1>31, <1>32, <1>33, <1>34, <1>35,
       <1>36, <1>37, <1>38, <1>39, <1>40
    DEF Next, PassStep, Operator, Environment

-----------------------------------------------------------------------------
(* The theorems.                                                           *)

\* The inductive invariant of the types: WholeDiff says where the diff may be a partial one
\* (_refresh_codegen_diff_from_sandbox) and so why a patch always leads to a version.
THEOREM Invariant == Spec => [](TypeInv /\ WholeDiff)
<1>1. Init => TypeInv /\ WholeDiff
  BY InitTyped, InitWhole
<1>2. (TypeInv /\ WholeDiff) /\ [Next]_vars => (TypeInv /\ WholeDiff)'
  BY StepTyped, StepWhole
<1> QED BY <1>1, <1>2, PTL DEF Spec

\* The variables of the pipeline keep their types: in particular a refreshed diff, which
\* is relative to the commit before the patch, is never applied to a fresh clone
\* (the records of _execute_develop_pipeline around apply_patch, and what the resets and
\* _prepare_develop_resume drop of them).
THEOREM TypeCorrect == Spec => []TypeOK
<1>1. TypeInv => TypeOK
  BY DEF TypeInv
<1> QED BY <1>1, Invariant, PTL

\* No pass leaves the task executing with nothing to wait for: the flag the evidence gate
\* returns on is set only where the task is parked, and cleared by the grant of that
\* approval and by no other (resume_after_approval, compile_repair_cap_exceeded).
THEOREM NeverReturnsSilently == Spec => []NoSilentReturn
<1>1. Init => CapWaits
  BY InitCap
<1>2. TypeInv /\ CapWaits /\ [Next]_vars => CapWaits'
  BY StepCap
<1>3. CapWaits => NoSilentReturn
  BY DEF CapWaits, NoSilentReturn
<1> QED BY <1>1, <1>2, <1>3, Invariant, PTL DEF Spec

\* Where no other approval stands before it and no process dies, the Jira transition comes
\* after a grant of its own, and only once, however many repairs, retries and answers the
\* pass goes through (the gate and the write-back of _execute_develop_pipeline).
THEOREM ReleaseGranted ==
    ASSUME OwnGrantOnly
    PROVE Spec => ReleaseIsGranted
<1>1. Init => ReleaseInv /\ Release!Init
  BY InitRelease, ReleaseInit
<1>2. TypeInv /\ ReleaseInv /\ [Next]_vars => ReleaseInv'
  BY StepRelease
<1>3. TypeInv /\ ReleaseInv /\ ReleaseInv' /\ [Next]_vars => [Release!Next]_(Release!vars)
  BY ReleaseStep
<1> QED BY <1>1, <1>2, <1>3, Invariant, PTL DEF Spec, ReleaseIsGranted, Release!Spec

=============================================================================
