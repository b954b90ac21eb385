------------------------ MODULE DevelopPipelineSafety ------------------------
(***************************************************************************)
(* Theorems about what the develop pipeline judges and asks, for a process *)
(* that does not die: the code the Jira approval shows is in the sandbox   *)
(* and has been compiled; the gates have judged it; nothing granted is     *)
(* asked again; and the work on a task is bounded by its budgets.          *)
(*                                                                         *)
(* First what the helpers make of the fields of pipeline_state these       *)
(* properties are about, then the sandbox and its diffs (TreeInv), on      *)
(* which the invariant of each property stands.                            *)
(***************************************************************************)
EXTENDS DevelopPipelineProofs

\* A process that dies resumes from a checkpoint, which knows less than the task did.
Uninterrupted == MaxCrashes = 0

-----------------------------------------------------------------------------
(* What the helpers make of a pipeline_state, field by field.              *)

\* What a retry leaves: the results it drops are gone, and the patch with them.
Retried(s) ==
    /\ s.diff = 0 /\ s.result = 0 /\ ~s.applied /\ s.base = ps.base
    /\ s.done = ps.done \ RetryDrops
    /\ Kept(s, ps) /\ (s.acked <=> ps.acked)
    /\ \A kind \in RepairKinds : s.spent[kind] = ps.spent[kind]

LEMMA RetryMakes ==
    ASSUME ps \in StateType
    PROVE /\ Retried(RetryState)
          /\ RetryState.spent = [ps.spent EXCEPT !["conformance"] = @ + 1]
          /\ \A kind \in RetryKinds : Retried([RetryState EXCEPT !.spent[kind] = @ + 1])
<1>1. RetryState.spent = [ps.spent EXCEPT !["conformance"] = @ + 1]
  BY DEF RetryState, StateType
<1>2. /\ RetryState.diff = 0 /\ RetryState.result = 0
      /\ ~RetryState.applied /\ RetryState.base = ps.base
      /\ RetryState.done = ps.done \ RetryDrops
      /\ Kept(RetryState, ps) /\ (RetryState.acked <=> ps.acked)
  BY DEF RetryState, StateType, Kept
<1>3. \A kind \in RepairKinds : RetryState.spent[kind] = ps.spent[kind]
  BY <1>1 DEF StateType, Kinds, RepairKinds
<1>4. RetryState \in StateType
  BY RetryTyped
<1>5. ASSUME NEW kind \in RetryKinds
      PROVE Retried([RetryState EXCEPT !.spent[kind] = @ + 1])
  <2> DEFINE s == [RetryState EXCEPT !.spent[kind] = @ + 1]
  <2>1. /\ s.diff = RetryState.diff /\ s.result = RetryState.result
        /\ (s.applied <=> RetryState.applied)
        /\ s.base = RetryState.base /\ s.done = RetryState.done
        /\ Kept(s, RetryState) /\ (s.acked <=> RetryState.acked)
    BY <1>4 DEF StateType, Kept
  <2>2. s.spent = [RetryState.spent EXCEPT ![kind] = @ + 1]
    BY <1>4 DEF StateType
  <2>3. \A other \in RepairKinds : s.spent[other] = RetryState.spent[other]
    BY <1>4, <2>2 DEF StateType, Kinds, RepairKinds, RetryKinds
  <2> HIDE DEF s
  <2>4. Retried(s)
    BY <1>2, <1>3, <2>1, <2>3 DEF Retried, Kept
  <2> QED BY <2>4 DEF s
<1> QED BY <1>1, <1>2, <1>3, <1>5 DEF Retried

\* What a refreshed diff is, where the sandbox was cloned bare: what git diff tells.
LEMMA RefreshedMakes ==
    ASSUME NEW s \in StateType
    PROVE /\ Refreshed(s).done = s.done /\ Refreshed(s).spent = s.spent
          /\ Refreshed(s).base = s.base /\ (Refreshed(s).acked <=> s.acked)
          /\ s.base = 0 /\ shows[0] = 0 /\ shows[tree] # 0
               => Refreshed(s).diff = shows[tree] /\ Refreshed(s).result = shows[tree]
BY DEF Refreshed, StateType

LEMMA DoneMakes ==
    ASSUME ps \in StateType, NEW gate
    PROVE /\ Done(gate).done = ps.done \cup {gate} /\ Done(gate).spent = ps.spent
          /\ Done(gate).base = ps.base /\ (Done(gate).acked <=> ps.acked)
BY DEF Done, StateType

LEMMA CompiledMakes ==
    ASSUME ps \in StateType, ps.base = 0, shows[0] = 0, shows[tree] # 0
    PROVE LET s == Refreshed(Done("compile"))
          IN  /\ s.done = ps.done \cup {"compile"} /\ s.spent = ps.spent /\ s.base = 0
              /\ s.diff = shows[tree] /\ s.result = shows[tree]
              /\ (s.applied <=> ps.applied) /\ (s.acked <=> ps.acked) /\ Kept(s, ps)
BY DoneTyped, DoneMakes, DoneFields, RefreshedMakes, RefreshedFields, GateFacts DEF Kept

LEMMA RepairMakes ==
    ASSUME ps \in StateType, ps.base = 0, shows[0] = 0, shows[tree] # 0, NEW kind \in RepairKinds
    PROVE LET s == Refreshed([ps EXCEPT !.done = @ \ RepairDrops, !.spent[kind] = @ + 1])
          IN  /\ s.done = ps.done \ RepairDrops /\ s.spent = [ps.spent EXCEPT ![kind] = @ + 1]
              /\ s.base = 0 /\ s.diff = shows[tree] /\ s.result = shows[tree]
              /\ (s.applied <=> ps.applied)
              /\ (s.acked <=> ps.acked) /\ Kept(s, ps)
<1> DEFINE dropped == [ps EXCEPT !.done = @ \ RepairDrops, !.spent[kind] = @ + 1]
<1>1. /\ dropped.done = ps.done \ RepairDrops
      /\ dropped.spent = [ps.spent EXCEPT ![kind] = @ + 1]
      /\ dropped.base = 0 /\ (dropped.acked <=> ps.acked)
  BY DEF StateType
<1>2. dropped \in StateType
  <2>1. ps.done \ RepairDrops \in SUBSET Cached /\ kind \in Kinds
    BY KindFacts DEF StateType
  <2>2. [ps.spent EXCEPT ![kind] = @ + 1] \in [Kinds -> Nat]
    BY <2>1 DEF StateType
  <2> QED BY <2>1, <2>2 DEF StateType
<1> HIDE DEF dropped
<1>3. /\ Refreshed(dropped).done = dropped.done /\ Refreshed(dropped).spent = dropped.spent
      /\ Refreshed(dropped).base = dropped.base
      /\ (Refreshed(dropped).acked <=> dropped.acked)
      /\ Refreshed(dropped).diff = shows[tree] /\ Refreshed(dropped).result = shows[tree]
  BY <1>1, <1>2, RefreshedMakes
<1>4. LET s == Refreshed(dropped) IN (s.applied <=> ps.applied) /\ Kept(s, ps)
  BY RepairFields, KindFacts DEF dropped
<1> QED BY <1>1, <1>3, <1>4 DEF dropped

\* What a grant leaves: the compile approval drops the compile gate, the semantic approval
\* stands for its gate, and the reservation is acknowledged.
LEMMA AnswerMakes ==
    ASSUME ps \in StateType, NEW question
    PROVE LET s == Answer(question)
          IN  /\ s.base = ps.base /\ s.spent = ps.spent /\ s.diff = ps.diff
              /\ s.result = ps.result
              /\ (s.applied <=> ps.applied)
              /\ s.done \subseteq ps.done \cup {"semantic"}
              /\ ps.done \subseteq s.done \cup {"compile", "evidence"}
              /\ question = "compile" => "compile" \notin s.done
              /\ question # "compile" /\ "compile" \in ps.done => "compile" \in s.done
              /\ question = "semantic" => "semantic" \in s.done
              /\ question # "semantic" => s.done \subseteq ps.done
              /\ question = "reservation" => s.acked
              /\ ps.acked => s.acked
              /\ question = "jira" => s.granted
              /\ ps.granted => s.granted
<1>1. CASE question = "compile"
  BY <1>1 DEF Answer, CompileGranted, StateType
<1>2. CASE question = "semantic"
  BY <1>2 DEF Answer, StateType
<1>3. CASE question = "reservation"
  BY <1>3 DEF Answer, StateType
<1>4. CASE question \notin {"compile", "semantic", "reservation"}
  BY <1>4 DEF Answer, StateType
<1> QED BY <1>1, <1>2, <1>3, <1>4

-----------------------------------------------------------------------------
(* The sandbox and its diffs.  Without a restart a patch is only ever      *)
(* applied to a bare clone, so that its base is the clone and a diff       *)
(* refreshed from the sandbox is what git diff tells of it since then;     *)
(* and a recorded patch is in the sandbox.                                 *)

PatchStages == Unpatched \ {"codegen"}
AfterPatch == {"compile", "semantic", "reservation", "jira"}

TreeInv ==
    /\ pc # "down" /\ ps.base = 0 /\ tree \in 0 .. edits
    /\ ~ps.applied => ps.diff \in 0 .. edits /\ ps.result = ps.diff
    /\ ~ps.applied /\ pc \notin {"patched", "record"} \cup Ended => tree = 0 /\ head = 0
    /\ pc \in PatchStages => local = ps.result /\ local # 0
    /\ pc \in {"patched", "record"} => tree = local
    /\ pc = "coverage" /\ generated => ~ps.applied
    /\ ps.applied => tree # 0 /\ ps.result # 0
    /\ pc = "waiting" /\ approval.question \in AfterPatch => ps.applied
    /\ pc = "waiting" /\ approval.question = "conflict" => ~ps.applied
    /\ pc = "waiting" => approval.diff = ps.diff

\* git diff tells something of every version, and all of one that is still to be made.
TellsInv ==
    /\ shows[0] = 0
    /\ \A version \in Versions \ {0} : shows[version] # 0
    /\ \A version \in edits + 1 .. MaxEdits : shows[version] = version

LEMMA InitTree == Init => TreeInv /\ TellsInv
<1>1. Init => \A version \in edits + 1 .. MaxEdits : version \in Versions
  BY BoundsNat DEF Init, Versions
<1>2. Init => TreeInv
  BY NumberFacts DEF Init, TreeInv, NoState, Asked, PatchStages, AfterPatch, Unpatched
<1>3. Init => TellsInv
  <2> SUFFICES ASSUME Init PROVE TellsInv
    OBVIOUS
  <2>1. \A version \in Versions : shows[version] = version
    BY DEF Init
  <2> QED BY <1>1, <2>1, NumberFacts DEF TellsInv
<1> QED BY <1>2, <1>3

\* Where the patch is recorded.
Late == (Running \ Unpatched) \cup Repairing

LEMMA LateStages ==
    /\ {"retry", "compile", "feature", "acceptance", "semantic", "runtime", "conformance",
        "jira", "transition", "writeback", "finish"} \subseteq Running \ Unpatched
    /\ Cached \subseteq Running \ Unpatched
    /\ Running \ Unpatched \subseteq Late /\ Repairing \subseteq Late
    /\ PatchStages \cap ({"codegen", "waiting", "down", "completed", "returned"} \cup Late) = {}
    /\ {"down", "waiting"} \cap Late = {} /\ "down" \notin PatchStages
<1>1. {"retry", "compile", "feature", "acceptance", "semantic", "runtime", "conformance",
       "jira", "transition", "writeback", "finish"} \subseteq Running \ Unpatched
  BY Stages DEF Unpatched
<1>2. {"completed", "returned"} \subseteq Ended
  BY DEF Ended
<1>3. {"down", "waiting"} \cap (Running \cup Repairing) = {}
  BY PlaceSplit
<1>4. PatchStages \subseteq Unpatched \ {"codegen"}
  BY DEF PatchStages
<1> QED BY <1>1, <1>2, <1>3, <1>4, PlaceSplit, GateFacts DEF Late

LEMMA RepairPlaces ==
    ASSUME NEW kind \in RepairKinds
    PROVE RepairStage[kind] \in Late /\ "jira" \in Late /\ Patched[kind] \in Repairing
<1>1. RepairStage[kind] \in {"semantic", "runtime", "jira"}
  BY DEF RepairStage, RepairKinds
<1> QED BY <1>1, LateStages, PlaceFacts

LEMMA LateTree ==
    ASSUME TypeInv, WholeDiff, TreeInv, TellsInv, pc \in Late
    PROVE ps.applied /\ ps.base = 0 /\ tree # 0 /\ shows[0] = 0 /\ shows[tree] # 0
BY DEF WholeDiff, Late, TreeInv, TellsInv, TypeInv, TypeOK

\* A step in the recorded part of a pass, which keeps the record.
LEMMA LateStep ==
    ASSUME TypeInv, WholeDiff, TreeInv, pc \in Late,
           pc' \notin PatchStages \cup {"down"},
           ps'.base = ps.base, ps'.applied <=> ps.applied,
           ps'.result # 0, tree' \in {tree, edits'}, edits' \in {edits, edits + 1},
           pc' = "waiting" => approval'.diff = ps'.diff /\ approval'.question # "conflict"
    PROVE TreeInv'
<1>1. ps.applied /\ ps'.applied
  BY DEF WholeDiff, Late
<1>2. edits \in Nat
  BY DEF TypeInv, TypeOK, Versions
<1>3. pc' \notin {"coverage", "patched", "record"}
  BY DEF PatchStages, Unpatched
<1> QED BY <1>1, <1>2, <1>3 DEF TreeInv

\* One that goes on to the next stage.
LEMMA LateSkip ==
    ASSUME TypeInv, WholeDiff, TreeInv, pc \in Running \ Unpatched, Skip,
           ps'.base = ps.base, ps'.applied <=> ps.applied,
           ps'.result # 0, tree' \in {tree, edits'}, edits' \in {edits, edits + 1}
    PROVE TreeInv'
<1>1. pc' \in (Running \ Unpatched) \cup {"completed"}
  BY PlaceSplit DEF Skip
<1>2. pc' \notin PatchStages \cup {"down", "waiting"}
  BY <1>1, LateStages, PlaceSplit DEF Ended
<1> QED BY <1>2, LateStep, LateStages

LEMMA RetriedTree ==
    ASSUME TypeInv, TreeInv, Retried(ps'), pc' = "codegen", tree' = 0, head' = 0, edits' = edits
    PROVE TreeInv'
<1>1. edits \in Nat
  BY DEF TypeInv, TypeOK, Versions
<1>2. pc' \notin PatchStages
  BY DEF PatchStages
<1> QED BY <1>1, <1>2 DEF TreeInv, Retried, PatchStages, Unpatched

LEMMA StepTree ==
    ASSUME Uninterrupted, TypeInv, WholeDiff, TreeInv, TellsInv, [Next]_vars
    PROVE TreeInv'
<1> USE DEF pass, sandbox, judgements, decisions
<1>0. pc \in Late => ps.applied /\ ps.result # 0 /\ shows[tree] # 0
  BY LateTree DEF TreeInv
<1>1. CASE UNCHANGED vars
  BY <1>1 DEF vars, TreeInv
<1>2. CASE CodegenCached
  BY <1>2, PlaceSplit
     DEF CodegenCached, Skip, Unpatched, TypeInv, TypeOK, StateType, TreeInv, WholeDiff,
         PatchStages, AfterPatch
<1>3. CASE Codegen
  BY <1>3, PlaceSplit
     DEF Codegen, Skip, Unpatched, NewVersion, Versions, TypeInv, TypeOK, StateType, TreeInv,
         WholeDiff, PatchStages, AfterPatch
<1>4. CASE CoverageRetry
  <2>1. Retried(ps') /\ pc' = "codegen" /\ tree' = 0 /\ head' = 0 /\ edits' = edits
    BY <1>4, RetryMakes DEF CoverageRetry, Retry, NewPass, RetryKinds, TypeInv, TypeOK
  <2> QED BY <2>1, RetriedTree
<1>5. CASE AskConflict
  BY <1>5, PlaceSplit
     DEF AskConflict, Park, Asked, Ended, TypeInv, TypeOK, StateType, TreeInv, WholeDiff,
         PatchStages, AfterPatch
<1>6. CASE ScopeRetry
  <2>1. Retried(ps') /\ pc' = "codegen" /\ tree' = 0 /\ head' = 0 /\ edits' = edits
    BY <1>6, RetryMakes DEF ScopeRetry, Retry, NewPass, RetryKinds, TypeInv, TypeOK
  <2> QED BY <2>1, RetriedTree
<1>7. CASE PassStage
  BY <1>7, PlaceSplit
     DEF PassStage, Skip, Unpatched, TreeInv, WholeDiff, PatchStages, AfterPatch
<1>8. CASE SkipApply
  BY <1>8, PlaceSplit DEF SkipApply, Unpatched, TreeInv, WholeDiff, PatchStages, AfterPatch
<1>9. CASE Apply
  <2>1. /\ pc = "apply" /\ ~ps.applied /\ pc' = "patched" /\ UNCHANGED local
        /\ tree' = local /\ edits' = edits
    BY <1>9, PlaceSplit DEF Apply, Skip, Unpatched, Ended, TreeInv
  <2>2. ps'.diff = ps.diff /\ ps'.result = ps.result /\ ps'.base = 0 /\ ~ps'.applied
    BY <1>9, <2>1 DEF Apply, Unpatched, Ended, TreeInv, TypeInv, TypeOK, StateType
  <2> QED BY <2>1, <2>2 DEF TreeInv, PatchStages, Unpatched
<1>10. CASE CommitPatch
  BY <1>10, PlaceSplit
     DEF CommitPatch, Skip, Unpatched, TreeInv, WholeDiff, PatchStages, AfterPatch
<1>11. CASE RecordPatch
  BY <1>11, PlaceSplit
     DEF RecordPatch, Skip, Unpatched, TypeInv, TypeOK, StateType, TreeInv, WholeDiff,
         PatchStages, AfterPatch
<1>12. CASE Complete
  <2>1. pc = "retry" /\ Skip /\ tree' \in {tree, edits'} /\ edits' \in {edits, edits + 1}
    BY <1>12 DEF Complete, Edit, Changed, NewVersion
  <2>2. ps'.result = ps.result /\ ps'.base = ps.base /\ (ps'.applied <=> ps.applied)
    BY <1>12 DEF Complete, TypeInv, TypeOK, StateType
  <2> QED BY <1>0, <2>1, <2>2, LateSkip, LateStages
<1>13. CASE SkipGate
  BY <1>0, <1>13, LateSkip, LateStages DEF SkipGate
<1>14. CASE CompileRepair
  BY <1>0, <1>14, LateStep, LateStages DEF CompileRepair, Open, Changed, NewVersion
<1>15. CASE CompilePassed
  <2>1. pc = "compile" /\ Skip /\ UNCHANGED <<tree, edits>> /\ tree # 0
    BY <1>15 DEF CompilePassed, Open
  <2>2. ps'.result = shows[tree] /\ ps'.base = ps.base /\ (ps'.applied <=> ps.applied)
    BY <1>15, <2>1, LateTree, LateStages, CompiledMakes DEF CompilePassed, TypeInv, TypeOK
  <2> QED BY <1>0, <2>1, <2>2, LateSkip, LateStages
<1>16. CASE CompileSkipped
  <2>1. pc = "compile" /\ Skip /\ UNCHANGED <<tree, edits>>
    BY <1>16 DEF CompileSkipped, Open
  <2>2. ps'.result = ps.result /\ ps'.base = ps.base /\ (ps'.applied <=> ps.applied)
    BY <1>16, DoneMakes, DoneFields DEF CompileSkipped, TypeInv, TypeOK
  <2> QED BY <1>0, <2>1, <2>2, LateSkip, LateStages
<1>17. CASE CompileCapped
  <2>1. pc = "compile" /\ pc' = "waiting" /\ UNCHANGED <<tree, edits>>
    BY <1>17 DEF CompileCapped, Open, Park
  <2>2. /\ ps'.result = ps.result /\ ps'.base = ps.base /\ (ps'.applied <=> ps.applied)
        /\ approval'.diff = ps'.diff /\ approval'.question # "conflict"
    BY <1>17 DEF CompileCapped, Open, Park, Asked, TypeInv, TypeOK, StateType
  <2> QED BY <1>0, <2>1, <2>2, LateStep, LateStages
<1>18. CASE FeatureRepair
  <2>1. pc = "feature" /\ Skip /\ UNCHANGED tree /\ edits' = edits + 1
    BY <1>18 DEF FeatureRepair, Open, NewVersion
  <2>2. ps'.result = ps.result /\ ps'.base = ps.base /\ (ps'.applied <=> ps.applied)
    BY <1>18, DoneTyped, DoneMakes, DoneFields, GateFacts
       DEF FeatureRepair, NewVersion, TypeInv, TypeOK, StateType
  <2> QED BY <1>0, <2>1, <2>2, LateSkip, LateStages
<1>19. CASE SemanticBlocked
  <2>1. pc = "semantic" /\ pc' = "waiting" /\ UNCHANGED <<tree, edits>>
    BY <1>19 DEF SemanticBlocked, Open, Park
  <2>2. /\ ps'.result = ps.result /\ ps'.base = ps.base /\ (ps'.applied <=> ps.applied)
        /\ approval'.diff = ps'.diff /\ approval'.question # "conflict"
    BY <1>19 DEF SemanticBlocked, Open, Park, Asked, TypeInv, TypeOK, StateType
  <2> QED BY <1>0, <2>1, <2>2, LateStep, LateStages
<1>20. CASE ConformancePassed
  BY <1>0, <1>20, LateSkip, LateStages DEF ConformancePassed
<1>21. CASE ConformanceRetry
  <2>1. Retried(ps') /\ pc' = "codegen" /\ tree' = 0 /\ head' = 0 /\ edits' = edits
    BY <1>21, RetryMakes DEF ConformanceRetry, Retry, NewPass, TypeInv, TypeOK
  <2> QED BY <2>1, RetriedTree
<1>22. CASE SkipJira
  BY <1>0, <1>22, LateSkip, LateStages DEF SkipJira
<1>23. CASE AskReservation
  <2>1. pc = "jira" /\ pc' = "waiting" /\ UNCHANGED <<tree, edits>>
    BY <1>23 DEF AskReservation, JiraGate, Park
  <2>2. /\ ps'.result = ps.result /\ ps'.base = ps.base /\ (ps'.applied <=> ps.applied)
        /\ approval'.diff = ps'.diff /\ approval'.question # "conflict"
    BY <1>23 DEF AskReservation, JiraGate, Park, Asked, TypeInv, TypeOK, StateType
  <2> QED BY <1>0, <2>1, <2>2, LateStep, LateStages
<1>24. CASE AskJira
  <2>1. pc = "jira" /\ pc' = "waiting" /\ UNCHANGED <<tree, edits>>
    BY <1>24 DEF AskJira, JiraGate, Park
  <2>2. /\ ps'.result = ps.result /\ ps'.base = ps.base /\ (ps'.applied <=> ps.applied)
        /\ approval'.diff = ps'.diff /\ approval'.question # "conflict"
    BY <1>24 DEF AskJira, JiraGate, Park, Asked, TypeInv, TypeOK, StateType
  <2> QED BY <1>0, <2>1, <2>2, LateStep, LateStages
<1>25. CASE Transition
  BY <1>0, <1>25, LateStep, LateStages DEF Transition, After
<1>26. CASE RecordTransition
  <2>1. pc = "writeback" /\ Skip /\ UNCHANGED <<tree, edits>>
    BY <1>26 DEF RecordTransition
  <2>2. ps'.result = ps.result /\ ps'.base = ps.base /\ (ps'.applied <=> ps.applied)
    BY <1>26 DEF RecordTransition, TypeInv, TypeOK, StateType
  <2> QED BY <1>0, <2>1, <2>2, LateSkip, LateStages
<1>27. CASE Finish
  BY <1>0, <1>27, LateSkip, LateStages DEF Finish
<1>28. CASE FailStage
  BY <1>28
     DEF FailStage, Fail, NoState, Ended, Unpatched, TypeInv, TypeOK, TreeInv, WholeDiff,
         PatchStages, AfterPatch
<1>29. CASE ConformanceFailed
  BY <1>29
     DEF ConformanceFailed, Fail, NoState, Ended, Unpatched, TypeInv, TypeOK, TreeInv,
         WholeDiff, PatchStages, AfterPatch
<1>30. CASE Grant
  BY <1>30, AnswerMakes
     DEF Grant, NewPass, Ended, Unpatched, TypeInv, TypeOK, TreeInv, WholeDiff, PatchStages,
         AfterPatch
<1>31. CASE Reject
  BY <1>31 DEF Reject, Ended, Unpatched, TreeInv, WholeDiff, PatchStages, AfterPatch
<1>32. CASE HandEdit
  BY <1>32
     DEF HandEdit, Changed, NewVersion, Versions, Unpatched, Ended, TypeInv, TypeOK, TreeInv, WholeDiff,
         PatchStages, AfterPatch
<1>33. CASE Crash
  BY <1>33
     DEF Crash, Uninterrupted, TypeInv, TypeOK, TreeInv, WholeDiff, PatchStages, AfterPatch
<1>34. CASE ResumeWaiting
  BY <1>34 DEF ResumeWaiting, TreeInv, WholeDiff, PatchStages, AfterPatch
<1>35. CASE ResumeReview
  BY <1>35 DEF ResumeReview, TreeInv, WholeDiff, PatchStages, AfterPatch
<1>36. CASE ResumeCodegen
  BY <1>36 DEF ResumeCodegen, TreeInv, WholeDiff, PatchStages, AfterPatch
<1>37. CASE ResumeGated
  BY <1>37 DEF ResumeGated, TreeInv, WholeDiff, PatchStages, AfterPatch
<1>38. ASSUME NEW gate \in CachedGates, PassGate(gate) PROVE TreeInv'
  <2>1. pc = gate /\ gate \in Running \ Unpatched /\ UNCHANGED <<tree, edits>>
    BY <1>38, LateStages, GateFacts DEF PassGate, Open
  <2>2. pc' \in {After[pc], "returned"}
    BY <1>38, <2>1 DEF PassGate
  <2>3. ps'.result = ps.result /\ ps'.base = ps.base /\ (ps'.applied <=> ps.applied)
    BY <1>38, DoneMakes, DoneFields DEF PassGate, TypeInv, TypeOK
  <2>4. CASE pc' = After[pc]
    BY <1>0, <2>1, <2>3, <2>4, LateSkip, LateStages DEF Skip
  <2>5. CASE pc' = "returned"
    BY <1>0, <2>1, <2>3, <2>5, LateStep, LateStages
  <2> QED BY <2>2, <2>4, <2>5
<1>39. ASSUME NEW kind \in RepairKinds, RepairApply(kind) PROVE TreeInv'
  <2>1. pc \in Late /\ ps' = ps /\ pc' \in Repairing /\ tree' = edits' /\ edits' = edits + 1
    BY <1>39, RepairPlaces DEF RepairApply, Open, JiraGate, Edit, Changed, NewVersion
  <2> QED BY <1>0, <2>1, LateStep, LateStages
<1>40. ASSUME NEW kind \in RepairKinds, RepairRecord(kind) PROVE TreeInv'
  <2>1. pc \in Repairing /\ pc' = "codegen" /\ UNCHANGED <<tree, edits>>
    BY <1>40, PlaceFacts DEF RepairRecord, NewPass
  <2>2. pc \in Late
    BY <2>1, LateStages
  <2>3. ps'.result = shows[tree] /\ ps'.base = ps.base /\ (ps'.applied <=> ps.applied)
    BY <1>40, <2>2, LateTree, RepairMakes DEF RepairRecord, NewPass, TypeInv, TypeOK
  <2> QED BY <1>0, <2>1, <2>2, <2>3, LateStep, LateStages
<1> HIDE DEF pass, sandbox, judgements, decisions
<1> QED
    BY <1>1, <1>2, <1>3, <1>4, <1>5, <1>6, <1>7, <1>8, <1>9, <1>10, <1>11, <1>12, <1>13, <1>14,
       <1>15, <1>16, <1>17, <1>18, <1>19, <1>20, <1>21, <1>22, <1>23, <1>24, <1>25, <1>26,
       <1>27, <1>28, <1>29, <1>30, <1>31, <1>32, <1>33, <1>34, <1>35, <1>36, <1>37, <1>38,
       <1>39, <1>40
    DEF Next, PassStep, Operator, Environment

\* A step leaves what git diff tells alone, or makes a version of which it tells something.
LEMMA ShowsStep ==
    ASSUME TypeInv, WholeDiff, TreeInv, TellsInv, [Next]_vars
    PROVE \/ shows' = shows /\ edits' \in {edits, edits + 1}
          \/ tree # 0 /\ \E widely \in BOOLEAN : Changed(widely)
<1> USE DEF sandbox
<1>1. CASE UNCHANGED vars
  BY <1>1 DEF vars
<1>2. CASE CodegenCached \/ Codegen \/ CoverageRetry \/ AskConflict \/ ScopeRetry \/ PassStage
  BY <1>2
     DEF CodegenCached, Codegen, CoverageRetry, AskConflict, ScopeRetry, PassStage, NewVersion,
         Retry, Park
<1>3. CASE SkipApply \/ Apply \/ CommitPatch \/ RecordPatch
  BY <1>3 DEF SkipApply, Apply, CommitPatch, RecordPatch
<1>4. CASE Complete
  <2>1. tree # 0
    BY <1>4, LateTree, LateStages DEF Complete, TellsInv
  <2> QED BY <1>4, <2>1 DEF Complete, Edit
<1>5. CASE SkipGate \/ CompileRepair \/ CompilePassed \/ CompileSkipped \/ CompileCapped
  BY <1>5 DEF SkipGate, CompileRepair, CompilePassed, CompileSkipped, CompileCapped, Park
<1>6. CASE FeatureRepair \/ SemanticBlocked \/ ConformancePassed \/ ConformanceRetry
  BY <1>6
     DEF FeatureRepair, SemanticBlocked, ConformancePassed, ConformanceRetry, NewVersion, Retry,
         Park
<1>7. ASSUME NEW gate \in CachedGates, PassGate(gate) PROVE shows' = shows /\ edits' = edits
  BY <1>7 DEF PassGate
<1>8. ASSUME NEW kind \in RepairKinds, RepairApply(kind)
      PROVE tree # 0 /\ \E widely \in BOOLEAN : Changed(widely)
  <2>1. tree # 0 /\ Changed(kind \in Wide) /\ (kind \in Wide) \in BOOLEAN
    BY <1>8 DEF RepairApply, Edit
  <2> QED BY <2>1
<1>9. ASSUME NEW kind \in RepairKinds, RepairRecord(kind) PROVE shows' = shows /\ edits' = edits
  BY <1>9 DEF RepairRecord
<1>10. CASE SkipJira \/ AskReservation \/ AskJira \/ Transition \/ RecordTransition \/ Finish
  BY <1>10 DEF SkipJira, AskReservation, AskJira, Transition, RecordTransition, Finish, Park
<1>11. CASE FailStage \/ ConformanceFailed \/ Grant \/ Reject
  BY <1>11 DEF FailStage, ConformanceFailed, Fail, Grant, Reject
<1>12. CASE HandEdit
  BY <1>12 DEF HandEdit, TreeInv, AfterPatch
<1>13. CASE Environment
  BY <1>13 DEF Environment, Crash, ResumeWaiting, ResumeReview, ResumeCodegen, ResumeGated
<1> QED
    BY <1>1, <1>2, <1>3, <1>4, <1>5, <1>6, <1>7, <1>8, <1>9, <1>10, <1>11, <1>12, <1>13
    DEF Next, PassStep, Operator

LEMMA StepTells ==
    ASSUME TypeInv, WholeDiff, TreeInv, TellsInv, [Next]_vars
    PROVE TellsInv'
<1>1. edits \in Nat /\ MaxEdits \in Nat /\ shows \in [Versions -> Diffs] /\ tree \in Versions
  BY BoundsNat DEF TypeInv, TypeOK, Versions
<1>2. CASE shows' = shows /\ edits' \in {edits, edits + 1}
  <2> SUFFICES ASSUME NEW version \in edits' + 1 .. MaxEdits
               PROVE version \in edits + 1 .. MaxEdits
    BY <1>2 DEF TellsInv
  <2>1. edits' = edits \/ edits' = edits + 1
    BY <1>2
  <2> QED BY <1>1, <2>1
<1>3. ASSUME NEW widely \in BOOLEAN, tree # 0, Changed(widely) PROVE TellsInv'
  <2>1. edits' = edits + 1 /\ edits + 1 \in Versions \ {0}
    <3>1. edits' = edits + 1 /\ edits < MaxEdits
      BY <1>3 DEF Changed, MayEdit, NewVersion
    <3> QED BY <1>1, <3>1 DEF Versions
  <2>2. 0 \notin Told(widely)
    BY <1>1, <1>3 DEF Told, NewVersion, Partial, TellsInv
  <2>3. PICK diff \in Told(widely) : shows' = [shows EXCEPT ![edits + 1] = diff]
    BY <1>3 DEF Changed, NewVersion
  <2>4. \A version \in Versions :
           shows'[version] = IF version = edits + 1 THEN diff ELSE shows[version]
    BY <1>1, <2>1, <2>3
  <2>5. \A version \in edits' + 1 .. MaxEdits :
           version \in edits + 1 .. MaxEdits /\ version \in Versions /\ version # edits + 1
    BY <1>1, <2>1 DEF Versions
  <2>6. 0 \in Versions /\ 0 # edits + 1
    BY <1>1 DEF Versions
  <2> QED BY <2>2, <2>4, <2>5, <2>6 DEF TellsInv
<1> QED BY <1>2, <1>3, ShowsStep

-----------------------------------------------------------------------------
(* What is compiled.  While the result of the compile gate is cached, the  *)
(* sandbox is the version the gate has let through and the diff is what    *)
(* git tells of it: whatever changes one of them drops the result, or      *)
(* comes before it.                                                        *)

\* Feature presence changes the diff alone, and without a check nothing is compiled.
NothingWaived == ~On("feature_repair") /\ ~On("compile_skip")

AfterRetry == Running \ (Unpatched \cup {"retry"})
AfterCompile == AfterRetry \ {"tests", "shape", "compile"}

CompiledInv ==
    /\ pc \in AfterRetry => "retry" \in ps.done
    /\ pc \in AfterCompile => "compile" \in ps.done
    /\ "compile" \in ps.done => "retry" \in ps.done /\ ps.applied
    /\ "compile" \in ps.done /\ pc \notin Repairing =>
         ps.diff = shows[tree] /\ tree = cleared["compile"]
    /\ pc = "waiting" /\ approval.question = "compile" => "compile" \notin ps.done
    /\ AskingJira => "compile" \in ps.done

LEMMA StageSets ==
    /\ {"tests", "compile", "feature", "semantic", "conformance", "jira", "transition",
        "writeback", "finish"} \subseteq AfterRetry
    /\ {"feature", "semantic", "conformance", "jira", "transition", "writeback", "finish"}
         \subseteq AfterCompile
    /\ "tests" \notin AfterCompile /\ "compile" \notin AfterCompile
    /\ {"codegen", "coverage", "scope", "apply", "patched", "record", "retry"} \subseteq Running
    /\ {"codegen", "coverage", "scope", "apply", "patched", "record", "retry"}
         \cap (AfterRetry \cup AfterCompile \cup Repairing) = {}
    /\ AfterCompile \subseteq AfterRetry /\ AfterRetry \subseteq Running \ Unpatched
    /\ {"waiting", "down"} \cup Ended \cup Repairing \subseteq Places \ Running
    /\ Repairing \cap ({"waiting"} \cup Ended) = {} /\ "waiting" \notin Ended
    /\ {"completed", "failed", "returned"} \subseteq Ended
    /\ \A stage \in Running :
         /\ After[stage] \notin {"waiting"} \cup Repairing
         /\ After[stage] \in AfterRetry => stage \in AfterRetry \cup {"retry"}
         /\ After[stage] \in AfterCompile => stage \in AfterCompile \cup {"compile"}
    /\ After["retry"] = "tests"
<1>1. AfterRetry = {"tests", "shape", "compile", "feature", "acceptance", "symbols",
                    "semantic", "runtime", "review", "conformance", "failing_test", "goals",
                    "artifact", "evidence", "jira", "transition", "writeback", "finish"}
  BY Stages DEF AfterRetry, Unpatched
<1>2. AfterCompile = {"feature", "acceptance", "symbols",
                      "semantic", "runtime", "review", "conformance", "failing_test", "goals",
                      "artifact", "evidence", "jira", "transition", "writeback", "finish"}
  BY <1>1 DEF AfterCompile
<1>3. \A stage \in Running :
         /\ After[stage] \in AfterRetry => stage \in AfterRetry \cup {"retry"}
         /\ After[stage] \in AfterCompile => stage \in AfterCompile \cup {"compile"}
  BY <1>1, <1>2, Stages DEF After
<1>4. After["retry"] = "tests"
  BY DEF After
<1>5. \A stage \in Running : After[stage] \notin {"waiting"} \cup Repairing
  <2>1. {"waiting"} \cup Repairing \subseteq Places \ (Running \cup {"completed"})
    BY Stages, PlaceFacts
  <2> QED BY <2>1, NextStage
<1>6. {"completed", "failed", "returned"} \subseteq Ended
  BY DEF Ended
<1>7. {"codegen", "coverage", "scope", "apply", "patched", "record", "retry"}
         \cap (AfterRetry \cup AfterCompile \cup Repairing) = {}
  BY <1>1, <1>2, PlaceFacts
<1>8. /\ {"waiting", "down"} \cup Ended \cup Repairing \subseteq Places \ Running
      /\ Repairing \cap ({"waiting"} \cup Ended) = {} /\ "waiting" \notin Ended
  BY Stages, PlaceFacts
<1>9. AfterCompile \subseteq AfterRetry /\ AfterRetry \subseteq Running \ Unpatched
  BY DEF AfterCompile, AfterRetry
<1> QED BY <1>1, <1>2, <1>3, <1>4, <1>5, <1>6, <1>7, <1>8, <1>9, Stages

LEMMA InitCompiled == Init => CompiledInv
BY StageSets DEF Init, CompiledInv, NoState, AskingJira, Asked

\* A step after which the compile gate has to run.
LEMMA CompiledFree ==
    ASSUME "compile" \notin ps'.done, pc' \notin AfterCompile, ~AskingJira',
           pc' \in AfterRetry => "retry" \in ps'.done
    PROVE CompiledInv'
BY DEF CompiledInv

\* A step to the next stage that changes neither the code nor what is known of it.
LEMMA CompiledSkip ==
    ASSUME CompiledInv, pc \in Running, Skip, tree' = tree, shows' = shows,
           cleared'["compile"] = cleared["compile"],
           ps'.diff = ps.diff, ps'.applied <=> ps.applied,
           ps.done \subseteq ps'.done, "compile" \in ps'.done => "compile" \in ps.done,
           pc \in {"retry", "compile"} => pc \in ps.done
    PROVE CompiledInv'
<1>1. pc' # "waiting" /\ pc \notin Repairing /\ pc' \notin Repairing
  BY StageSets DEF Skip
<1>2. /\ pc' \in AfterRetry => "retry" \in ps.done
      /\ pc' \in AfterCompile => "compile" \in ps.done
  BY StageSets DEF Skip, CompiledInv
<1> QED BY <1>1, <1>2 DEF CompiledInv, AskingJira

LEMMA StepCompiled ==
    ASSUME Uninterrupted, NothingWaived, TypeInv, WholeDiff, TreeInv, TellsInv, CompiledInv,
           [Next]_vars
    PROVE CompiledInv'
<1> USE DEF pass, sandbox, judgements, decisions
<1>1. CASE UNCHANGED vars
  BY <1>1 DEF vars, CompiledInv, AskingJira
<1>2. CASE CodegenCached
  BY <1>2, CompiledSkip, StageSets DEF CodegenCached
<1>3. CASE Codegen
  <2>1. ~ps.applied /\ pc' = "coverage"
    BY <1>3, PlaceSplit DEF Codegen, Skip, TreeInv
  <2>2. ps'.done = ps.done
    BY <1>3 DEF Codegen, Skip, TreeInv, TypeInv, TypeOK, StateType
  <2> QED BY <2>1, <2>2, CompiledFree, StageSets DEF CompiledInv, AskingJira
<1>4. CASE CoverageRetry
  <2>1. Retried(ps') /\ pc' = "codegen"
    BY <1>4, RetryMakes DEF CoverageRetry, Retry, NewPass, RetryKinds, TypeInv, TypeOK
  <2> QED BY <2>1, CompiledFree, StageSets DEF Retried, RetryDrops, AskingJira
<1>5. CASE AskConflict
  <2>1. pc = "coverage" /\ pc' = "waiting" /\ UNCHANGED <<tree, shows, cleared>>
    BY <1>5 DEF AskConflict, Park
  <2>2. /\ ps'.diff = ps.diff /\ ps'.done = ps.done /\ (ps'.applied <=> ps.applied)
        /\ approval'.question = "conflict"
    BY <1>5 DEF AskConflict, Park, Asked, TypeInv, TypeOK, StateType
  <2> QED BY <1>5, <2>1, <2>2, StageSets DEF AskConflict, Open, CompiledInv, AskingJira
<1>6. CASE ScopeRetry
  <2>1. Retried(ps') /\ pc' = "codegen"
    BY <1>6, RetryMakes DEF ScopeRetry, Retry, NewPass, RetryKinds, TypeInv, TypeOK
  <2> QED BY <2>1, CompiledFree, StageSets DEF Retried, RetryDrops, AskingJira
<1>7. CASE PassStage
  BY <1>7, CompiledSkip, StageSets DEF PassStage
<1>8. CASE SkipApply
  BY <1>8, StageSets DEF SkipApply, CompiledInv, AskingJira
<1>9. CASE Apply
  <2>1. ~ps.applied /\ pc' = "patched"
    BY <1>9, PlaceSplit DEF Apply, Skip
  <2>2. ps'.done = ps.done
    BY <1>9 DEF Apply, Skip, TypeInv, TypeOK, StateType
  <2> QED BY <2>1, <2>2, CompiledFree, StageSets DEF CompiledInv, AskingJira
<1>10. CASE CommitPatch
  <2>1. ~ps.applied /\ pc' = "record"
    BY <1>10, PlaceSplit DEF CommitPatch, Skip, WholeDiff
  <2>2. ps'.done = ps.done
    BY <1>10 DEF CommitPatch, Skip, WholeDiff, TypeInv, TypeOK, StateType
  <2> QED BY <2>1, <2>2, CompiledFree, StageSets DEF CompiledInv, AskingJira
<1>11. CASE RecordPatch
  <2>1. ~ps.applied /\ pc' = "retry"
    BY <1>11, PlaceSplit DEF RecordPatch, Skip, WholeDiff
  <2>2. ps'.done = ps.done
    BY <1>11 DEF RecordPatch, TypeInv, TypeOK, StateType
  <2> QED BY <2>1, <2>2, CompiledFree, StageSets DEF CompiledInv, AskingJira
<1>12. CASE Complete
  <2>1. pc = "retry" /\ Skip /\ "retry" \notin ps.done
    BY <1>12 DEF Complete
  <2>2. ps'.done = ps.done \cup {"retry"}
    BY <1>12 DEF Complete, TypeInv, TypeOK, StateType
  <2>3. "compile" \notin ps'.done
    BY <2>1, <2>2 DEF CompiledInv
  <2> QED BY <2>1, <2>2, <2>3, CompiledFree, StageSets DEF AskingJira, Skip
<1>13. CASE SkipGate
  BY <1>13, CompiledSkip, GateFacts DEF SkipGate
<1>14. CASE CompileRepair
  BY <1>14, CompiledFree, StageSets DEF CompileRepair, Open, CompiledInv, AskingJira
<1>15. CASE CompilePassed
  <2>1. pc = "compile" /\ Skip /\ UNCHANGED <<tree, shows>> /\ cleared'["compile"] = tree
    BY <1>15, GateFacts DEF CompilePassed, Open, Clear, Sees, TreeGates, TypeInv, TypeOK
  <2>2. /\ ps'.done = ps.done \cup {"compile"} /\ ps'.diff = shows[tree]
        /\ (ps'.applied <=> ps.applied)
    BY <1>15, <2>1, LateTree, CompiledMakes, StageSets, LateStages
       DEF CompilePassed, TypeInv, TypeOK
  <2>3. ps.applied /\ "retry" \in ps.done
    BY <2>1, LateTree, LateStages, StageSets DEF CompiledInv
  <2>4. pc' \notin {"waiting"}
    BY <2>1, StageSets DEF Skip
  <2> QED BY <2>1, <2>2, <2>3, <2>4 DEF CompiledInv, AskingJira
<1>16. CASE CompileSkipped
  BY <1>16, LateTree, LateStages DEF CompileSkipped, Open, NothingWaived
<1>17. CASE CompileCapped
  <2>1. pc = "compile" /\ pc' = "waiting" /\ "compile" \notin ps.done
    BY <1>17 DEF CompileCapped, Open, Park
  <2>2. ps'.done = ps.done /\ approval'.question = "compile"
    BY <1>17 DEF CompileCapped, Park, Asked, TypeInv, TypeOK, StateType
  <2> QED BY <2>1, <2>2, CompiledFree, StageSets DEF AskingJira
<1>18. CASE FeatureRepair
  BY <1>18 DEF FeatureRepair, NothingWaived
<1>19. CASE SemanticBlocked
  <2>1. pc = "semantic" /\ pc' = "waiting" /\ UNCHANGED <<tree, shows, cleared>>
    BY <1>19 DEF SemanticBlocked, Open, Park
  <2>2. /\ ps'.diff = ps.diff /\ ps'.done = ps.done /\ (ps'.applied <=> ps.applied)
        /\ approval'.question = "semantic"
    BY <1>19 DEF SemanticBlocked, Open, Park, Asked, TypeInv, TypeOK, StateType
  <2> QED BY <1>19, <2>1, <2>2, StageSets DEF SemanticBlocked, Open, CompiledInv, AskingJira
<1>20. CASE ConformancePassed
  <2>1. cleared'["compile"] = cleared["compile"]
    BY <1>20, GateFacts DEF ConformancePassed, Clear, TypeInv, TypeOK
  <2> QED BY <1>20, <2>1, CompiledSkip, StageSets DEF ConformancePassed
<1>21. CASE ConformanceRetry
  <2>1. Retried(ps') /\ pc' = "codegen"
    BY <1>21, RetryMakes DEF ConformanceRetry, Retry, NewPass, RetryKinds, TypeInv, TypeOK
  <2> QED BY <2>1, CompiledFree, StageSets DEF Retried, RetryDrops, AskingJira
<1>22. CASE SkipJira
  BY <1>22, CompiledSkip, StageSets DEF SkipJira
<1>23. CASE AskReservation
  <2>1. pc = "jira" /\ pc' = "waiting" /\ UNCHANGED <<tree, shows, cleared>>
    BY <1>23 DEF AskReservation, JiraGate, Park
  <2>2. /\ ps'.diff = ps.diff /\ ps'.done = ps.done /\ (ps'.applied <=> ps.applied)
        /\ approval'.question = "reservation"
    BY <1>23 DEF AskReservation, JiraGate, Park, Asked, TypeInv, TypeOK, StateType
  <2> QED BY <1>23, <2>1, <2>2, StageSets DEF AskReservation, Open, CompiledInv, AskingJira
<1>24. CASE AskJira
  <2>1. pc = "jira" /\ pc' = "waiting" /\ UNCHANGED <<tree, shows, cleared>>
    BY <1>24 DEF AskJira, JiraGate, Park
  <2>2. /\ ps'.diff = ps.diff /\ ps'.done = ps.done /\ (ps'.applied <=> ps.applied)
        /\ approval'.question = "jira"
    BY <1>24 DEF AskJira, JiraGate, Park, Asked, TypeInv, TypeOK, StateType
  <2> QED BY <1>24, <2>1, <2>2, StageSets DEF AskJira, Open, CompiledInv, AskingJira
<1>25. CASE Transition
  <2>1. pc = "transition" /\ pc' \in {"writeback", "finish"} /\ UNCHANGED <<ps, tree, shows, cleared>>
    BY <1>25, JudgingFacts DEF Transition
  <2> QED BY <2>1, StageSets DEF CompiledInv, AskingJira
<1>26. CASE RecordTransition
  <2>1. pc = "writeback" /\ Skip /\ UNCHANGED <<tree, shows>> /\ cleared'["compile"] = cleared["compile"]
    BY <1>26 DEF RecordTransition
  <2>2. ps'.diff = ps.diff /\ (ps'.applied <=> ps.applied) /\ ps'.done = ps.done
    BY <1>26 DEF RecordTransition, TypeInv, TypeOK, StateType
  <2> QED BY <2>1, <2>2, CompiledSkip, StageSets
<1>27. CASE Finish
  BY <1>27, CompiledSkip, StageSets DEF Finish
<1>28. CASE FailStage
  BY <1>28, CompiledFree, StageSets DEF FailStage, Fail, NoState, AskingJira
<1>29. CASE ConformanceFailed
  BY <1>29, CompiledFree, StageSets DEF ConformanceFailed, Fail, NoState, AskingJira
<1>30. CASE Grant
  <2>1. /\ pc = "waiting" /\ pc' = "codegen" /\ UNCHANGED <<tree, shows, cleared>>
        /\ ps' = Answer(approval.question)
    BY <1>30 DEF Grant, NewPass
  <2>2. CASE "compile" \notin ps'.done
    BY <2>1, <2>2, CompiledFree, StageSets DEF AskingJira
  <2>3. CASE "compile" \in ps'.done
    <3>1. /\ "compile" \in ps.done /\ ps'.diff = ps.diff /\ (ps'.applied <=> ps.applied)
          /\ ps.done \subseteq ps'.done \cup {"compile", "evidence"}
      BY <2>1, <2>3, AnswerMakes DEF TypeInv, TypeOK
    <3>2. pc \notin Repairing /\ pc' \notin AfterCompile /\ pc' \notin AfterRetry
      BY <2>1, StageSets
    <3> QED BY <2>1, <3>1, <3>2 DEF CompiledInv, AskingJira
  <2> QED BY <2>2, <2>3
<1>31. CASE Reject
  BY <1>31, StageSets DEF Reject, CompiledInv, AskingJira
<1>32. CASE HandEdit
  BY <1>32, CompiledFree, StageSets DEF HandEdit, CompiledInv, AskingJira
<1>33. CASE Crash
  BY <1>33 DEF Crash, Uninterrupted, TypeInv, TypeOK
<1>34. CASE ResumeWaiting
  BY <1>34 DEF ResumeWaiting, TreeInv
<1>35. CASE ResumeReview
  BY <1>35 DEF ResumeReview, TreeInv
<1>36. CASE ResumeCodegen
  BY <1>36 DEF ResumeCodegen, TreeInv
<1>37. CASE ResumeGated
  BY <1>37 DEF ResumeGated, TreeInv
<1>38. ASSUME NEW gate \in CachedGates, PassGate(gate) PROVE CompiledInv'
  <2>1. pc = gate /\ gate \in Cached \ {"compile", "retry"} /\ UNCHANGED <<tree, shows>>
    BY <1>38, GateFacts DEF PassGate, Open, CachedGates, TreeGates, StateGates, LocalGates
  <2>2. cleared'["compile"] = cleared["compile"]
    BY <1>38 DEF PassGate, Clear, TypeInv, TypeOK, Gates
  <2>3. /\ ps'.diff = ps.diff /\ (ps'.applied <=> ps.applied)
        /\ ps'.done \in {ps.done, ps.done \cup {gate}}
    BY <1>38, DoneMakes, DoneFields DEF PassGate, TypeInv, TypeOK
  <2>4. CASE Skip
    BY <2>1, <2>2, <2>3, <2>4, CompiledSkip, GateFacts
  <2>5. CASE pc' = "returned"
    BY <2>1, <2>2, <2>3, <2>5, StageSets, GateFacts DEF CompiledInv, AskingJira
  <2> QED BY <1>38, <2>1, <2>4, <2>5 DEF PassGate, Skip
<1>39. ASSUME NEW kind \in RepairKinds, RepairApply(kind) PROVE CompiledInv'
  <2>1. pc' \in Repairing /\ UNCHANGED <<ps, cleared>>
    BY <1>39, RepairPlaces DEF RepairApply
  <2> QED BY <2>1, StageSets DEF CompiledInv, AskingJira
<1>40. ASSUME NEW kind \in RepairKinds, RepairRecord(kind) PROVE CompiledInv'
  <2>1. pc' = "codegen" /\ pc \in Late
    BY <1>40, RepairPlaces, LateStages DEF RepairRecord, NewPass
  <2>2. ps'.done = ps.done \ RepairDrops
    BY <1>40, <2>1, RepairMakes, LateTree DEF RepairRecord, NewPass, TypeInv, TypeOK
  <2> QED BY <2>1, <2>2, CompiledFree, StageSets DEF RepairDrops, AskingJira
<1> HIDE DEF pass, sandbox, judgements, decisions
<1> QED
    BY <1>1, <1>2, <1>3, <1>4, <1>5, <1>6, <1>7, <1>8, <1>9, <1>10, <1>11, <1>12, <1>13, <1>14,
       <1>15, <1>16, <1>17, <1>18, <1>19, <1>20, <1>21, <1>22, <1>23, <1>24, <1>25, <1>26,
       <1>27, <1>28, <1>29, <1>30, <1>31, <1>32, <1>33, <1>34, <1>35, <1>36, <1>37, <1>38,
       <1>39, <1>40
    DEF Next, PassStep, Operator, Environment

-----------------------------------------------------------------------------
(* What has been granted.  A granted question is remembered: by the flag   *)
(* its grant sets, by the cached result it stands for, or because the      *)
(* code it was about is gone for good, every version being made once.      *)

SettledAsked(asked) ==
    /\ asked[1] = "jira" => ps.granted \/ pc \in Ended
    /\ asked[1] = "reservation" => ps.acked \/ pc \in Ended
    /\ asked[1] = "conflict" =>
          asked[2] <= edits /\ (pc = "coverage" /\ generated => asked[2] # ps.diff)
    /\ asked[1] = "semantic" =>
          /\ asked[3] \in 1 .. edits
          /\ asked[3] = tree => ("semantic" \in ps.done /\ pc \notin Repairing) \/ pc \in Ended
          /\ asked[3] = ps.diff => ps.applied \/ pc \in Ended

AnsweredInv == \A asked \in answered : SettledAsked(asked)

\* The flags a grant sets.
Remembers == (ps.granted => ps'.granted) /\ (ps.acked => ps'.acked)

LEMMA InitAnswered == Init => AnsweredInv
BY DEF Init, AnsweredInv

LEMMA NewIsNew == TypeInv => edits \in Nat /\ edits + 1 \notin 1 .. edits /\ 0 \notin 1 .. edits
BY DEF TypeInv, TypeOK, Versions

\* One question, in a step that goes on: the code that is not new is judged as it was.
LEMMA AskedOne ==
    ASSUME TypeInv, pc \notin Ended, Remembers, edits' \in {edits, edits + 1},
           NEW asked \in answered, SettledAsked(asked),
           pc' = "coverage" => ~generated' \/ ps'.diff = edits + 1,
           \/ /\ tree' = tree
              /\ pc \in Repairing \/ ("semantic" \in ps.done => "semantic" \in ps'.done)
              /\ pc' \notin Repairing
           \/ tree' \notin 1 .. edits
           \/ tree' = ps.diff /\ ~ps.applied,
           ps'.applied \/ ps'.diff \notin 1 .. edits \/ (ps'.diff = ps.diff /\ ~ps.applied)
    PROVE SettledAsked(asked)'
<1>1. edits \in Nat
  BY DEF TypeInv, TypeOK, Versions
<1>2. asked \in Questions \X Diffs \X Versions
  BY DEF TypeInv, TypeOK
<1>3. asked[2] \in Nat /\ asked[3] \in Nat
  BY <1>2, BoundsNat DEF Versions, Diffs
<1>4. asked[1] = "jira" => ps'.granted
  BY DEF SettledAsked, Remembers
<1>5. asked[1] = "reservation" => ps'.acked
  BY DEF SettledAsked, Remembers
<1>6. asked[1] = "conflict" =>
          asked[2] <= edits' /\ (pc' = "coverage" /\ generated' => asked[2] # ps'.diff)
  BY <1>1, <1>3 DEF SettledAsked
<1>7. asked[1] = "semantic" => asked[3] \in 1 .. edits'
  BY <1>1, <1>3 DEF SettledAsked
<1>8. asked[1] = "semantic" /\ asked[3] = tree' => "semantic" \in ps'.done /\ pc' \notin Repairing
  BY DEF SettledAsked
<1>9. asked[1] = "semantic" /\ asked[3] = ps'.diff => ps'.applied
  BY DEF SettledAsked
<1> QED BY <1>4, <1>5, <1>6, <1>7, <1>8, <1>9 DEF SettledAsked

\* A step that grants nothing.
LEMMA AskedStep ==
    ASSUME TypeInv, AnsweredInv, pc \notin Ended, Remembers, answered' = answered,
           edits' \in {edits, edits + 1},
           pc' = "coverage" => ~generated' \/ ps'.diff = edits + 1,
           \/ /\ tree' = tree
              /\ pc \in Repairing \/ ("semantic" \in ps.done => "semantic" \in ps'.done)
              /\ pc' \notin Repairing
           \/ tree' \notin 1 .. edits
           \/ tree' = ps.diff /\ ~ps.applied,
           ps'.applied \/ ps'.diff \notin 1 .. edits \/ (ps'.diff = ps.diff /\ ~ps.applied)
    PROVE AnsweredInv'
<1> SUFFICES ASSUME NEW asked \in answered PROVE SettledAsked(asked)'
  BY DEF AnsweredInv
<1>1. SettledAsked(asked)
  BY DEF AnsweredInv
<1> QED BY <1>1, AskedOne

\* One that goes on to the next stage with the same code.
LEMMA AskedSkip ==
    ASSUME TypeInv, AnsweredInv, pc \in Running \ {"codegen"}, Skip, Remembers,
           answered' = answered, tree' = tree, edits' \in {edits, edits + 1},
           ps.done \subseteq ps'.done,
           ps'.applied \/ (ps'.diff = ps.diff /\ (ps'.applied <=> ps.applied))
    PROVE AnsweredInv'
<1>1. pc \notin Ended
  BY StageSets
<1>2. pc' # "coverage"
  BY Stages DEF Skip, After
<1>3. pc' \notin Repairing
  BY StageSets DEF Skip
<1> QED BY <1>1, <1>2, <1>3, AskedStep

\* One that ends the task.
LEMMA AskedEnd ==
    ASSUME TypeInv, AnsweredInv, pc' \in Ended, pc' # "coverage",
           answered' = answered, edits' = edits
    PROVE AnsweredInv'
BY DEF AnsweredInv, SettledAsked

LEMMA StepAnswered ==
    ASSUME Uninterrupted, TypeInv, WholeDiff, TreeInv, TellsInv, AnsweredInv, [Next]_vars
    PROVE AnsweredInv'
<1> USE DEF pass, sandbox, judgements, decisions
<1>1. CASE UNCHANGED vars
  BY <1>1 DEF vars, AnsweredInv, SettledAsked
<1>2. CASE CodegenCached
  BY <1>2, AskedStep, StageSets, NewIsNew DEF CodegenCached, Skip, Remembers
<1>3. CASE Codegen
  <2>1. /\ pc = "codegen" /\ ~ps.applied /\ tree' = tree /\ answered' = answered
        /\ edits' = edits + 1
    BY <1>3 DEF Codegen, NewVersion, TreeInv
  <2>2. ps'.diff = edits + 1 /\ ps'.done = ps.done /\ Remembers
    BY <1>3 DEF Codegen, NewVersion, Remembers, TypeInv, TypeOK, StateType
  <2>3. tree' = 0
    BY <2>1, StageSets DEF TreeInv
  <2> QED BY <2>1, <2>2, <2>3, AskedStep, StageSets, NewIsNew
<1>4. CASE CoverageRetry
  <2>1. Retried(ps') /\ pc' = "codegen" /\ tree' = 0 /\ UNCHANGED <<edits, answered>>
    BY <1>4, RetryMakes DEF CoverageRetry, Retry, NewPass, RetryKinds, TypeInv, TypeOK
  <2>2. pc \in Running
    BY <1>4, StageSets DEF CoverageRetry
  <2> QED BY <2>1, <2>2, AskedStep, StageSets, NewIsNew DEF Retried, Remembers, Kept
<1>5. CASE AskConflict
  <2>1. pc = "coverage" /\ pc' = "waiting" /\ UNCHANGED <<tree, edits, answered>>
    BY <1>5 DEF AskConflict, Park
  <2>2. /\ ps'.diff = ps.diff /\ ps'.done = ps.done /\ (ps'.applied <=> ps.applied)
        /\ Remembers
    BY <1>5 DEF AskConflict, Park, Remembers, TypeInv, TypeOK, StateType
  <2> QED BY <2>1, <2>2, AskedStep, StageSets, NewIsNew
<1>6. CASE ScopeRetry
  <2>1. Retried(ps') /\ pc' = "codegen" /\ tree' = 0 /\ UNCHANGED <<edits, answered>>
    BY <1>6, RetryMakes DEF ScopeRetry, Retry, NewPass, RetryKinds, TypeInv, TypeOK
  <2>2. pc \in Running
    BY <1>6, StageSets DEF ScopeRetry
  <2> QED BY <2>1, <2>2, AskedStep, StageSets, NewIsNew DEF Retried, Remembers, Kept
<1>7. CASE PassStage
  BY <1>7, AskedStep, StageSets, NewIsNew, PlaceSplit DEF PassStage, Skip, Remembers
<1>8. CASE SkipApply
  BY <1>8, AskedStep, StageSets, NewIsNew DEF SkipApply, Remembers
<1>9. CASE Apply
  <2>1. /\ pc = "apply" /\ ~ps.applied /\ pc' = "patched"
        /\ UNCHANGED <<edits, answered>> /\ tree' = ps.diff
    BY <1>9, PlaceSplit, StageSets DEF Apply, Skip, TreeInv, PatchStages, Unpatched
  <2>2. ps'.diff = ps.diff /\ ps'.done = ps.done /\ Remembers
    BY <1>9 DEF Apply, Remembers, TypeInv, TypeOK, StateType
  <2> QED BY <2>1, <2>2, AskedStep, StageSets, NewIsNew
<1>10. CASE CommitPatch
  BY <1>10, AskedSkip, StageSets DEF CommitPatch, Remembers
<1>11. CASE RecordPatch
  <2>1. pc = "record" /\ Skip /\ UNCHANGED <<tree, edits, generated, answered>>
    BY <1>11 DEF RecordPatch
  <2>2. ps'.diff = ps.diff /\ ps'.applied /\ ps'.done = ps.done /\ Remembers
    BY <1>11 DEF RecordPatch, Remembers, TypeInv, TypeOK, StateType
  <2> QED BY <2>1, <2>2, AskedSkip, StageSets
<1>12. CASE Complete
  <2>1. /\ pc = "retry" /\ Skip /\ answered' = answered
        /\ (tree' = tree /\ edits' = edits) \/ (tree' = edits + 1 /\ edits' = edits + 1)
    BY <1>12 DEF Complete, Edit, Changed, NewVersion
  <2>2. /\ ps'.diff = ps.diff /\ (ps'.applied <=> ps.applied) /\ ps.done \subseteq ps'.done
        /\ Remembers
    BY <1>12 DEF Complete, Remembers, TypeInv, TypeOK, StateType
  <2> QED BY <2>1, <2>2, AskedStep, StageSets, NewIsNew DEF Skip
<1>13. CASE SkipGate
  BY <1>13, AskedSkip, StageSets, GateFacts, PlaceSplit DEF SkipGate, Remembers, Unpatched
<1>14. CASE CompileRepair
  BY <1>14, AskedStep, StageSets, NewIsNew DEF CompileRepair, Open, Changed, NewVersion, Remembers
<1>15. CASE CompilePassed
  <2>1. pc = "compile" /\ Skip /\ UNCHANGED <<tree, edits, generated, answered>> /\ tree # 0
    BY <1>15 DEF CompilePassed, Open
  <2>2. /\ ps'.applied /\ ps.done \subseteq ps'.done /\ Remembers
    BY <1>15, <2>1, LateTree, CompiledMakes, LateStages
       DEF CompilePassed, Remembers, Kept, TypeInv, TypeOK
  <2> QED BY <2>1, <2>2, AskedSkip, StageSets
<1>16. CASE CompileSkipped
  <2>1. pc = "compile" /\ Skip /\ UNCHANGED <<tree, edits, generated, answered>>
    BY <1>16 DEF CompileSkipped, Open
  <2>2. /\ ps'.diff = ps.diff /\ (ps'.applied <=> ps.applied) /\ ps.done \subseteq ps'.done
        /\ Remembers
    BY <1>16, DoneMakes, DoneFields
       DEF CompileSkipped, Open, Remembers, Kept, TypeInv, TypeOK, StateType
  <2> QED BY <2>1, <2>2, AskedSkip, StageSets
<1>17. CASE CompileCapped
  <2>1. pc = "compile" /\ pc' = "waiting" /\ UNCHANGED <<tree, edits, answered>>
    BY <1>17 DEF CompileCapped, Open, Park
  <2>2. /\ ps'.diff = ps.diff /\ ps'.done = ps.done /\ (ps'.applied <=> ps.applied)
        /\ Remembers
    BY <1>17 DEF CompileCapped, Open, Park, Remembers, TypeInv, TypeOK, StateType
  <2> QED BY <2>1, <2>2, AskedStep, StageSets, NewIsNew
<1>18. CASE FeatureRepair
  <2>1. pc = "feature" /\ Skip /\ UNCHANGED <<tree, generated, answered>> /\ edits' = edits + 1
    BY <1>18 DEF FeatureRepair, Open, NewVersion
  <2>2. ps'.applied /\ ps.done \subseteq ps'.done /\ Remembers
    BY <1>18, LateTree, LateStages, DoneTyped, DoneMakes, DoneFields, GateFacts
       DEF FeatureRepair, Open, Remembers, Kept, TypeInv, TypeOK, StateType
  <2> QED BY <2>1, <2>2, AskedSkip, StageSets
<1>19. CASE SemanticBlocked
  <2>1. pc = "semantic" /\ pc' = "waiting" /\ UNCHANGED <<tree, edits, answered>>
    BY <1>19 DEF SemanticBlocked, Open, Park
  <2>2. /\ ps'.diff = ps.diff /\ ps'.done = ps.done /\ (ps'.applied <=> ps.applied)
        /\ Remembers
    BY <1>19 DEF SemanticBlocked, Open, Park, Remembers, TypeInv, TypeOK, StateType
  <2> QED BY <2>1, <2>2, AskedStep, StageSets, NewIsNew
<1>20. CASE ConformancePassed
  BY <1>20, AskedSkip, StageSets DEF ConformancePassed, Remembers
<1>21. CASE ConformanceRetry
  <2>1. Retried(ps') /\ pc' = "codegen" /\ tree' = 0 /\ UNCHANGED <<edits, answered>>
    BY <1>21, RetryMakes DEF ConformanceRetry, Retry, NewPass, RetryKinds, TypeInv, TypeOK
  <2>2. pc \in Running
    BY <1>21, StageSets DEF ConformanceRetry
  <2> QED BY <2>1, <2>2, AskedStep, StageSets, NewIsNew DEF Retried, Remembers, Kept
<1>22. CASE SkipJira
  BY <1>22, AskedSkip, StageSets DEF SkipJira, Remembers
<1>23. CASE AskReservation
  <2>1. pc = "jira" /\ pc' = "waiting" /\ UNCHANGED <<tree, edits, answered>>
    BY <1>23 DEF AskReservation, JiraGate, Park
  <2>2. /\ ps'.diff = ps.diff /\ ps'.done = ps.done /\ (ps'.applied <=> ps.applied)
        /\ Remembers
    BY <1>23 DEF AskReservation, JiraGate, Park, Remembers, TypeInv, TypeOK, StateType
  <2> QED BY <2>1, <2>2, AskedStep, StageSets, NewIsNew
<1>24. CASE AskJira
  <2>1. pc = "jira" /\ pc' = "waiting" /\ UNCHANGED <<tree, edits, answered>>
    BY <1>24 DEF AskJira, JiraGate, Park
  <2>2. /\ ps'.diff = ps.diff /\ ps'.done = ps.done /\ (ps'.applied <=> ps.applied)
        /\ Remembers
    BY <1>24 DEF AskJira, JiraGate, Park, Remembers, TypeInv, TypeOK, StateType
  <2> QED BY <2>1, <2>2, AskedStep, StageSets, NewIsNew
<1>25. CASE Transition
  <2>1. /\ pc = "transition" /\ pc' \in {"writeback", "finish"}
        /\ UNCHANGED <<ps, tree, edits, answered>>
    BY <1>25, JudgingFacts DEF Transition
  <2> QED BY <2>1, AskedStep, StageSets, NewIsNew DEF Remembers
<1>26. CASE RecordTransition
  <2>1. pc = "writeback" /\ Skip /\ UNCHANGED <<tree, edits, generated, answered>>
    BY <1>26 DEF RecordTransition
  <2>2. /\ ps'.diff = ps.diff /\ (ps'.applied <=> ps.applied) /\ ps.done \subseteq ps'.done
        /\ Remembers
    BY <1>26 DEF RecordTransition, Remembers, Kept, TypeInv, TypeOK, StateType
  <2> QED BY <2>1, <2>2, AskedSkip, StageSets
<1>27. CASE Finish
  BY <1>27, AskedSkip, StageSets DEF Finish, Remembers
<1>28. CASE FailStage
  <2>1. pc' = "failed" /\ UNCHANGED <<edits, answered>>
    BY <1>28 DEF FailStage, Fail
  <2> QED BY <2>1, AskedEnd, StageSets
<1>29. CASE ConformanceFailed
  <2>1. pc' = "failed" /\ UNCHANGED <<edits, answered>>
    BY <1>29 DEF ConformanceFailed, Fail
  <2> QED BY <2>1, AskedEnd, StageSets
<1>30. CASE Grant
  <2>1. /\ pc = "waiting" /\ pc' = "codegen" /\ UNCHANGED <<tree, edits>>
        /\ answered' = answered \cup {<<approval.question, approval.diff, tree>>}
        /\ ps' = Answer(approval.question)
    BY <1>30 DEF Grant, NewPass
  <2>2. /\ ps'.diff = ps.diff /\ (ps'.applied <=> ps.applied)
        /\ "semantic" \in ps.done => "semantic" \in ps'.done
        /\ Remembers
    BY <2>1, AnswerMakes DEF Remembers, TypeInv, TypeOK
  <2>3. ASSUME NEW other \in answered PROVE SettledAsked(other)'
    <3>1. SettledAsked(other)
      BY DEF AnsweredInv
    <3>2. pc \notin Ended /\ pc' # "coverage" /\ pc' \notin Repairing
      BY <2>1, StageSets
    <3>3. ps'.applied \/ (ps'.diff = ps.diff /\ ~ps.applied)
      BY <2>2
    <3> QED BY <2>1, <2>2, <3>1, <3>2, <3>3, AskedOne
  <2>4. ASSUME NEW asked, asked = <<approval.question, approval.diff, tree>>
        PROVE SettledAsked(asked)'
    <3>1. /\ approval.question = "jira" => ps'.granted
          /\ approval.question = "reservation" => ps'.acked
          /\ approval.question = "semantic" => "semantic" \in ps'.done
      BY <2>1, AnswerMakes DEF TypeInv, TypeOK
    <3>2. approval.question = "conflict" => approval.diff <= edits
      BY <2>1 DEF TreeInv, TypeInv, TypeOK, Versions
    <3>3. approval.question = "semantic" => tree \in 1 .. edits /\ ps'.applied
      BY <2>1, <2>2 DEF TreeInv, AfterPatch, TypeInv, TypeOK, Versions
    <3>4. pc' \notin Repairing /\ pc' # "coverage" /\ edits' = edits /\ tree' = tree
      BY <2>1, StageSets
    <3>5. asked[1] = approval.question /\ asked[2] = approval.diff /\ asked[3] = tree
      BY <2>4
    <3> QED BY <3>1, <3>2, <3>3, <3>4, <3>5 DEF SettledAsked
  <2> QED BY <2>1, <2>3, <2>4 DEF AnsweredInv
<1>31. CASE Reject
  BY <1>31, AskedEnd, StageSets DEF Reject
<1>32. CASE HandEdit
  BY <1>32, AskedStep, StageSets, NewIsNew DEF HandEdit, Changed, NewVersion, Remembers
<1>33. CASE Crash
  BY <1>33 DEF Crash, Uninterrupted, TypeInv, TypeOK
<1>34. CASE ResumeWaiting
  BY <1>34 DEF ResumeWaiting, TreeInv
<1>35. CASE ResumeReview
  BY <1>35 DEF ResumeReview, TreeInv
<1>36. CASE ResumeCodegen
  BY <1>36 DEF ResumeCodegen, TreeInv
<1>37. CASE ResumeGated
  BY <1>37 DEF ResumeGated, TreeInv
<1>38. ASSUME NEW gate \in CachedGates, PassGate(gate) PROVE AnsweredInv'
  <2>1. pc = gate /\ gate \in Cached /\ UNCHANGED <<tree, edits, generated, answered>>
    BY <1>38, GateFacts DEF PassGate, Open
  <2>2. /\ ps'.diff = ps.diff /\ (ps'.applied <=> ps.applied) /\ ps.done \subseteq ps'.done
        /\ Remembers
    BY <1>38, DoneMakes, DoneFields DEF PassGate, Remembers, Kept, TypeInv, TypeOK
  <2>3. CASE Skip
    BY <2>1, <2>2, <2>3, AskedSkip, GateFacts, PlaceSplit DEF Unpatched
  <2>4. CASE pc' = "returned"
    BY <2>1, <2>2, <2>4, AskedEnd, StageSets
  <2> QED BY <1>38, <2>1, <2>3, <2>4 DEF PassGate, Skip
<1>39. ASSUME NEW kind \in RepairKinds, RepairApply(kind) PROVE AnsweredInv'
  <2>1. /\ pc \in Late /\ pc' \in Repairing /\ UNCHANGED <<ps, answered>>
        /\ tree' = edits + 1 /\ edits' = edits + 1
    BY <1>39, RepairPlaces DEF RepairApply, Open, JiraGate, Edit, Changed, NewVersion
  <2>2. pc \notin Ended /\ pc' # "coverage"
    BY <2>1, StageSets, PlaceSplit DEF Late
  <2> QED BY <2>1, <2>2, AskedStep, NewIsNew DEF Remembers
<1>40. ASSUME NEW kind \in RepairKinds, RepairRecord(kind) PROVE AnsweredInv'
  <2>1. pc' = "codegen" /\ pc \in Repairing /\ UNCHANGED <<tree, edits, answered>>
    BY <1>40, RepairPlaces DEF RepairRecord, NewPass
  <2>2. ps.applied /\ ps'.applied /\ Remembers
    BY <1>40, <2>1, RepairMakes, LateTree, LateStages
       DEF RepairRecord, NewPass, Remembers, Kept, TypeInv, TypeOK
  <2>3. pc' # "coverage" /\ pc \notin Ended
    BY <2>1, StageSets
  <2> QED BY <2>1, <2>2, <2>3, AskedStep, StageSets
<1> HIDE DEF pass, sandbox, judgements, decisions
<1> QED
    BY <1>1, <1>2, <1>3, <1>4, <1>5, <1>6, <1>7, <1>8, <1>9, <1>10, <1>11, <1>12, <1>13, <1>14,
       <1>15, <1>16, <1>17, <1>18, <1>19, <1>20, <1>21, <1>22, <1>23, <1>24, <1>25, <1>26,
       <1>27, <1>28, <1>29, <1>30, <1>31, <1>32, <1>33, <1>34, <1>35, <1>36, <1>37, <1>38,
       <1>39, <1>40
    DEF Next, PassStep, Operator, Environment

-----------------------------------------------------------------------------
(* What the gates judge.  Where only repairs that refresh the diff change  *)
(* the code, the variable diff of a pass and pipeline_state agree, and both*)
(* are what git diff tells of the code in the sandbox.                     *)

\* No compile repair, no completion of a patch, and no edit by hand.
RepairsOnly == MaxRounds = 0 /\ ~On("incomplete") /\ ~On("hand_edit")

SameInv ==
    /\ ps.result = ps.diff
    /\ pc \in Running \ Unpatched => local = ps.diff
    /\ ps.applied /\ pc \notin Repairing => shows[tree] = ps.diff
    /\ ~ps.applied => shows[ps.diff] = ps.diff

LEMMA InitSame == Init => SameInv
BY BoundsNat DEF Init, SameInv, NoState, Unpatched, Versions

LEMMA SameLate ==
    ASSUME WholeDiff, SameInv, pc \in Running \ Unpatched,
           UNCHANGED <<local, tree, shows>>, ps'.diff = ps.diff, ps'.result = ps.result,
           ps'.applied <=> ps.applied
    PROVE SameInv'
<1>1. ps.applied /\ pc \notin Repairing
  BY StageSets DEF WholeDiff
<1> QED BY <1>1 DEF SameInv

LEMMA SameFresh ==
    ASSUME pc' \notin Running \ Unpatched,
           ps'.result = ps'.diff,
           ps'.applied /\ pc' \notin Repairing => shows'[tree'] = ps'.diff,
           ~ps'.applied => shows'[ps'.diff] = ps'.diff
    PROVE SameInv'
BY DEF SameInv

LEMMA StepSame ==
    ASSUME Uninterrupted, NothingWaived, RepairsOnly, TypeInv, WholeDiff, TreeInv, TellsInv, SameInv,
           [Next]_vars
    PROVE SameInv'
<1> USE DEF pass, sandbox, judgements, decisions
<1>1. CASE UNCHANGED vars
  BY <1>1 DEF vars, SameInv
<1>2. CASE CodegenCached
  <2>1. pc' = "coverage" /\ UNCHANGED <<ps, tree, shows>> /\ pc \notin Repairing
    BY <1>2, PlaceSplit, StageSets DEF CodegenCached, Skip
  <2> QED BY <2>1, SameFresh DEF SameInv, Unpatched
<1>3. CASE Codegen
  <2>1. pc' = "coverage" /\ ~ps.applied
    BY <1>3, PlaceSplit DEF Codegen, Skip, TreeInv
  <2>2. ~ps'.applied /\ ps'.diff = edits + 1 /\ ps'.result = edits + 1 /\ shows' = shows
    BY <1>3, <2>1 DEF Codegen, NewVersion, TypeInv, TypeOK, StateType
  <2>3. shows[edits + 1] = edits + 1
    BY <1>3, BoundsNat DEF Codegen, MayEdit, TellsInv, TypeInv, TypeOK, Versions
  <2> QED BY <2>1, <2>2, <2>3, SameFresh DEF Unpatched
<1>4. CASE CoverageRetry
  <2>1. Retried(ps') /\ pc' = "codegen" /\ shows' = shows
    BY <1>4, RetryMakes DEF CoverageRetry, Retry, NewPass, RetryKinds, TypeInv, TypeOK
  <2> QED BY <2>1, SameFresh DEF Retried, Unpatched, TellsInv
<1>5. CASE AskConflict
  <2>1. pc = "coverage" /\ pc' = "waiting" /\ UNCHANGED <<tree, shows>>
    BY <1>5 DEF AskConflict, Park
  <2>2. ps'.diff = ps.diff /\ ps'.result = ps.result /\ (ps'.applied <=> ps.applied)
    BY <1>5 DEF AskConflict, Park, TypeInv, TypeOK, StateType
  <2> QED BY <2>1, <2>2, SameFresh, StageSets DEF SameInv
<1>6. CASE ScopeRetry
  <2>1. Retried(ps') /\ pc' = "codegen" /\ shows' = shows
    BY <1>6, RetryMakes DEF ScopeRetry, Retry, NewPass, RetryKinds, TypeInv, TypeOK
  <2> QED BY <2>1, SameFresh DEF Retried, Unpatched, TellsInv
<1>7. CASE PassStage
  <2>1. pc' \in {"scope", "apply"} /\ UNCHANGED <<ps, tree, shows>> /\ pc \notin Repairing
    BY <1>7, PlaceSplit, StageSets DEF PassStage, Skip
  <2> QED BY <2>1, SameFresh DEF SameInv, Unpatched
<1>8. CASE SkipApply
  <2>1. /\ pc = "apply" /\ pc' = "retry" /\ UNCHANGED <<ps, local, tree, shows>>
        /\ pc \in PatchStages /\ pc \notin Repairing
    BY <1>8, StageSets DEF SkipApply, PatchStages, Unpatched
  <2> QED BY <2>1 DEF SameInv, TreeInv
<1>9. CASE Apply
  <2>1. pc = "apply" /\ pc' = "patched" /\ ~ps.applied
    BY <1>9, PlaceSplit DEF Apply, Skip
  <2>2. shows' = shows
    BY <1>9, <2>1 DEF Apply, Unpatched, Ended, TreeInv
  <2>3. ~ps'.applied /\ ps'.diff = ps.diff /\ ps'.result = ps.result
    BY <1>9, <2>1 DEF Apply, TypeInv, TypeOK, StateType
  <2> QED BY <2>1, <2>2, <2>3, SameFresh DEF SameInv, Unpatched
<1>10. CASE CommitPatch
  <2>1. pc' = "record" /\ ~ps.applied /\ ps' = ps /\ shows' = shows
    BY <1>10, PlaceSplit DEF CommitPatch, Skip, WholeDiff
  <2> QED BY <2>1, SameFresh DEF SameInv, Unpatched
<1>11. CASE RecordPatch
  <2>1. pc = "record" /\ pc \in PatchStages /\ UNCHANGED <<local, tree, shows>>
    BY <1>11 DEF RecordPatch, PatchStages, Unpatched
  <2>2. /\ ps'.diff = ps.diff /\ ps'.result = ps.result /\ ps'.applied /\ ~ps.applied
        /\ tree = local
    BY <1>11, <2>1 DEF RecordPatch, TreeInv, WholeDiff, TypeInv, TypeOK, StateType
  <2> QED BY <2>1, <2>2 DEF SameInv, TreeInv
<1>12. CASE Complete
  <2>1. pc = "retry" /\ UNCHANGED <<local, tree, shows>>
    BY <1>12 DEF Complete, RepairsOnly
  <2>2. ps'.diff = ps.diff /\ ps'.result = ps.result /\ (ps'.applied <=> ps.applied)
    BY <1>12 DEF Complete, TypeInv, TypeOK, StateType
  <2> QED BY <2>1, <2>2, SameLate, LateStages
<1>13. CASE SkipGate
  BY <1>13, SameLate, LateStages DEF SkipGate
<1>14. CASE CompileRepair
  BY <1>14, BoundsNat DEF CompileRepair, RepairsOnly, TypeInv, TypeOK
<1>15. CASE CompilePassed
  <2>1. pc = "compile" /\ UNCHANGED <<local, tree, shows>> /\ shows[tree] = ps.diff
    BY <1>15, LateTree, LateStages, StageSets DEF CompilePassed, Open, SameInv
  <2>2. /\ ps'.diff = shows[tree] /\ ps'.result = shows[tree] /\ (ps'.applied <=> ps.applied)
        /\ ps.result = ps.diff
    BY <1>15, <2>1, LateTree, LateStages, CompiledMakes
       DEF CompilePassed, SameInv, TypeInv, TypeOK
  <2> QED BY <2>1, <2>2, SameLate, LateStages
<1>16. CASE CompileSkipped
  <2>1. pc = "compile" /\ UNCHANGED <<local, tree, shows>>
    BY <1>16 DEF CompileSkipped, Open
  <2>2. ps'.diff = ps.diff /\ ps'.result = ps.result /\ (ps'.applied <=> ps.applied)
    BY <1>16, DoneFields DEF CompileSkipped, Open, TypeInv, TypeOK, StateType
  <2> QED BY <2>1, <2>2, SameLate, LateStages
<1>17. CASE CompileCapped
  <2>1. pc = "compile" /\ UNCHANGED <<local, tree, shows>>
    BY <1>17 DEF CompileCapped, Open, Park
  <2>2. ps'.diff = ps.diff /\ ps'.result = ps.result /\ (ps'.applied <=> ps.applied)
    BY <1>17 DEF CompileCapped, Open, Park, TypeInv, TypeOK, StateType
  <2> QED BY <2>1, <2>2, SameLate, LateStages
<1>18. CASE FeatureRepair
  BY <1>18 DEF FeatureRepair, NothingWaived
<1>19. CASE SemanticBlocked
  <2>1. pc = "semantic" /\ UNCHANGED <<local, tree, shows>>
    BY <1>19 DEF SemanticBlocked, Open, Park
  <2>2. ps'.diff = ps.diff /\ ps'.result = ps.result /\ (ps'.applied <=> ps.applied)
    BY <1>19 DEF SemanticBlocked, Open, Park, TypeInv, TypeOK, StateType
  <2> QED BY <2>1, <2>2, SameLate, LateStages
<1>20. CASE ConformancePassed
  BY <1>20, SameLate, LateStages DEF ConformancePassed
<1>21. CASE ConformanceRetry
  <2>1. Retried(ps') /\ pc' = "codegen" /\ shows' = shows
    BY <1>21, RetryMakes DEF ConformanceRetry, Retry, NewPass, RetryKinds, TypeInv, TypeOK
  <2> QED BY <2>1, SameFresh DEF Retried, Unpatched, TellsInv
<1>22. CASE SkipJira
  BY <1>22, SameLate, LateStages DEF SkipJira
<1>23. CASE AskReservation
  <2>1. pc = "jira" /\ UNCHANGED <<local, tree, shows>>
    BY <1>23 DEF AskReservation, JiraGate, Park
  <2>2. ps'.diff = ps.diff /\ ps'.result = ps.result /\ (ps'.applied <=> ps.applied)
    BY <1>23 DEF AskReservation, JiraGate, Park, TypeInv, TypeOK, StateType
  <2> QED BY <2>1, <2>2, SameLate, LateStages
<1>24. CASE AskJira
  <2>1. pc = "jira" /\ UNCHANGED <<local, tree, shows>>
    BY <1>24 DEF AskJira, JiraGate, Park
  <2>2. ps'.diff = ps.diff /\ ps'.result = ps.result /\ (ps'.applied <=> ps.applied)
    BY <1>24 DEF AskJira, JiraGate, Park, TypeInv, TypeOK, StateType
  <2> QED BY <2>1, <2>2, SameLate, LateStages
<1>25. CASE Transition
  BY <1>25, SameLate, LateStages DEF Transition
<1>26. CASE RecordTransition
  <2>1. pc = "writeback" /\ UNCHANGED <<local, tree, shows>>
    BY <1>26 DEF RecordTransition
  <2>2. ps'.diff = ps.diff /\ ps'.result = ps.result /\ (ps'.applied <=> ps.applied)
    BY <1>26 DEF RecordTransition, TypeInv, TypeOK, StateType
  <2> QED BY <2>1, <2>2, SameLate, LateStages
<1>27. CASE Finish
  BY <1>27, SameLate, LateStages DEF Finish
<1>28. CASE FailStage
  BY <1>28, SameFresh, StageSets DEF FailStage, Fail, NoState, TellsInv
<1>29. CASE ConformanceFailed
  BY <1>29, SameFresh, StageSets DEF ConformanceFailed, Fail, NoState, TellsInv
<1>30. CASE Grant
  <2>1. pc = "waiting" /\ pc' = "codegen" /\ UNCHANGED <<tree, shows>>
    BY <1>30 DEF Grant, NewPass
  <2>2. ps'.diff = ps.diff /\ ps'.result = ps.result /\ (ps'.applied <=> ps.applied)
    BY <1>30, AnswerMakes DEF Grant, NewPass, TypeInv, TypeOK
  <2> QED BY <2>1, <2>2, SameFresh, StageSets DEF SameInv, Unpatched
<1>31. CASE Reject
  BY <1>31, SameFresh, StageSets DEF Reject, SameInv
<1>32. CASE HandEdit
  BY <1>32 DEF HandEdit, RepairsOnly
<1>33. CASE Crash
  BY <1>33 DEF Crash, Uninterrupted, TypeInv, TypeOK
<1>34. CASE ResumeWaiting
  BY <1>34 DEF ResumeWaiting, TreeInv
<1>35. CASE ResumeReview
  BY <1>35 DEF ResumeReview, TreeInv
<1>36. CASE ResumeCodegen
  BY <1>36 DEF ResumeCodegen, TreeInv
<1>37. CASE ResumeGated
  BY <1>37 DEF ResumeGated, TreeInv
<1>38. ASSUME NEW gate \in CachedGates, PassGate(gate) PROVE SameInv'
  <2>1. pc \in Cached /\ UNCHANGED <<local, tree, shows>>
    BY <1>38, GateFacts DEF PassGate, Open
  <2>2. ps'.diff = ps.diff /\ ps'.result = ps.result /\ (ps'.applied <=> ps.applied)
    BY <1>38, DoneFields DEF PassGate, TypeInv, TypeOK
  <2> QED BY <2>1, <2>2, SameLate, LateStages
<1>39. ASSUME NEW kind \in RepairKinds, RepairApply(kind) PROVE SameInv'
  <2>1. pc \in Late /\ pc' \in Repairing /\ ps' = ps
    BY <1>39, RepairPlaces DEF RepairApply, Open, JiraGate
  <2> QED BY <2>1, LateTree, SameFresh, StageSets DEF SameInv
<1>40. ASSUME NEW kind \in RepairKinds, RepairRecord(kind) PROVE SameInv'
  <2>1. pc' = "codegen" /\ UNCHANGED <<tree, shows>>
    BY <1>40 DEF RepairRecord, NewPass
  <2>2. /\ ps'.diff = shows[tree] /\ ps'.result = shows[tree] /\ (ps'.applied <=> ps.applied)
        /\ ps.applied
    BY <1>40, RepairPlaces, RepairMakes, LateTree, LateStages
       DEF RepairRecord, NewPass, TypeInv, TypeOK
  <2> QED BY <2>1, <2>2, SameFresh DEF Unpatched
<1> HIDE DEF pass, sandbox, judgements, decisions
<1> QED
    BY <1>1, <1>2, <1>3, <1>4, <1>5, <1>6, <1>7, <1>8, <1>9, <1>10, <1>11, <1>12, <1>13, <1>14,
       <1>15, <1>16, <1>17, <1>18, <1>19, <1>20, <1>21, <1>22, <1>23, <1>24, <1>25, <1>26,
       <1>27, <1>28, <1>29, <1>30, <1>31, <1>32, <1>33, <1>34, <1>35, <1>36, <1>37, <1>38,
       <1>39, <1>40
    DEF Next, PassStep, Operator, Environment

-----------------------------------------------------------------------------
(* What is judged.  A gate the pass has behind it, or whose result is      *)
(* cached, has let the code through, in the sandbox or as the diff of      *)
(* pipeline_state, as long as every reset there was drops its result; for the semantic review, a human may  *)
(* have done so instead.                                                   *)

Place == [codegen |-> 1, coverage |-> 2, scope |-> 3, apply |-> 4, patched |-> 5, record |-> 6,
          retry |-> 7, tests |-> 8, shape |-> 9, compile |-> 10, feature |-> 11,
          acceptance |-> 12, symbols |-> 13, semantic |-> 14, runtime |-> 15, review |-> 16,
          conformance |-> 17, failing_test |-> 18, goals |-> 19, artifact |-> 20,
          evidence |-> 21, jira |-> 22, transition |-> 23, writeback |-> 24, finish |-> 25]
Behind(gate) == pc \in Running /\ Place[gate] < Place[pc]

\* The resets there were have dropped what the gate found.
Relevant(gate) ==
    \/ gate \in {"tests", "compile", "review", "evidence"}
    \/ gate \in {"acceptance", "runtime", "semantic"} /\ ps.spent["conformance"] = 0
    \/ gate \in {"shape", "failing_test", "goals"} /\ \A kind \in RepairKinds : ps.spent[kind] = 0

Known(gate) == gate \in ps.done \/ Behind(gate) \/ AskingJira

Passed(gate) ==
    /\ ps.applied
    /\ \/ cleared[gate] = (IF gate \in TreeGates THEN tree ELSE ps.diff)
       \/ gate = "semantic" /\ <<"semantic", ps.diff, tree>> \in answered

JudgedInv ==
    pc \notin Repairing =>
        \A gate \in CachedGates : Relevant(gate) /\ Known(gate) => Passed(gate)

\* The gates come after the patch and its completion, and before the Jira approval.
LEMMA Uncached ==
    /\ CachedGates \cap {"record", "retry", "conformance", "jira", "writeback", "finish"} = {}
    /\ \A gate \in CachedGates :
         /\ \A stage \in Unpatched \cup {"retry"} : ~(Place[gate] < Place[stage])
         /\ \A stage \in {"jira", "transition"} : Place[gate] < Place[stage]
<1>1. CachedGates = {"tests", "compile", "artifact", "feature", "acceptance", "semantic",
                     "shape", "runtime", "review", "failing_test", "goals", "evidence", "symbols"}
  BY DEF CachedGates, TreeGates, StateGates, LocalGates
<1> QED BY <1>1 DEF Place, Unpatched

\* Going on leaves one stage behind.
LEMMA Onward ==
    ASSUME NEW stage \in Running, NEW gate \in Running, After[stage] \in Running,
           Place[gate] < Place[After[stage]]
    PROVE gate = stage \/ Place[gate] < Place[stage]
<1>1. \A s \in Running : Place[s] \in Nat
  BY Stages DEF Place
<1>2. \A s \in Running : After[s] \in Running => Place[After[s]] = Place[s] + 1
  BY Stages DEF Place, After
<1>3. \A s, t \in Running : Place[s] = Place[t] => s = t
  BY Stages DEF Place
<1> QED BY <1>1, <1>2, <1>3

LEMMA InitJudged == Init => JudgedInv
BY Uncached, StageSets DEF Init, JudgedInv, Known, Behind, AskingJira, NoState, Asked, Unpatched

\* What is judged stays so.
LEMMA JudgedKeepAll ==
    ASSUME JudgedInv, pc \notin Repairing, ps.applied => ps'.applied /\ tree' = tree,
           ps'.diff = ps.diff, ps'.spent = ps.spent,
           answered \subseteq answered', cleared' = cleared,
           \A gate \in CachedGates : Known(gate)
    PROVE JudgedInv'
<1> SUFFICES ASSUME NEW gate \in CachedGates, Relevant(gate)' PROVE Passed(gate)'
  BY DEF JudgedInv
<1>1. Relevant(gate)
  BY DEF Relevant
<1>2. Passed(gate)
  BY <1>1 DEF JudgedInv
<1> QED BY <1>2 DEF Passed

\* A step to where no gate is behind, and at most one has been added, rightly.
LEMMA JudgedOne ==
    ASSUME JudgedInv, pc \notin Repairing, ps.applied => ps'.applied /\ tree' = tree,
           ps'.diff = ps.diff, ps'.spent = ps.spent,
           answered \subseteq answered', ~AskingJira', NEW one,
           ~Relevant(one)' \/ Passed(one)',
           \A gate \in CachedGates \ {one} : cleared'[gate] = cleared[gate],
           ps'.done \cap CachedGates \subseteq ps.done \cup {one},
           pc' \notin AfterRetry
    PROVE JudgedInv'
<1>0. \A gate \in CachedGates : ~Behind(gate)'
  BY Uncached DEF Behind, AfterRetry
<1> SUFFICES ASSUME NEW gate \in CachedGates, Relevant(gate)', Known(gate)', gate # one
             PROVE Passed(gate)'
  BY DEF JudgedInv
<1>1. Relevant(gate)
  BY DEF Relevant
<1>2. Known(gate)
  BY <1>0 DEF Known
<1>3. Passed(gate)
  BY <1>1, <1>2 DEF JudgedInv
<1> QED BY <1>3 DEF Passed

\* A step to where no gate is behind.
LEMMA JudgedKeep ==
    ASSUME JudgedInv, pc \notin Repairing, ps.applied => ps'.applied /\ tree' = tree,
           ps'.diff = ps.diff, ps'.spent = ps.spent,
           answered \subseteq answered', cleared' = cleared, ~AskingJira',
           ps'.done \subseteq ps.done, pc' \notin AfterRetry
    PROVE JudgedInv'
<1>1. \A gate \in CachedGates : ~Behind(gate)'
  BY Uncached DEF Behind, AfterRetry
<1> SUFFICES ASSUME NEW gate \in CachedGates, Relevant(gate)', Known(gate)' PROVE Passed(gate)'
  BY DEF JudgedInv
<1>2. Relevant(gate) /\ Known(gate)
  BY <1>1 DEF Relevant, Known
<1>3. Passed(gate)
  BY <1>2 DEF JudgedInv
<1> QED BY <1>3 DEF Passed

\* A step after which the gates that matter have to run.
LEMMA JudgedFree ==
    ASSUME \A gate \in CachedGates : gate \in ps'.done => ~Relevant(gate)', ~AskingJira',
           pc' \notin AfterRetry
    PROVE JudgedInv'
<1>1. \A gate \in CachedGates : ~Behind(gate)'
  BY Uncached DEF Behind, AfterRetry
<1> QED BY <1>1 DEF JudgedInv, Known

\* A step to the next stage.
LEMMA JudgedSkip ==
    ASSUME JudgedInv, pc \in Running, Skip,
           ps'.diff = ps.diff, ps.applied => ps'.applied, tree' = tree, ps'.spent = ps.spent,
           answered' = answered,
           \A gate \in CachedGates \ {pc} : cleared'[gate] = cleared[gate],
           ps'.done \cap CachedGates \subseteq ps.done \cup {pc},
           \/ pc \notin CachedGates
           \/ pc \in ps.done /\ cleared' = cleared
           \/ \E gate : gate = pc /\ (~Relevant(gate)' \/ Passed(gate)')
    PROVE JudgedInv'
<1>1. \A gate \in CachedGates : Behind(gate)' => gate = pc \/ Behind(gate)
  BY Onward, GateFacts DEF Skip, Behind
<1>2. ~AskingJira' /\ pc \notin Repairing
  BY StageSets DEF Skip, AskingJira
<1> SUFFICES ASSUME NEW gate \in CachedGates, Relevant(gate)', Known(gate)' PROVE Passed(gate)'
  BY DEF JudgedInv
<1>3. Relevant(gate)
  BY DEF Relevant
<1>4. CASE gate # pc \/ (pc \in ps.done /\ cleared' = cleared)
  <2>1. Known(gate) /\ cleared'[gate] = cleared[gate]
    BY <1>1, <1>2, <1>4 DEF Known
  <2>2. Passed(gate)
    BY <1>2, <1>3, <2>1 DEF JudgedInv
  <2> QED BY <2>1, <2>2 DEF Passed
<1> QED BY <1>4

LEMMA RetryCounts ==
    ASSUME ps \in StateType
    PROVE /\ RetryState.spent["conformance"] # 0
          /\ \A kind \in RetryKinds :
               [RetryState EXCEPT !.spent[kind] = @ + 1].spent["conformance"] # 0
<1>1. RetryState.spent["conformance"] = ps.spent["conformance"] + 1
  BY RetryMakes, KindFacts DEF StateType
<1>2. ps.spent["conformance"] \in Nat /\ RetryState \in StateType
  BY KindFacts, RetryTyped DEF StateType
<1>3. ASSUME NEW kind \in RetryKinds
      PROVE [RetryState EXCEPT !.spent[kind] = @ + 1].spent["conformance"] # 0
  <2>1. [RetryState EXCEPT !.spent[kind] = @ + 1].spent
          = [RetryState.spent EXCEPT ![kind] = @ + 1]
    BY <1>2 DEF StateType
  <2> QED BY <1>1, <1>2, <2>1, KindFacts DEF StateType
<1> QED BY <1>1, <1>2, <1>3

LEMMA StepJudged ==
    ASSUME Uninterrupted, NothingWaived, RepairsOnly,
           TypeInv, WholeDiff, TreeInv, TellsInv, SameInv, JudgedInv, [Next]_vars
    PROVE JudgedInv'
<1> USE DEF pass, sandbox, judgements, decisions
<1>1. CASE UNCHANGED vars
  BY <1>1 DEF vars, JudgedInv, Relevant, Known, Behind, Passed, AskingJira
<1>2. CASE CodegenCached
  BY <1>2, JudgedKeep, StageSets, PlaceSplit DEF CodegenCached, Skip, AskingJira
<1>3. CASE Codegen
  <2>1. ~ps.applied /\ pc = "codegen" /\ pc' = "coverage" /\ ps'.done = ps.done /\ ps'.spent = ps.spent
    BY <1>3, PlaceSplit DEF Codegen, Skip, TreeInv, TypeInv, TypeOK, StateType
  <2>2. \A gate \in CachedGates : gate \in ps.done => ~Relevant(gate)
    BY <2>1, StageSets DEF JudgedInv, Known, Passed
  <2>3. \A gate \in CachedGates : gate \in ps'.done => ~Relevant(gate)'
    BY <2>1, <2>2 DEF Relevant
  <2> QED BY <2>1, <2>3, JudgedFree, StageSets DEF AskingJira
<1>4. CASE CoverageRetry
  <2>1. pc' = "codegen" /\ ps'.done = ps.done \ RetryDrops /\ ps'.spent["conformance"] # 0
    BY <1>4, RetryMakes, RetryCounts
       DEF CoverageRetry, Retry, NewPass, RetryKinds, Retried, TypeInv, TypeOK
  <2>2. \A gate \in ps'.done : ~Relevant(gate)'
    BY <2>1 DEF Relevant, RetryDrops
  <2> QED BY <2>1, <2>2, JudgedFree, StageSets DEF AskingJira
<1>5. CASE AskConflict
  <2>1. pc \notin Repairing /\ pc' = "waiting" /\ UNCHANGED <<tree, cleared, answered>> /\ ~AskingJira'
    BY <1>5, StageSets
       DEF AskConflict, Park, Asked, AskingJira
  <2>2. /\ ps'.diff = ps.diff /\ ps'.done = ps.done /\ (ps'.applied <=> ps.applied)
        /\ ps'.spent = ps.spent
    BY <1>5 DEF AskConflict, Park, TypeInv, TypeOK, StateType
  <2> QED BY <2>1, <2>2, JudgedKeep, StageSets
<1>6. CASE ScopeRetry
  <2>1. pc' = "codegen" /\ ps'.done = ps.done \ RetryDrops /\ ps'.spent["conformance"] # 0
    BY <1>6, RetryMakes, RetryCounts
       DEF ScopeRetry, Retry, NewPass, RetryKinds, Retried, TypeInv, TypeOK
  <2>2. \A gate \in ps'.done : ~Relevant(gate)'
    BY <2>1 DEF Relevant, RetryDrops
  <2> QED BY <2>1, <2>2, JudgedFree, StageSets DEF AskingJira
<1>7. CASE PassStage
  BY <1>7, JudgedKeep, StageSets, PlaceSplit DEF PassStage, Skip, AskingJira
<1>8. CASE SkipApply
  BY <1>8, JudgedKeep, StageSets DEF SkipApply, AskingJira
<1>9. CASE Apply
  <2>1. /\ pc = "apply" /\ ~ps.applied /\ pc' = "patched"
        /\ UNCHANGED <<cleared, answered>>
    BY <1>9, PlaceSplit DEF Apply, Skip
  <2>2. /\ ps'.diff = ps.diff /\ ps'.done = ps.done /\ (ps'.applied <=> ps.applied)
        /\ ps'.spent = ps.spent
    BY <1>9 DEF Apply, TypeInv, TypeOK, StateType
  <2> QED BY <2>1, <2>2, JudgedKeep, StageSets DEF AskingJira
<1>10. CASE CommitPatch
  BY <1>10, JudgedKeep, StageSets, PlaceSplit DEF CommitPatch, Skip, AskingJira
<1>11. CASE RecordPatch
  <2>1. pc = "record" /\ Skip /\ UNCHANGED <<tree, cleared, answered>>
    BY <1>11 DEF RecordPatch
  <2>2. /\ ps'.diff = ps.diff /\ (ps.applied => ps'.applied) /\ ps'.spent = ps.spent
        /\ ps'.done \in {ps.done, ps.done \cup {"retry"}}
    BY <1>11 DEF RecordPatch, TypeInv, TypeOK, StateType
  <2> QED BY <2>1, <2>2, JudgedSkip, StageSets, Uncached
<1>12. CASE Complete
  <2>1. pc = "retry" /\ Skip /\ UNCHANGED <<tree, cleared, answered>>
    BY <1>12 DEF Complete, RepairsOnly
  <2>2. /\ ps'.diff = ps.diff /\ (ps.applied => ps'.applied) /\ ps'.spent = ps.spent
        /\ ps'.done \in {ps.done, ps.done \cup {"retry"}}
    BY <1>12 DEF Complete, TypeInv, TypeOK, StateType
  <2> QED BY <2>1, <2>2, JudgedSkip, StageSets, Uncached
<1>13. CASE SkipGate
  <2>1. /\ pc \in Running /\ Skip /\ ps' = ps /\ UNCHANGED <<tree, cleared, answered>>
        /\ pc \notin CachedGates \/ pc \in ps.done
    BY <1>13, StageSets, GateFacts, PlaceSplit, Uncached DEF SkipGate
  <2> QED BY <2>1, JudgedSkip DEF Known
<1>14. CASE CompileRepair
  BY <1>14, BoundsNat DEF CompileRepair, RepairsOnly, TypeInv, TypeOK
<1>15. CASE CompilePassed
  <2>1. /\ pc = "compile" /\ Skip /\ UNCHANGED <<tree, answered>>
        /\ cleared' = [cleared EXCEPT !["compile"] = tree]
    BY <1>15 DEF CompilePassed, Open, Clear, Sees, TreeGates
  <2>2. ps.applied /\ shows[tree] = ps.diff /\ pc \in Running
    BY <2>1, LateTree, LateStages, StageSets DEF SameInv
  <2>3. /\ ps'.done = ps.done \cup {"compile"} /\ ps'.diff = ps.diff /\ ps'.spent = ps.spent
        /\ (ps'.applied <=> ps.applied)
    BY <1>15, <2>1, <2>2, LateTree, LateStages, CompiledMakes DEF CompilePassed, TypeInv, TypeOK
  <2>4. /\ cleared'["compile"] = tree'
        /\ \A gate \in CachedGates \ {"compile"} : cleared'[gate] = cleared[gate]
    BY <2>1, <2>2, <2>3, GateFacts DEF TypeInv, TypeOK
  <2>5. Passed("compile")'
    BY <2>2, <2>3, <2>4 DEF Passed, TreeGates
  <2> QED BY <2>1, <2>2, <2>3, <2>4, <2>5, JudgedSkip
<1>16. CASE CompileSkipped
  BY <1>16, LateTree, LateStages DEF CompileSkipped, Open, NothingWaived
<1>17. CASE CompileCapped
  <2>1. pc \notin Repairing /\ pc' = "waiting" /\ UNCHANGED <<tree, cleared, answered>> /\ ~AskingJira'
    BY <1>17, StageSets
       DEF CompileCapped, Open, Park, Asked, AskingJira
  <2>2. /\ ps'.diff = ps.diff /\ ps'.done = ps.done /\ (ps'.applied <=> ps.applied)
        /\ ps'.spent = ps.spent
    BY <1>17 DEF CompileCapped, Park, TypeInv, TypeOK, StateType
  <2> QED BY <2>1, <2>2, JudgedKeep, StageSets
<1>18. CASE FeatureRepair
  BY <1>18 DEF FeatureRepair, NothingWaived
<1>19. CASE SemanticBlocked
  <2>1. pc \notin Repairing /\ pc' = "waiting" /\ UNCHANGED <<tree, cleared, answered>> /\ ~AskingJira'
    BY <1>19, StageSets
       DEF SemanticBlocked, Open, Park, Asked, AskingJira
  <2>2. /\ ps'.diff = ps.diff /\ ps'.done = ps.done /\ (ps'.applied <=> ps.applied)
        /\ ps'.spent = ps.spent
    BY <1>19 DEF SemanticBlocked, Park, TypeInv, TypeOK, StateType
  <2> QED BY <2>1, <2>2, JudgedKeep, StageSets
<1>20. CASE ConformancePassed
  <2>1. /\ pc = "conformance" /\ Skip /\ UNCHANGED <<ps, tree, answered>>
        /\ \A gate \in CachedGates : cleared'[gate] = cleared[gate]
    BY <1>20, Uncached, GateFacts DEF ConformancePassed, Clear, TypeInv, TypeOK
  <2> QED BY <2>1, JudgedSkip, StageSets, Uncached
<1>21. CASE ConformanceRetry
  <2>1. pc' = "codegen" /\ ps'.done = ps.done \ RetryDrops /\ ps'.spent["conformance"] # 0
    BY <1>21, RetryMakes, RetryCounts
       DEF ConformanceRetry, Retry, NewPass, RetryKinds, Retried, TypeInv, TypeOK
  <2>2. \A gate \in ps'.done : ~Relevant(gate)'
    BY <2>1 DEF Relevant, RetryDrops
  <2> QED BY <2>1, <2>2, JudgedFree, StageSets DEF AskingJira
<1>22. CASE SkipJira
  <2>1. /\ pc \in Running /\ Skip /\ ps' = ps /\ UNCHANGED <<tree, cleared, answered>>
        /\ pc \notin CachedGates \/ pc \in ps.done
    BY <1>22, StageSets, GateFacts, PlaceSplit, Uncached DEF SkipJira
  <2> QED BY <2>1, JudgedSkip DEF Known
<1>23. CASE AskReservation
  <2>1. pc \notin Repairing /\ pc' = "waiting" /\ UNCHANGED <<tree, cleared, answered>> /\ ~AskingJira'
    BY <1>23, StageSets
       DEF AskReservation, JiraGate, Park, Asked, AskingJira
  <2>2. /\ ps'.diff = ps.diff /\ ps'.done = ps.done /\ (ps'.applied <=> ps.applied)
        /\ ps'.spent = ps.spent
    BY <1>23 DEF AskReservation, Park, TypeInv, TypeOK, StateType
  <2> QED BY <2>1, <2>2, JudgedKeep, StageSets
<1>24. CASE AskJira
  <2>1. pc = "jira" /\ pc' = "waiting" /\ UNCHANGED <<tree, cleared, answered>>
    BY <1>24 DEF AskJira, JiraGate, Park
  <2>2. /\ ps'.diff = ps.diff /\ ps'.done = ps.done /\ (ps'.applied <=> ps.applied)
        /\ ps'.spent = ps.spent
    BY <1>24 DEF AskJira, Park, TypeInv, TypeOK, StateType
  <2>3. \A gate \in CachedGates : Known(gate)
    BY <2>1, Uncached, StageSets DEF Known, Behind
  <2> QED BY <2>1, <2>2, <2>3, JudgedKeepAll, StageSets
<1>25. CASE Transition
  <2>1. /\ pc = "transition" /\ pc' \in {"writeback", "finish"}
        /\ UNCHANGED <<ps, tree, cleared, answered>>
    BY <1>25, JudgingFacts DEF Transition
  <2>2. \A gate \in CachedGates : Known(gate)
    BY <2>1, Uncached, StageSets DEF Known, Behind
  <2> QED BY <2>1, <2>2, JudgedKeepAll, StageSets
<1>26. CASE RecordTransition
  <2>1. pc = "writeback" /\ Skip /\ UNCHANGED <<tree, cleared, answered>>
    BY <1>26 DEF RecordTransition
  <2>2. /\ ps'.diff = ps.diff /\ (ps.applied => ps'.applied) /\ ps'.spent = ps.spent
        /\ ps'.done \in {ps.done, ps.done \cup {"retry"}}
    BY <1>26 DEF RecordTransition, TypeInv, TypeOK, StateType
  <2> QED BY <2>1, <2>2, JudgedSkip, StageSets, Uncached
<1>27. CASE Finish
  <2>1. /\ pc \in Running /\ Skip /\ ps' = ps /\ UNCHANGED <<tree, cleared, answered>>
        /\ pc \notin CachedGates \/ pc \in ps.done
    BY <1>27, StageSets, GateFacts, PlaceSplit, Uncached DEF Finish
  <2> QED BY <2>1, JudgedSkip DEF Known
<1>28. CASE FailStage
  <2>1. pc' = "failed" /\ ps'.done = {}
    BY <1>28 DEF FailStage, Fail, NoState
  <2> QED BY <2>1, JudgedFree, StageSets DEF AskingJira
<1>29. CASE ConformanceFailed
  <2>1. pc' = "failed" /\ ps'.done = {}
    BY <1>29 DEF ConformanceFailed, Fail, NoState
  <2> QED BY <2>1, JudgedFree, StageSets DEF AskingJira
<1>30. CASE Grant
  <2>1. /\ pc = "waiting" /\ pc' = "codegen" /\ UNCHANGED <<tree, cleared>>
        /\ answered' = answered \cup {<<approval.question, approval.diff, tree>>}
        /\ ps' = Answer(approval.question)
    BY <1>30 DEF Grant, NewPass
  <2>2. /\ ps'.diff = ps.diff /\ (ps'.applied <=> ps.applied) /\ ps'.spent = ps.spent
        /\ approval.question # "semantic" => ps'.done \subseteq ps.done
        /\ ps'.done \subseteq ps.done \cup {"semantic"}
    BY <2>1, AnswerMakes DEF TypeInv, TypeOK
  <2>3. CASE approval.question # "semantic"
    BY <2>1, <2>2, <2>3, JudgedKeep, StageSets DEF AskingJira
  <2>4. CASE approval.question = "semantic"
    <3>1. ps.applied /\ approval.diff = ps.diff
      BY <2>1, <2>4, StageSets DEF TreeInv, AfterPatch, SameInv
    <3>2. Passed("semantic")'
      BY <2>1, <2>2, <2>4, <3>1 DEF Passed
    <3> QED BY <2>1, <2>2, <3>2, JudgedOne, StageSets DEF AskingJira
  <2> QED BY <2>3, <2>4
<1>31. CASE Reject
  BY <1>31, JudgedKeep, StageSets DEF Reject, AskingJira
<1>32. CASE HandEdit
  BY <1>32 DEF HandEdit, RepairsOnly
<1>33. CASE Crash
  BY <1>33 DEF Crash, Uninterrupted, TypeInv, TypeOK
<1>34. CASE ResumeWaiting
  BY <1>34 DEF ResumeWaiting, TreeInv
<1>35. CASE ResumeReview
  BY <1>35 DEF ResumeReview, TreeInv
<1>36. CASE ResumeCodegen
  BY <1>36 DEF ResumeCodegen, TreeInv
<1>37. CASE ResumeGated
  BY <1>37 DEF ResumeGated, TreeInv
<1>38. ASSUME NEW gate \in CachedGates, PassGate(gate) PROVE JudgedInv'
  <2>1. /\ pc = gate /\ gate \in Running \ Unpatched /\ UNCHANGED <<tree, answered>>
        /\ cleared' = [cleared EXCEPT ![gate] = Sees(gate)]
    BY <1>38, LateStages, GateFacts DEF PassGate, Open, Clear
  <2>2. /\ ps'.diff = ps.diff /\ (ps'.applied <=> ps.applied) /\ ps'.spent = ps.spent
        /\ ps'.done \subseteq ps.done \cup {gate}
    BY <1>38, DoneMakes, DoneFields DEF PassGate, TypeInv, TypeOK
  <2>3. /\ cleared'[gate] = Sees(gate)
        /\ \A other \in CachedGates \ {gate} : cleared'[other] = cleared[other]
    BY <2>1, GateFacts DEF TypeInv, TypeOK
  <2>4. ps.applied
    BY <2>1, LateTree, LateStages
  <2>5. ~Relevant(gate)' \/ Passed(gate)'
    <3>1. CASE gate = "symbols"
      BY <3>1 DEF Relevant
    <3>2. CASE gate # "symbols"
      <4>1. local = ps.diff
        BY <2>1, <2>4, StageSets DEF SameInv
      <4>2. Sees(gate) = IF gate \in TreeGates THEN tree ELSE ps.diff
        BY <3>2, <4>1 DEF Sees, CachedGates
      <4> QED BY <2>1, <2>2, <2>3, <2>4, <4>2 DEF Passed
    <3> QED BY <3>1, <3>2
  <2>6. CASE Skip
    BY <2>1, <2>2, <2>3, <2>5, <2>6, JudgedSkip
  <2>7. CASE pc' = "returned"
    BY <2>1, <2>2, <2>3, <2>5, <2>7, JudgedOne, StageSets DEF AskingJira
  <2> QED BY <1>38, <2>1, <2>6, <2>7 DEF PassGate, Skip
<1>39. ASSUME NEW kind \in RepairKinds, RepairApply(kind) PROVE JudgedInv'
  BY <1>39, RepairPlaces DEF RepairApply, JudgedInv
<1>40. ASSUME NEW kind \in RepairKinds, RepairRecord(kind) PROVE JudgedInv'
  <2>1. pc' = "codegen" /\ pc \in Late
    BY <1>40, RepairPlaces, LateStages DEF RepairRecord, NewPass
  <2>2. ps'.done = ps.done \ RepairDrops
        /\ ps'.spent = [ps.spent EXCEPT ![kind] = ps.spent[kind] + 1]
    BY <1>40, <2>1, RepairMakes, LateTree DEF RepairRecord, NewPass, TypeInv, TypeOK
  <2>3. ps'.spent[kind] # 0
    BY <2>2, KindFacts DEF TypeInv, TypeOK, StateType
  <2>4. \A gate \in ps'.done : ~Relevant(gate)'
    BY <2>2, <2>3 DEF Relevant, RepairDrops
  <2> QED BY <2>1, <2>4, JudgedFree, StageSets DEF AskingJira
<1> HIDE DEF pass, sandbox, judgements, decisions
<1> QED
    BY <1>1, <1>2, <1>3, <1>4, <1>5, <1>6, <1>7, <1>8, <1>9, <1>10, <1>11, <1>12, <1>13, <1>14,
       <1>15, <1>16, <1>17, <1>18, <1>19, <1>20, <1>21, <1>22, <1>23, <1>24, <1>25, <1>26,
       <1>27, <1>28, <1>29, <1>30, <1>31, <1>32, <1>33, <1>34, <1>35, <1>36, <1>37, <1>38,
       <1>39, <1>40
    DEF Next, PassStep, Operator, Environment

-----------------------------------------------------------------------------
(* How much work there is.  A generation follows the first entry of the    *)
(* task or a retry, and each retry takes one of the conformance attempts,  *)
(* whoever asks for it; a repair is counted when it is recorded, or is     *)
(* under way.                                                              *)

Repaired(count) ==
    count["refine"] + count["semantic"] + count["runtime"] + count["reservation"]

WorkInv ==
    /\ edits <= Total(Budget)
    /\ \A kind \in Kinds \ {"conformance"} : ps.spent[kind] <= Budget[kind]
    /\ ps.spent["conformance"]
         < ps.spent["coverage"] + ps.spent["scope"] + Budget["conformance"]
    /\ \A kind \in RepairKinds : pc = Patched[kind] => ps.spent[kind] < Budget[kind]
    /\ pc # "failed" =>
         edits <= ps.spent["conformance"] + (IF ps.result # 0 THEN 1 ELSE 0)
                  + Repaired(ps.spent) + (IF pc \in Repairing THEN 1 ELSE 0)

LEMMA WorkPlaces ==
    /\ "failed" \notin Running \cup Repairing \cup {"waiting"}
    /\ Running \cap Repairing = {} /\ "waiting" \notin Running
    /\ \A stage \in Running : After[stage] # "failed"
    /\ \A kind \in RepairKinds : RepairStage[kind] \in Running
BY Stages, PlaceFacts, NextStage DEF RepairStage, RepairKinds

\* The numbers.
LEMMA Counts ==
    ASSUME TypeInv
    PROVE /\ edits \in Nat
          /\ \A kind \in Kinds : ps.spent[kind] \in Nat /\ Budget[kind] \in Nat
          /\ Kinds = {"coverage", "scope", "conformance",
                      "refine", "semantic", "runtime", "reservation"}
<1>1. edits \in Nat /\ ps.spent \in [Kinds -> Nat] /\ Budget \in [Kinds -> Nat]
  BY BoundsNat DEF TypeInv, TypeOK, StateType, Versions
<1> QED BY <1>1 DEF Kinds, RetryKinds, RepairKinds

\* The last part of WorkInv implies the first, but where the task has failed.
LEMMA WorkTotal ==
    ASSUME NEW spent \in [Kinds -> Nat], NEW count \in Nat, NEW place,
           \A kind \in Kinds \ {"conformance"} : spent[kind] <= Budget[kind],
           spent["conformance"] < spent["coverage"] + spent["scope"] + Budget["conformance"],
           \A kind \in RepairKinds : place = Patched[kind] => spent[kind] < Budget[kind],
           count <= spent["conformance"] + 1
                    + Repaired(spent) + (IF place \in Repairing THEN 1 ELSE 0)
    PROVE count <= Total(Budget)
<1>1. Kinds = {"coverage", "scope", "conformance", "refine", "semantic", "runtime", "reservation"}
  BY DEF Kinds, RetryKinds, RepairKinds
<1>2. \A kind \in Kinds : spent[kind] \in Nat /\ Budget[kind] \in Nat
  BY BoundsNat
<1>3. spent["conformance"] + 1
        <= Budget["coverage"] + Budget["scope"] + Budget["conformance"]
  BY <1>1, <1>2
<1>4. Repaired(spent) + (IF place \in Repairing THEN 1 ELSE 0) <= Repaired(Budget)
  <2>1. CASE place \notin Repairing
    BY <1>1, <1>2, <2>1 DEF Repaired
  <2>2. CASE place \in Repairing
    <3>1. PICK kind \in RepairKinds : spent[kind] < Budget[kind]
      BY <2>2 DEF Repairing
    <3> QED BY <1>1, <1>2, <2>2, <3>1 DEF Repaired, RepairKinds
  <2> QED BY <2>1, <2>2
<1>5. Repaired(spent) \in Nat /\ Repaired(Budget) \in Nat
  BY <1>1, <1>2 DEF Repaired
<1> HIDE DEF Repaired
<1>6. Total(Budget)
        = Budget["coverage"] + Budget["scope"] + Budget["conformance"] + Repaired(Budget)
  BY <1>1, <1>2 DEF Total, Repaired
<1> QED BY <1>1, <1>2, <1>3, <1>4, <1>5, <1>6

LEMMA InitWork == Init => WorkInv
<1> SUFFICES ASSUME Init PROVE WorkInv
  OBVIOUS
<1>1. \A kind \in Kinds : ps.spent[kind] = 0 /\ Budget[kind] \in Nat
  BY BoundsNat DEF Init, NoState
<1>2. Kinds = {"coverage", "scope", "conformance", "refine", "semantic", "runtime", "reservation"}
  BY DEF Kinds, RetryKinds, RepairKinds
<1>3. edits = 0 /\ ps.result = 0 /\ pc \notin Repairing /\ Budget["conformance"] > 0
  BY BoundsNat, StageSets DEF Init, NoState
<1>4. \A kind \in RepairKinds : pc # Patched[kind]
  BY <1>3, PlaceFacts
<1> QED BY <1>1, <1>2, <1>3, <1>4 DEF WorkInv, Total, Repaired

\* A step that makes nothing and spends nothing.
LEMMA WorkKeep ==
    ASSUME TypeInv, WorkInv, pc \notin Repairing \cup {"failed"}, pc' \notin Repairing,
           edits' = edits, ps'.spent = ps.spent, ps'.result # 0 \/ ps.result = ps'.result
    PROVE WorkInv'
<1>1. \A kind \in RepairKinds : pc' # Patched[kind]
  BY PlaceFacts
<1>2. Repaired(ps.spent) \in Nat
  BY Counts DEF Repaired
<1> QED BY <1>1, <1>2, Counts DEF WorkInv

\* One that generates code.
LEMMA WorkNew ==
    ASSUME TypeInv, TypeInv', WorkInv, pc \notin Repairing \cup {"failed"}, pc' \notin Repairing,
           edits' = edits + 1, ps'.spent = ps.spent, ps'.result # 0, ps.result = 0
    PROVE WorkInv'
<1>1. \A kind \in RepairKinds : pc' # Patched[kind]
  BY PlaceFacts
<1>2. Repaired(ps.spent) \in Nat
  BY Counts DEF Repaired
<1>3. edits' <= ps'.spent["conformance"] + 1 + Repaired(ps'.spent)
  BY <1>2, Counts DEF WorkInv
<1>4. edits' <= Total(Budget)
  <2>1. edits' \in Nat /\ ps.spent \in [Kinds -> Nat]
    BY Counts DEF TypeInv, TypeOK, StateType
  <2>2. edits' <= ps.spent["conformance"] + 1 + Repaired(ps.spent)
                  + (IF pc' \in Repairing THEN 1 ELSE 0)
    BY <1>2, <1>3, Counts
  <2>3. \A kind \in RepairKinds : pc' = Patched[kind] => ps.spent[kind] < Budget[kind]
    BY <1>1
  <2> QED BY <2>1, <2>2, <2>3, WorkTotal DEF WorkInv
<1> QED BY <1>1, <1>2, <1>3, <1>4, Counts DEF WorkInv

\* One that drops the code, for one attempt of the conformance budget, and of its own.
LEMMA WorkRetry ==
    ASSUME TypeInv, WorkInv, pc \notin Repairing \cup {"failed"}, pc' \notin Repairing,
           edits' = edits, ps'.result = 0,
           \/ /\ ps.spent["conformance"] + 1 < Budget["conformance"]
              /\ ps'.spent = [ps.spent EXCEPT !["conformance"] = @ + 1]
           \/ \E kind \in {"coverage", "scope"} :
                /\ ps.spent[kind] < Budget[kind]
                /\ ps'.spent = [ps.spent EXCEPT !["conformance"] = @ + 1, ![kind] = @ + 1]
    PROVE WorkInv'
<1>1. \A kind \in RepairKinds : pc' # Patched[kind]
  BY PlaceFacts
<1>2. ps.spent \in [Kinds -> Nat]
  BY DEF TypeInv, TypeOK, StateType
<1>3. /\ ps'.spent["conformance"] = ps.spent["conformance"] + 1
      /\ \A kind \in RepairKinds : ps'.spent[kind] = ps.spent[kind]
      /\ \A kind \in Kinds \ {"conformance"} : ps'.spent[kind] <= Budget[kind]
      /\ ps'.spent["conformance"]
           < ps'.spent["coverage"] + ps'.spent["scope"] + Budget["conformance"]
  BY <1>2, Counts DEF WorkInv, RepairKinds
<1>4. Repaired(ps'.spent) = Repaired(ps.spent) /\ Repaired(ps.spent) \in Nat
  BY <1>3, Counts DEF Repaired, RepairKinds
<1> QED BY <1>1, <1>3, <1>4, Counts DEF WorkInv

LEMMA WorkFail ==
    ASSUME TypeInv, WorkInv, pc' = "failed", edits' = edits, ps' = NoState
    PROVE WorkInv'
<1>1. \A kind \in RepairKinds : pc' # Patched[kind]
  BY PlaceFacts, WorkPlaces
<1>2. \A kind \in Kinds : ps'.spent[kind] = 0
  BY DEF NoState
<1> QED BY <1>1, <1>2, Counts, BoundsNat DEF WorkInv

\* A repair.
LEMMA WorkRepair ==
    ASSUME TypeInv, TypeInv', WorkInv, NEW kind \in RepairKinds, pc \in Running,
           pc' = Patched[kind], ps' = ps, edits' = edits + 1, ps.spent[kind] < Budget[kind]
    PROVE WorkInv'
<1>1. \A other \in RepairKinds : pc' = Patched[other] => other = kind
  BY DEF Patched, RepairKinds
<1>2. pc' \in Repairing /\ pc \notin Repairing \cup {"failed"}
  BY PlaceFacts, WorkPlaces
<1>3. Repaired(ps.spent) \in Nat
  BY Counts DEF Repaired
<1>4. edits' <= ps.spent["conformance"] + (IF ps.result # 0 THEN 1 ELSE 0) + Repaired(ps.spent) + 1
  BY <1>2, <1>3, Counts DEF WorkInv
<1>5. \A other \in RepairKinds : pc' = Patched[other] => ps.spent[other] < Budget[other]
  BY <1>1
<1>6. edits' <= Total(Budget)
  <2>1. edits' \in Nat /\ ps.spent \in [Kinds -> Nat]
    BY DEF TypeInv, TypeOK, StateType, Versions
  <2>2. edits' <= ps.spent["conformance"] + 1 + Repaired(ps.spent)
                  + (IF pc' \in Repairing THEN 1 ELSE 0)
    BY <1>2, <1>3, <1>4, Counts
  <2> QED BY <1>5, <2>1, <2>2, WorkTotal DEF WorkInv
<1> QED BY <1>2, <1>4, <1>5, <1>6, Counts DEF WorkInv

LEMMA WorkRecord ==
    ASSUME TypeInv, WorkInv, NEW kind \in RepairKinds, pc = Patched[kind], pc' = "codegen",
           edits' = edits, ps'.result # 0,
           ps'.spent = [ps.spent EXCEPT ![kind] = ps.spent[kind] + 1]
    PROVE WorkInv'
<1>1. \A other \in RepairKinds : pc' # Patched[other]
  BY PlaceFacts, StageSets
<1>2. pc \in Repairing /\ pc # "failed" /\ pc' \notin Repairing
  BY PlaceFacts, WorkPlaces, StageSets
<1>3. ps.spent \in [Kinds -> Nat] /\ kind \in Kinds /\ kind # "conformance"
  BY KindFacts DEF TypeInv, TypeOK, StateType, RepairKinds
<1>4. /\ ps'.spent[kind] = ps.spent[kind] + 1
      /\ \A other \in Kinds \ {kind} : ps'.spent[other] = ps.spent[other]
  BY <1>3
<1>5. Repaired(ps'.spent) = Repaired(ps.spent) + 1 /\ Repaired(ps.spent) \in Nat
  BY <1>4, Counts DEF Repaired, RepairKinds
<1>6. \A other \in Kinds \ {"conformance"} : ps'.spent[other] <= Budget[other]
  BY <1>3, <1>4, Counts DEF WorkInv
<1>7. ps'.spent["conformance"]
         < ps'.spent["coverage"] + ps'.spent["scope"] + Budget["conformance"]
  BY <1>3, <1>4, Counts DEF WorkInv, RepairKinds
<1>8. edits' <= ps'.spent["conformance"] + 1 + Repaired(ps'.spent)
  BY <1>2, <1>3, <1>4, <1>5, Counts DEF WorkInv
<1>9. edits' <= Total(Budget)
  BY DEF WorkInv
<1>10. ps'.spent["conformance"] \in Nat /\ Repaired(ps'.spent) \in Nat
  BY <1>3, <1>4, <1>5, Counts
<1> QED BY <1>1, <1>2, <1>6, <1>7, <1>8, <1>9, <1>10 DEF WorkInv

LEMMA RetrySpends ==
    ASSUME ps \in StateType
    PROVE \A kind \in {"coverage", "scope"} :
             LET s == [RetryState EXCEPT !.spent[kind] = @ + 1]
             IN  /\ s.result = 0 /\ s = [RetryState EXCEPT !.spent[kind] = ps.spent[kind] + 1]
                 /\ s.spent = [ps.spent EXCEPT !["conformance"] = @ + 1, ![kind] = @ + 1]
<1> TAKE kind \in {"coverage", "scope"}
<1> DEFINE s == [RetryState EXCEPT !.spent[kind] = @ + 1]
<1>1. RetryState.spent = [ps.spent EXCEPT !["conformance"] = @ + 1] /\ RetryState.result = 0
  BY RetryMakes DEF Retried
<1>2. RetryState \in StateType /\ ps.spent \in [Kinds -> Nat] /\ kind \in Kinds
  BY RetryTyped, KindFacts DEF StateType
<1>3. s.spent = [RetryState.spent EXCEPT ![kind] = @ + 1] /\ s.result = RetryState.result
  BY <1>2 DEF StateType
<1>4. RetryState.spent[kind] = ps.spent[kind]
  BY <1>1, <1>2
<1>5. s = [RetryState EXCEPT !.spent[kind] = ps.spent[kind] + 1]
  BY <1>4
<1> QED BY <1>1, <1>2, <1>3, <1>5

LEMMA StepWork ==
    ASSUME Uninterrupted, ~On("feature_repair"), RepairsOnly,
           TypeInv, TypeInv', WholeDiff, TreeInv, TellsInv, WorkInv, [Next]_vars
    PROVE WorkInv'
<1> USE DEF pass, sandbox, judgements, decisions
<1>1. CASE UNCHANGED vars
  BY <1>1 DEF vars, WorkInv
<1>2. CASE CodegenCached
  <2>1. pc \in Running /\ Skip /\ UNCHANGED <<ps, edits>>
    BY <1>2, StageSets, GateFacts DEF CodegenCached
  <2> QED BY <2>1, WorkKeep, StageSets, WorkPlaces DEF Skip
<1>3. CASE Codegen
  <2>1. pc = "codegen" /\ Skip /\ edits' = edits + 1 /\ ps.result = 0
    BY <1>3 DEF Codegen, NewVersion
  <2>2. ps'.result = edits + 1 /\ ps'.spent = ps.spent
    BY <1>3 DEF Codegen, NewVersion, TypeInv, TypeOK, StateType
  <2> QED BY <2>1, <2>2, WorkNew, StageSets, WorkPlaces, NewIsNew DEF Skip
<1>4. CASE CoverageRetry
  <2>1. /\ pc' = "codegen" /\ edits' = edits /\ pc \in Running
        /\ ps.spent["coverage"] < Budget["coverage"]
        /\ ps' = [RetryState EXCEPT !.spent["coverage"] = ps.spent["coverage"] + 1]
    BY <1>4, StageSets, RetrySpends DEF CoverageRetry, Retry, NewPass, RetryKinds, TypeInv, TypeOK
  <2>2. /\ ps'.result = 0
        /\ ps'.spent = [ps.spent EXCEPT !["conformance"] = @ + 1, !["coverage"] = @ + 1]
    BY <2>1, RetrySpends DEF RetryKinds, TypeInv, TypeOK
  <2> QED BY <2>1, <2>2, WorkRetry, StageSets, WorkPlaces
<1>5. CASE AskConflict
  <2>1. pc = "coverage" /\ pc' = "waiting" /\ edits' = edits
    BY <1>5 DEF AskConflict, Park
  <2>2. ps'.result = ps.result /\ ps'.spent = ps.spent
    BY <1>5 DEF AskConflict, Park, TypeInv, TypeOK, StateType
  <2> QED BY <2>1, <2>2, WorkKeep, StageSets, WorkPlaces DEF Skip
<1>6. CASE ScopeRetry
  <2>1. /\ pc' = "codegen" /\ edits' = edits /\ pc \in Running
        /\ ps.spent["scope"] < Budget["scope"]
        /\ ps' = [RetryState EXCEPT !.spent["scope"] = ps.spent["scope"] + 1]
    BY <1>6, StageSets, RetrySpends DEF ScopeRetry, Retry, NewPass, RetryKinds, TypeInv, TypeOK
  <2>2. /\ ps'.result = 0
        /\ ps'.spent = [ps.spent EXCEPT !["conformance"] = @ + 1, !["scope"] = @ + 1]
    BY <2>1, RetrySpends DEF RetryKinds, TypeInv, TypeOK
  <2> QED BY <2>1, <2>2, WorkRetry, StageSets, WorkPlaces
<1>7. CASE PassStage
  <2>1. pc \in Running /\ Skip /\ UNCHANGED <<ps, edits>>
    BY <1>7, StageSets, GateFacts DEF PassStage
  <2> QED BY <2>1, WorkKeep, StageSets, WorkPlaces DEF Skip
<1>8. CASE SkipApply
  BY <1>8, WorkKeep, StageSets, WorkPlaces DEF SkipApply
<1>9. CASE Apply
  <2>1. pc = "apply" /\ Skip /\ edits' = edits
    BY <1>9, StageSets DEF Apply, TreeInv, Unpatched
  <2>2. ps'.result = ps.result /\ ps'.spent = ps.spent
    BY <1>9 DEF Apply, TypeInv, TypeOK, StateType
  <2> QED BY <2>1, <2>2, WorkKeep, StageSets, WorkPlaces DEF Skip
<1>10. CASE CommitPatch
  <2>1. pc \in Running /\ Skip /\ UNCHANGED <<ps, edits>>
    BY <1>10, StageSets, GateFacts DEF CommitPatch
  <2> QED BY <2>1, WorkKeep, StageSets, WorkPlaces DEF Skip
<1>11. CASE RecordPatch
  <2>1. pc = "record" /\ Skip /\ edits' = edits
    BY <1>11 DEF RecordPatch
  <2>2. ps'.result = ps.result /\ ps'.spent = ps.spent
    BY <1>11 DEF RecordPatch, TypeInv, TypeOK, StateType
  <2> QED BY <2>1, <2>2, WorkKeep, StageSets, WorkPlaces DEF Skip
<1>12. CASE Complete
  <2>1. pc = "retry" /\ Skip /\ edits' = edits
    BY <1>12 DEF Complete, RepairsOnly
  <2>2. ps'.result = ps.result /\ ps'.spent = ps.spent
    BY <1>12 DEF Complete, TypeInv, TypeOK, StateType
  <2> QED BY <2>1, <2>2, WorkKeep, StageSets, WorkPlaces DEF Skip
<1>13. CASE SkipGate
  <2>1. pc \in Running /\ Skip /\ UNCHANGED <<ps, edits>>
    BY <1>13, StageSets, GateFacts DEF SkipGate
  <2> QED BY <2>1, WorkKeep, StageSets, WorkPlaces DEF Skip
<1>14. CASE CompileRepair
  BY <1>14, BoundsNat DEF CompileRepair, RepairsOnly, TypeInv, TypeOK
<1>15. CASE CompilePassed
  <2>1. pc = "compile" /\ Skip /\ edits' = edits /\ tree # 0
    BY <1>15 DEF CompilePassed, Open
  <2>2. ps'.result # 0 /\ ps'.spent = ps.spent
    BY <1>15, <2>1, LateTree, LateStages, CompiledMakes DEF CompilePassed, TypeInv, TypeOK
  <2> QED BY <2>1, <2>2, WorkKeep, StageSets, WorkPlaces DEF Skip
<1>16. CASE CompileSkipped
  <2>1. pc = "compile" /\ Skip /\ edits' = edits
    BY <1>16 DEF CompileSkipped, Open
  <2>2. ps'.result = ps.result /\ ps'.spent = ps.spent
    BY <1>16, DoneMakes, DoneFields DEF CompileSkipped, Open, TypeInv, TypeOK, StateType
  <2> QED BY <2>1, <2>2, WorkKeep, StageSets, WorkPlaces DEF Skip
<1>17. CASE CompileCapped
  <2>1. pc = "compile" /\ pc' = "waiting" /\ edits' = edits
    BY <1>17 DEF CompileCapped, Open, Park
  <2>2. ps'.result = ps.result /\ ps'.spent = ps.spent
    BY <1>17 DEF CompileCapped, Open, Park, TypeInv, TypeOK, StateType
  <2> QED BY <2>1, <2>2, WorkKeep, StageSets, WorkPlaces DEF Skip
<1>18. CASE FeatureRepair
  BY <1>18 DEF FeatureRepair
<1>19. CASE SemanticBlocked
  <2>1. pc = "semantic" /\ pc' = "waiting" /\ edits' = edits
    BY <1>19 DEF SemanticBlocked, Open, Park
  <2>2. ps'.result = ps.result /\ ps'.spent = ps.spent
    BY <1>19 DEF SemanticBlocked, Open, Park, TypeInv, TypeOK, StateType
  <2> QED BY <2>1, <2>2, WorkKeep, StageSets, WorkPlaces DEF Skip
<1>20. CASE ConformancePassed
  <2>1. pc \in Running /\ Skip /\ UNCHANGED <<ps, edits>>
    BY <1>20, StageSets, GateFacts DEF ConformancePassed
  <2> QED BY <2>1, WorkKeep, StageSets, WorkPlaces DEF Skip
<1>21. CASE ConformanceRetry
  <2>1. /\ pc' = "codegen" /\ edits' = edits /\ pc \in Running /\ ps' = RetryState
        /\ ps.spent["conformance"] + 1 < Budget["conformance"]
    BY <1>21, StageSets DEF ConformanceRetry, Retry, NewPass
  <2>2. ps'.result = 0 /\ ps'.spent = [ps.spent EXCEPT !["conformance"] = @ + 1]
    BY <2>1, RetryMakes DEF Retried, TypeInv, TypeOK
  <2> QED BY <2>1, <2>2, WorkRetry, StageSets, WorkPlaces
<1>22. CASE SkipJira
  <2>1. pc \in Running /\ Skip /\ UNCHANGED <<ps, edits>>
    BY <1>22, StageSets, GateFacts DEF SkipJira
  <2> QED BY <2>1, WorkKeep, StageSets, WorkPlaces DEF Skip
<1>23. CASE AskReservation
  <2>1. pc = "jira" /\ pc' = "waiting" /\ edits' = edits
    BY <1>23 DEF AskReservation, JiraGate, Park
  <2>2. ps'.result = ps.result /\ ps'.spent = ps.spent
    BY <1>23 DEF AskReservation, JiraGate, Park, TypeInv, TypeOK, StateType
  <2> QED BY <2>1, <2>2, WorkKeep, StageSets, WorkPlaces DEF Skip
<1>24. CASE AskJira
  <2>1. pc = "jira" /\ pc' = "waiting" /\ edits' = edits
    BY <1>24 DEF AskJira, JiraGate, Park
  <2>2. ps'.result = ps.result /\ ps'.spent = ps.spent
    BY <1>24 DEF AskJira, JiraGate, Park, TypeInv, TypeOK, StateType
  <2> QED BY <2>1, <2>2, WorkKeep, StageSets, WorkPlaces DEF Skip
<1>25. CASE Transition
  <2>1. /\ pc = "transition" /\ pc' \in {"writeback", "finish"}
        /\ UNCHANGED <<ps, edits>>
    BY <1>25, JudgingFacts DEF Transition
  <2> QED BY <2>1, WorkKeep, StageSets, WorkPlaces
<1>26. CASE RecordTransition
  <2>1. pc = "writeback" /\ Skip /\ edits' = edits
    BY <1>26 DEF RecordTransition
  <2>2. ps'.result = ps.result /\ ps'.spent = ps.spent
    BY <1>26 DEF RecordTransition, TypeInv, TypeOK, StateType
  <2> QED BY <2>1, <2>2, WorkKeep, StageSets, WorkPlaces DEF Skip
<1>27. CASE Finish
  <2>1. pc \in Running /\ Skip /\ UNCHANGED <<ps, edits>>
    BY <1>27, StageSets, GateFacts DEF Finish
  <2> QED BY <2>1, WorkKeep, StageSets, WorkPlaces DEF Skip
<1>28. CASE FailStage
  <2>1. pc' = "failed" /\ edits' = edits /\ ps' = NoState
    BY <1>28 DEF FailStage, Fail
  <2> QED BY <2>1, WorkFail
<1>29. CASE ConformanceFailed
  <2>1. pc' = "failed" /\ edits' = edits /\ ps' = NoState
    BY <1>29 DEF ConformanceFailed, Fail
  <2> QED BY <2>1, WorkFail
<1>30. CASE Grant
  <2>1. pc = "waiting" /\ pc' = "codegen" /\ edits' = edits
    BY <1>30 DEF Grant, NewPass
  <2>2. ps'.result = ps.result /\ ps'.spent = ps.spent
    BY <1>30, AnswerMakes DEF Grant, NewPass, TypeInv, TypeOK
  <2> QED BY <2>1, <2>2, WorkKeep, StageSets, WorkPlaces
<1>31. CASE Reject
  BY <1>31, WorkKeep, StageSets, WorkPlaces DEF Reject
<1>32. CASE HandEdit
  BY <1>32 DEF HandEdit, RepairsOnly
<1>33. CASE Crash
  BY <1>33 DEF Crash, Uninterrupted, TypeInv, TypeOK
<1>34. CASE ResumeWaiting
  BY <1>34 DEF ResumeWaiting, TreeInv
<1>35. CASE ResumeReview
  BY <1>35 DEF ResumeReview, TreeInv
<1>36. CASE ResumeCodegen
  BY <1>36 DEF ResumeCodegen, TreeInv
<1>37. CASE ResumeGated
  BY <1>37 DEF ResumeGated, TreeInv
<1>38. ASSUME NEW gate \in CachedGates, PassGate(gate) PROVE WorkInv'
  <2>1. /\ pc = gate /\ gate \in Running /\ edits' = edits
        /\ pc' \in {After[gate], "returned"}
    BY <1>38, GateFacts DEF PassGate, Open
  <2>2. ps'.result = ps.result /\ ps'.spent = ps.spent
    BY <1>38, DoneMakes, DoneFields DEF PassGate, TypeInv, TypeOK
  <2> QED BY <2>1, <2>2, WorkKeep, StageSets, WorkPlaces
<1>39. ASSUME NEW kind \in RepairKinds, RepairApply(kind) PROVE WorkInv'
  <2>1. /\ pc \in Running /\ pc' = Patched[kind] /\ ps' = ps /\ edits' = edits + 1
        /\ ps.spent[kind] < Budget[kind]
    BY <1>39, WorkPlaces, StageSets DEF RepairApply, Open, JiraGate, Edit, Changed, NewVersion
  <2> QED BY <2>1, WorkRepair
<1>40. ASSUME NEW kind \in RepairKinds, RepairRecord(kind) PROVE WorkInv'
  <2>1. pc = Patched[kind] /\ pc \in Late /\ pc' = "codegen" /\ edits' = edits
    BY <1>40, RepairPlaces, LateStages DEF RepairRecord, NewPass
  <2>2. ps'.result # 0 /\ ps'.spent = [ps.spent EXCEPT ![kind] = ps.spent[kind] + 1]
    BY <1>40, <2>1, RepairMakes, LateTree DEF RepairRecord, NewPass, TypeInv, TypeOK
  <2> QED BY <2>1, <2>2, WorkRecord
<1> HIDE DEF pass, sandbox, judgements, decisions
<1> QED
    BY <1>1, <1>2, <1>3, <1>4, <1>5, <1>6, <1>7, <1>8, <1>9, <1>10, <1>11, <1>12, <1>13, <1>14,
       <1>15, <1>16, <1>17, <1>18, <1>19, <1>20, <1>21, <1>22, <1>23, <1>24, <1>25, <1>26,
       <1>27, <1>28, <1>29, <1>30, <1>31, <1>32, <1>33, <1>34, <1>35, <1>36, <1>37, <1>38,
       <1>39, <1>40
    DEF Next, PassStep, Operator, Environment

-----------------------------------------------------------------------------
(* The theorems.                                                           *)

LEMMA TreeInvariant ==
    ASSUME Uninterrupted
    PROVE Spec => [](TypeInv /\ WholeDiff /\ TreeInv /\ TellsInv)
<1>1. Init => TreeInv /\ TellsInv
  BY InitTree
<1>2. TypeInv /\ WholeDiff /\ TreeInv /\ TellsInv /\ [Next]_vars => TreeInv' /\ TellsInv'
  BY StepTree, StepTells
<1> QED BY <1>1, <1>2, Invariant, PTL DEF Spec

\* Where every repair refreshes the diff and a missing compiler does not waive the gate, what
\* a Jira approval shows is what git diff tells of the code in the sandbox, and the compile
\* gate has let this code through: no chain of repairs, retries, grants and manual edits leads to the
\* approval with a diff or a cached result from before the last change
\* (_refresh_codegen_diff_from_sandbox, _reset_for_conformance_retry,
\* _reset_after_semantic_quality_refine, resume_after_approval).
THEOREM ShownCompiled ==
    ASSUME Uninterrupted, NothingWaived
    PROVE Spec => []ShownIsCompiled
<1>1. Init => CompiledInv
  BY InitCompiled
<1>2. TypeInv /\ WholeDiff /\ TreeInv /\ TellsInv /\ CompiledInv /\ [Next]_vars => CompiledInv'
  BY StepCompiled
<1>3. TreeInv /\ CompiledInv => ShownIsCompiled
  BY StageSets DEF TreeInv, CompiledInv, ShownIsCompiled, AskingJira
<1> QED BY <1>1, <1>2, <1>3, TreeInvariant, PTL DEF Spec

\* What a step that parks the task asks, and where.
LEMMA ParksWhere ==
    ASSUME Uninterrupted, TypeInv, TreeInv, [Next]_vars, pc # "waiting", pc' = "waiting"
    PROVE AskConflict \/ CompileCapped \/ SemanticBlocked \/ AskReservation \/ AskJira
<1>1. pc' \notin {After[stage] : stage \in Running} \cup {"codegen", "retry", "failed"}
        \cup Repairing
  BY StageSets
<1>2. ~UNCHANGED vars
  BY DEF vars
<1> USE <1>1 DEF Skip, NewPass, Retry, Fail
<1>3. ~(CodegenCached \/ Codegen \/ PassStage \/ Apply \/ CommitPatch \/ RecordPatch \/ Complete)
  BY StageSets DEF CodegenCached, Codegen, PassStage, Apply, CommitPatch, RecordPatch, Complete
<1>4. ~(CoverageRetry \/ ScopeRetry \/ ConformanceRetry \/ SkipApply \/ CompileRepair)
  BY DEF CoverageRetry, ScopeRetry, ConformanceRetry, SkipApply, CompileRepair
<1>5. ~(SkipGate \/ CompilePassed \/ CompileSkipped \/ FeatureRepair \/ ConformancePassed)
  BY StageSets, GateFacts
     DEF SkipGate, CompilePassed, CompileSkipped, FeatureRepair, ConformancePassed, Open
<1>6. \A gate \in CachedGates : ~PassGate(gate)
  BY GateFacts DEF PassGate, Open
<1>7. \A kind \in RepairKinds : ~RepairApply(kind) /\ ~RepairRecord(kind)
  BY PlaceFacts DEF RepairApply, RepairRecord
<1>8. ~(SkipJira \/ Transition \/ RecordTransition \/ Finish \/ FailStage \/ ConformanceFailed)
  BY StageSets DEF SkipJira, Transition, RecordTransition, Finish, FailStage, ConformanceFailed
<1>9. ~Operator /\ ~Environment
  BY DEF Operator, Grant, Reject, HandEdit, Environment, Crash, ResumeWaiting, ResumeReview,
         ResumeCodegen, ResumeGated, TreeInv
<1> QED BY <1>2, <1>3, <1>4, <1>5, <1>6, <1>7, <1>8, <1>9 DEF Next, PassStep

\* What it asks is the question, the diff and the sandbox of the moment.
LEMMA AsksAnew ==
    ASSUME TypeInv, AnsweredInv,
           AskConflict \/ SemanticBlocked \/ AskReservation \/ AskJira
    PROVE <<approval'.question, approval'.diff, tree>> \notin answered
<1>1. approval'.diff = ps.diff
  BY DEF AskConflict, SemanticBlocked, AskReservation, AskJira, Park, Asked,
         TypeInv, TypeOK, StateType
<1>2. pc \in Running /\ pc \notin Ended
  BY StageSets DEF AskConflict, SemanticBlocked, AskReservation, AskJira, Open, JiraGate
<1>3. SUFFICES ASSUME NEW asked \in answered, SettledAsked(asked),
                      asked[1] = approval'.question, asked[2] = ps.diff, asked[3] = tree
               PROVE FALSE
  BY <1>1 DEF AnsweredInv
<1>4. CASE AskConflict
  <2>1. approval'.question = "conflict" /\ pc = "coverage" /\ generated
    BY <1>4 DEF AskConflict, Park, Asked
  <2> QED BY <1>3, <2>1 DEF SettledAsked
<1>5. CASE SemanticBlocked
  <2>1. approval'.question = "semantic" /\ "semantic" \notin ps.done
    BY <1>5 DEF SemanticBlocked, Open, Park, Asked
  <2> QED BY <1>2, <1>3, <2>1 DEF SettledAsked
<1>6. CASE AskReservation
  <2>1. approval'.question = "reservation" /\ ~ps.acked
    BY <1>6 DEF AskReservation, Park, Asked
  <2> QED BY <1>2, <1>3, <2>1 DEF SettledAsked
<1>7. CASE AskJira
  <2>1. approval'.question = "jira" /\ ~ps.granted
    BY <1>7 DEF AskJira, JiraGate, Park, Asked
  <2> QED BY <1>2, <1>3, <2>1 DEF SettledAsked
<1> QED BY <1>4, <1>5, <1>6, <1>7

\* What was granted for a diff and a sandbox is never asked for them again: the grant sets a
\* flag no reset touches or stands for a cached result, and whatever drops that result has
\* made a new version of the code (resume_after_approval, the resets, and the approvals
\* _execute_develop_pipeline asks for).
THEOREM NothingAskedTwice ==
    ASSUME Uninterrupted
    PROVE Spec => NoRepeatedQuestion
<1>1. Init => AnsweredInv
  BY InitAnswered
<1>2. TypeInv /\ WholeDiff /\ TreeInv /\ TellsInv /\ AnsweredInv /\ [Next]_vars => AnsweredInv'
  BY StepAnswered
<1>3. TypeInv /\ TreeInv /\ AnsweredInv /\ [Next]_vars
        => [pc # "waiting" /\ pc' = "waiting" /\ approval'.question # "compile"
              => <<approval'.question, approval'.diff, tree>> \notin answered]_vars
  <2> SUFFICES ASSUME TypeInv, TreeInv, AnsweredInv, [Next]_vars,
                      pc # "waiting", pc' = "waiting", approval'.question # "compile"
               PROVE <<approval'.question, approval'.diff, tree>> \notin answered
    OBVIOUS
  <2>1. ~CompileCapped
    BY DEF CompileCapped, Park, Asked
  <2> QED BY <2>1, ParksWhere, AsksAnew
<1> QED BY <1>1, <1>2, <1>3, TreeInvariant, PTL DEF Spec, NoRepeatedQuestion

LEMMA SameInvariant ==
    ASSUME Uninterrupted, NothingWaived, RepairsOnly
    PROVE Spec => []SameInv
<1>1. Init => SameInv
  BY InitSame
<1>2. TypeInv /\ WholeDiff /\ TreeInv /\ TellsInv /\ SameInv /\ [Next]_vars => SameInv'
  BY StepSame
<1> QED BY <1>1, <1>2, TreeInvariant, PTL DEF Spec

\* Where only the repairs that refresh the diff change the code, the code in the sandbox and
\* what the Jira approval shows of it, whichever of the two a gate reads, have been let
\* through by every gate all the resets of this task's history drop, whatever their number
\* and order; after repairs only by those the reset of a repair lists, after
\* retries only by those the reset of a retry lists.
THEOREM ResetsJudgeAnew ==
    ASSUME Uninterrupted, NothingWaived, RepairsOnly
    PROVE Spec => []ResetsRerun
<1>1. Init => JudgedInv
  BY InitJudged
<1>2. TypeInv /\ WholeDiff /\ TreeInv /\ TellsInv /\ SameInv /\ JudgedInv /\ [Next]_vars
        => JudgedInv'
  BY StepJudged
<1>3. TreeInv /\ JudgedInv => ResetsRerun
  <2> SUFFICES ASSUME TreeInv, JudgedInv, AskingJira PROVE ResetsRerun
    BY DEF ResetsRerun, RepairReruns, RetryReruns
  <2>1. approval.diff = ps.diff /\ pc \notin Repairing
    BY StageSets DEF TreeInv, AskingJira
  <2>2. ASSUME NEW gate \in CachedGates, Relevant(gate)
        PROVE \/ Judged(gate)
              \/ gate = "semantic" /\ <<"semantic", approval.diff, tree>> \in answered
    BY <2>1, <2>2 DEF JudgedInv, Known, Passed, Judged
  <2>3. {"tests", "compile", "review", "evidence", "acceptance", "runtime", "semantic",
         "shape", "failing_test", "goals"} \subseteq CachedGates
    BY DEF CachedGates, TreeGates, StateGates, LocalGates
  <2>4. RepairReruns
    BY <2>2, <2>3 DEF RepairReruns, Relevant
  <2>5. RetryReruns
    BY <2>2, <2>3 DEF RetryReruns, Relevant
  <2> QED BY <2>4, <2>5 DEF ResetsRerun
<1> QED BY <1>1, <1>2, <1>3, TreeInvariant, SameInvariant, PTL DEF Spec

\* However the retries and repairs of a task follow each other, the code is generated and
\* repaired at most as often as all the budgets together say: no reset gives back what was
\* spent (_reset_for_conformance_retry, _reset_after_semantic_quality_refine).
THEOREM BudgetsBoundWork ==
    ASSUME Uninterrupted, ~On("feature_repair"), RepairsOnly
    PROVE Spec => []WorkIsBounded
<1>1. Init => WorkInv
  BY InitWork
<1>2. TypeInv /\ TypeInv' /\ WholeDiff /\ TreeInv /\ TellsInv /\ WorkInv /\ [Next]_vars => WorkInv'
  BY StepWork
<1>3. WorkInv => WorkIsBounded
  BY DEF WorkInv, WorkIsBounded
<1> QED BY <1>1, <1>2, <1>3, TreeInvariant, PTL DEF Spec

=============================================================================
