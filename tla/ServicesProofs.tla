---------------------------- MODULE ServicesProofs ----------------------------
(***************************************************************************)
(* The services a pipeline runs in, calls, or leaves something to, for any *)
(* number of jobs, names, requests, files, events, messages and questions: *)
(* one section for each component, with the invariant its theorems rest    *)
(* on.  The proofs about the MCP client are in McpClientProofs.            *)
(***************************************************************************)
EXTENDS MCServices, McpClientProofs, NaturalsInduction, FiniteSetTheorems, WellFoundedInduction, TLAPS

-----------------------------------------------------------------------------
(* The pool (PipelineExecutor).  CountersInv strengthens the counter properties: a process that   *)
(* made no pool has no job under way, and the alarm is raised only on counters that justify it.   *)

\* Running and Counted are finite, so their sizes are natural numbers and zero
\* only when they are empty.
LEMMA LoadIsNat ==
    ASSUME NEW S \in SUBSET Jobs
    PROVE  /\ IsFiniteSet(S)
           /\ Cardinality(S) \in Nat
           /\ Cardinality(S) = 0 <=> S = {}
<1>1. IsFiniteSet(S)
  BY JobsFinite, FS_Subset
<1>2. QED
  BY <1>1, FS_CardinalityType, FS_EmptySet

\* What a job's move from one state to another does to the size of a set of
\* jobs selected by their state (Running, Counted).
LEMMA MoveCount ==
    ASSUME NEW S \in SUBSET JobStates,
           TypeOK,
           NEW j \in Jobs, NEW t \in JobStates,
           pc' = [pc EXCEPT ![j] = t]
    PROVE  Cardinality(InState(S)') =
               IF pc[j] \in S
                 THEN IF t \in S THEN Cardinality(InState(S)) ELSE Cardinality(InState(S)) - 1
                 ELSE IF t \in S THEN Cardinality(InState(S)) + 1 ELSE Cardinality(InState(S))
<1> DEFINE A == InState(S)
<1>1. IsFiniteSet(A) /\ Cardinality(A) \in Nat
  BY LoadIsNat DEF InState
<1>2. /\ j \in A <=> pc[j] \in S
      /\ A' = IF t \in S THEN A \cup {j} ELSE A \ {j}
  BY DEF TypeOK, InState
<1>3. Cardinality(A \cup {j}) = IF j \in A THEN Cardinality(A) ELSE Cardinality(A) + 1
  BY <1>1, FS_AddElement
<1>4. Cardinality(A \ {j}) = IF j \in A THEN Cardinality(A) - 1 ELSE Cardinality(A)
  BY <1>1, FS_RemoveElement
<1> HIDE DEF A
<1>5. Cardinality(A') =
               IF pc[j] \in S
                 THEN IF t \in S THEN Cardinality(A) ELSE Cardinality(A) - 1
                 ELSE IF t \in S THEN Cardinality(A) + 1 ELSE Cardinality(A)
  <2>1. CASE t \in S
    BY <2>1, <1>2, <1>3
  <2>2. CASE t \notin S
    BY <2>2, <1>2, <1>4
  <2>3. QED
    BY <2>1, <2>2
<1>6. QED
  BY <1>5 DEF A

\* The same for the two sets the counters are about.
LEMMA MoveLoad ==
    ASSUME TypeOK,
           NEW j \in Jobs, NEW t \in JobStates,
           pc' = [pc EXCEPT ![j] = t]
    PROVE  /\ Cardinality(Running') =
                 IF pc[j] = "running"
                   THEN IF t = "running" THEN Cardinality(Running) ELSE Cardinality(Running) - 1
                   ELSE IF t = "running" THEN Cardinality(Running) + 1 ELSE Cardinality(Running)
           /\ Cardinality(Counted') =
                 IF pc[j] \in {"counted", "waiting"}
                   THEN IF t \in {"counted", "waiting"}
                          THEN Cardinality(Counted) ELSE Cardinality(Counted) - 1
                   ELSE IF t \in {"counted", "waiting"}
                          THEN Cardinality(Counted) + 1 ELSE Cardinality(Counted)
<1>1. {"running"} \in SUBSET JobStates /\ {"counted", "waiting"} \in SUBSET JobStates
  BY DEF JobStates
<1>2. QED
  BY <1>1, MoveCount DEF Running, Counted

\* What a lock section makes of the counters: the clamped decrement is no negative number, and
\* _refresh_saturation_locked answers yes or no.
LEMMA LockSectionTyped ==
    ASSUME TypeOK
    PROVE  /\ active + 1 \in Nat /\ queued + 1 \in Nat
           /\ MinusOne(active) \in Nat /\ MinusOne(queued) \in Nat
           /\ RefreshSaturation => saturated' \in BOOLEAN
<1>1. active \in Nat /\ queued \in Nat
  BY DEF TypeOK
<1>2. RefreshSaturation => saturated' \in BOOLEAN
  BY Zenon DEF RefreshSaturation, IsSaturated
<1> QED
  BY <1>1, <1>2 DEF MinusOne

\* A job, submitted or run, leaves the pools and _max_workers to those who start and stop them.
LEMMA JobStepTyped ==
    ASSUME TypeOK, NEW j \in Jobs, JobStep(j)
    PROVE  TypeOK'
<1>1. UNCHANGED <<current, pools, open, maxWorkers>>
  BY DEF JobStep, SubmitCapture, SubmitUninitialised, SubmitCount, SubmitAccepted, SubmitRefused,
         StartJob, FinishJob, lifecycle, counters
<1>2. pc' \in [Jobs -> JobStates] /\ poolOf' \in [Jobs -> Nat]
  BY DEF JobStep, SubmitCapture, SubmitUninitialised, SubmitCount, SubmitAccepted, SubmitRefused,
         StartJob, FinishJob, TypeOK, JobStates
<1>3. active' \in Nat /\ queued' \in Nat /\ saturated' \in BOOLEAN
  <2>1. CASE SubmitCapture(j) \/ SubmitUninitialised(j) \/ SubmitAccepted(j)
    BY <2>1 DEF SubmitCapture, SubmitUninitialised, SubmitAccepted, counters, TypeOK
  <2>2. CASE SubmitCount(j) \/ SubmitRefused(j) \/ StartJob(j) \/ FinishJob(j)
    BY <2>2, LockSectionTyped DEF SubmitCount, SubmitRefused, StartJob, FinishJob, TypeOK
  <2> QED
    BY <2>1, <2>2 DEF JobStep
<1> QED
  BY <1>1, <1>2, <1>3 DEF TypeOK

\* Who starts or stops a pool leaves the jobs where they are.
LEMMA PoolStepTyped ==
    ASSUME TypeOK,
           InitPipelineExecutor \/ ShutdownDetach \/ \E p \in 1 .. MaxPools : ShutdownClose(p)
    PROVE  TypeOK'
<1>1. ASSUME InitPipelineExecutor PROVE TypeOK'
  BY <1>1 DEF InitPipelineExecutor, TypeOK
<1>2. ASSUME ShutdownDetach PROVE TypeOK'
  BY <1>2 DEF ShutdownDetach, TypeOK
<1>3. ASSUME NEW p \in 1 .. MaxPools, ShutdownClose(p) PROVE TypeOK'
  BY <1>3 DEF ShutdownClose, counters, TypeOK
<1> QED
  BY <1>1, <1>2, <1>3

\* The executor's counters are numbers and its jobs are in one of their states (what
\* core/pipeline_executor.py keeps under _lock, and what it reads outside of it).
THEOREM PoolTypeCorrect == Spec => []TypeOK
<1> DEFINE starting == Init => TypeOK
           going == TypeOK /\ [Next]_vars => TypeOK'
<1>1. starting
  <2> HAVE Init
  <2>1. \A j \in Jobs : pc[j] = "new" /\ poolOf[j] = 0
    BY DEF Init
  <2>2. pc \in [Jobs -> JobStates] /\ poolOf \in [Jobs -> Nat]
    BY <2>1 DEF Init, JobStates
  <2> QED
    BY <2>2 DEF Init, TypeOK
<1>2. going
  <2>1. TypeOK /\ UNCHANGED vars => TypeOK'
    BY DEF vars, TypeOK
  <2> QED
    BY <2>1, JobStepTyped, PoolStepTyped DEF Next
<1> QED
  BY <1>1, <1>2, PTL DEF Spec

\* Initially nothing is counted.
LEMMA CountersInit == Init => CountersInv
<1> SUFFICES ASSUME Init PROVE CountersInv
  OBVIOUS
<1>1. Running = {} /\ Counted = {}
  BY DEF Init, Running, Counted, InState
<1>2. Cardinality(Running) = 0 /\ Cardinality(Counted) = 0
  BY <1>1, FS_EmptySet
<1>3. QED
  BY <1>2 DEF Init, CountersInv, NoPhantomLoad, ExactWhileServing

\* Every step of the pool keeps the counter invariant.
LEMMA CountersStep == TypeOK /\ CountersInv /\ [Next]_vars => CountersInv'
<1> SUFFICES ASSUME TypeOK, CountersInv, [Next]_vars PROVE CountersInv'
  OBVIOUS
<1> DEFINE r == Cardinality(Running)
           c == Cardinality(Counted)
<1>1. /\ r \in Nat /\ c \in Nat
      /\ r = 0 <=> Running = {}
      /\ c = 0 <=> Counted = {}
  BY LoadIsNat DEF Running, Counted, InState
<1>2. ASSUME UNCHANGED pc PROVE r' = r /\ c' = c
  <2>1. Running' = Running /\ Counted' = Counted
    BY <1>2 DEF Running, Counted, InState
  <2>2. QED
    BY <2>1
<1> USE DEF CountersInv, NoPhantomLoad, ExactWhileServing, lifecycle, counters
<1>3. CASE InitPipelineExecutor
  <2>1. r' = r /\ c' = c
    BY <1>2, <1>3 DEF InitPipelineExecutor
  <2>2. pools = 0 => r = 0 /\ c = 0
    BY <1>1 DEF Running, Counted, InState
  <2> HIDE DEF r, c
  <2>3. QED
    BY <1>1, <1>3, <2>1, <2>2, MaxWorkersPositive
       DEF InitPipelineExecutor, TypeOK, IsSaturated, r, c
<1>4. CASE ShutdownDetach
  BY <1>1, <1>2, <1>4 DEF ShutdownDetach, TypeOK, IsSaturated
<1>5. CASE \E p \in 1 .. MaxPools : ShutdownClose(p)
  BY <1>2, <1>5 DEF ShutdownClose, IsSaturated
<1>6. ASSUME NEW j \in Jobs, JobStep(j) PROVE CountersInv'
  <2> USE DEF IsSaturated
  <2>1. CASE SubmitCapture(j)
    <3>1. r' = r /\ c' = c
      BY <2>1, MoveLoad DEF SubmitCapture, JobStates
    <3>2. QED
      BY <2>1, <3>1 DEF SubmitCapture, TypeOK
  <2>2. CASE SubmitUninitialised(j)
    <3>1. r' = r /\ c' = c
      BY <2>2, MoveLoad DEF SubmitUninitialised, JobStates
    <3>2. QED
      BY <2>2, <3>1 DEF SubmitUninitialised, TypeOK
  <2>3. CASE SubmitCount(j)
    <3>1. r' = r /\ c' = c + 1
      BY <2>3, MoveLoad DEF SubmitCount, JobStates
    <3>2. pools # 0
      BY <2>3 DEF SubmitCount
    <3>3. saturated' <=> IsSaturated(maxWorkers', active', queued')
      BY <2>3 DEF SubmitCount, RefreshSaturation
    <3>4. NoPhantomLoad'
      BY <1>1, <2>3, <3>1, <3>2 DEF SubmitCount, TypeOK
    <3>5. ExactWhileServing'
      BY <1>1, <2>3, <3>1, <3>2, <3>3 DEF SubmitCount, TypeOK
    <3>6. QED
      BY <2>3, <3>2, <3>3, <3>4, <3>5 DEF SubmitCount
  <2>4. CASE SubmitAccepted(j)
    <3>1. r' = r /\ c' = c
      BY <2>4, MoveLoad DEF SubmitAccepted, JobStates
    <3>2. pools # 0
      BY <2>4 DEF SubmitAccepted
    <3>3. QED
      BY <2>4, <3>1, <3>2 DEF SubmitAccepted, TypeOK
  <2>5. CASE SubmitRefused(j)
    <3>1. r' = r /\ c' = c - 1
      BY <2>5, MoveLoad DEF SubmitRefused, JobStates
    <3>2. c' \in Nat /\ pools # 0
      BY <2>5, LoadIsNat DEF SubmitRefused, Counted, InState
    <3>3. saturated' <=> IsSaturated(maxWorkers', active', queued')
      BY <2>5 DEF SubmitRefused, RefreshSaturation
    <3>4. NoPhantomLoad'
      BY <1>1, <2>5, <3>1, <3>2 DEF SubmitRefused, MinusOne, TypeOK
    <3>5. ExactWhileServing'
      BY <1>1, <2>5, <3>1, <3>2, <3>3 DEF SubmitRefused, MinusOne, TypeOK
    <3>6. QED
      BY <2>5, <3>2, <3>3, <3>4, <3>5 DEF SubmitRefused
  <2>6. CASE StartJob(j)
    <3>1. r' = r + 1 /\ c' = c - 1
      BY <2>6, MoveLoad DEF StartJob, JobStates
    <3>2. c' \in Nat /\ pools # 0
      BY <2>6, LoadIsNat DEF StartJob, Counted, InState
    <3>3. saturated' <=> IsSaturated(maxWorkers', active', queued')
      BY <2>6 DEF StartJob, RefreshSaturation
    <3>4. NoPhantomLoad'
      BY <1>1, <2>6, <3>1, <3>2 DEF StartJob, MinusOne, TypeOK
    <3>5. ExactWhileServing'
      BY <1>1, <2>6, <3>1, <3>2, <3>3 DEF StartJob, MinusOne, TypeOK
    <3>6. QED
      BY <2>6, <3>2, <3>3, <3>4, <3>5 DEF StartJob
  <2>7. CASE FinishJob(j)
    <3>1. r' = r - 1 /\ c' = c
      BY <2>7, MoveLoad DEF FinishJob, JobStates
    <3>2. r' \in Nat /\ pools # 0
      BY <2>7, LoadIsNat DEF FinishJob, Running, InState
    <3>3. saturated' <=> IsSaturated(maxWorkers', active', queued')
      BY <2>7 DEF FinishJob, RefreshSaturation
    <3>4. NoPhantomLoad'
      BY <1>1, <2>7, <3>1, <3>2 DEF FinishJob, MinusOne, TypeOK
    <3>5. ExactWhileServing'
      BY <1>1, <2>7, <3>1, <3>2, <3>3 DEF FinishJob, MinusOne, TypeOK
    <3>6. QED
      BY <2>7, <3>2, <3>3, <3>4, <3>5 DEF FinishJob
  <2>8. QED
    BY <1>6, <2>1, <2>2, <2>3, <2>4, <2>5, <2>6, <2>7 DEF JobStep
<1>7. CASE UNCHANGED vars
  BY <1>2, <1>7 DEF vars, IsSaturated
<1>8. QED
  BY <1>3, <1>4, <1>5, <1>6, <1>7 DEF Next

\* The counters never report a job that is not there, the alarm has a cause,
\* and a process that made one pool and has not shut it down counts exactly.
THEOREM CountersCorrect ==
    Spec => []CountersHold
<1>1. TypeOK /\ CountersInv => CountersHold
  <2> SUFFICES ASSUME TypeOK, CountersInv, saturated PROVE AlarmIsReal
    BY DEF CountersInv, CountersHold, AlarmIsReal
  <2>1. /\ Cardinality(Running) \in Nat /\ Cardinality(Counted) \in Nat
        /\ Cardinality(Counted) = 0 <=> Counted = {}
    BY LoadIsNat DEF Running, Counted, InState
  <2>2. QED
    BY <2>1, MaxWorkersPositive
       DEF CountersInv, NoPhantomLoad, AlarmIsReal, IsSaturated, TypeOK
<1>2. QED
  BY <1>1, PoolTypeCorrect, CountersInit, CountersStep, PTL DEF Spec
-----------------------------------------------------------------------------
(* The repositories users add (RepositoryRegistry).  No lock protects the directories, so this    *)
(* rests on where the one request of a name stands, and on a name being counted as unsure from    *)
(* the moment a second one arrives.                                                                 *)

AtWork(r, n) == NameOf(r) = n /\ regPc[r] \in RegDoing

AtMostOne(n) ==
    \A q, r \in Requests : AtWork(q, n) /\ AtWork(r, n) => q = r

Whole(r) == [of |-> {r}, whole |-> TRUE]

\* What the step of a request says of the record and the directory of its name.
StepFits(r, n) ==
    /\ regPc[r] = "fill" => regTrees[n] = NoTree
    /\ regPc[r] = "register" => regTrees[n] = Whole(r)
    /\ regPc[r] = "remove" => regRecords[n] = NoRequest
    /\ regPc[r] # "abandon"

RecordFits(n) ==
    \/ regRecords[n] = NoRequest /\ (regTrees[n] = NoTree \/ n \in regLeft)
    \/ regRecords[n] \in Requests /\ regTrees[n] = Whole(regRecords[n])

NameIsSound(n) ==
    /\ AtMostOne(n)
    /\ \A r \in Requests : AtWork(r, n) => StepFits(r, n)
    /\ (\A r \in Requests : ~AtWork(r, n)) => RecordFits(n)

NamesAreSound == \A n \in RegNames \ regUnsure : NameIsSound(n)

-----------------------------------------------------------------------------
Directories == [RegNames -> [of : SUBSET Requests, whole : BOOLEAN]]

\* What the steps make of the directories.
LEMMA TreesStay ==
    ASSUME RegTypeOK, NEW r \in Requests
    PROVE /\ NameOf(r) \in RegNames /\ regTrees \in Directories
          /\ [regTrees EXCEPT ![NameOf(r)] = NoTree] \in Directories
          /\ [regTrees EXCEPT ![NameOf(r)] = HalfFilled(NameOf(r))] \in Directories
          /\ [regTrees EXCEPT ![NameOf(r)] = [regTrees[NameOf(r)] EXCEPT !.whole = FALSE]] \in Directories
<1>1. regTrees \in Directories /\ NameOf(r) \in RegNames
  BY DEF RegTypeOK, Directories, NameOf
<1>2. HalfFilled(NameOf(r)) \in [of : SUBSET Requests, whole : BOOLEAN]
  BY <1>1 DEF HalfFilled, Busy, Directories
<1>3. [regTrees[NameOf(r)] EXCEPT !.whole = FALSE] \in [of : SUBSET Requests, whole : BOOLEAN]
  BY <1>1 DEF Directories
<1> QED
  BY <1>1, <1>2, <1>3 DEF Directories, NoTree

LEMMA TreesFail ==
    ASSUME RegTypeOK, NEW r \in Requests,
           ExtractFails(r) \/ CloneFails(r) \/ Abandons(r) \/ LeavesTree(r)
    PROVE regTrees' \in Directories
BY TreesStay DEF ExtractFails, CloneFails, Abandons, LeavesTree, TreeBecomes

LEMMA RestartTrees == RegTypeOK /\ Restart => regTrees' \in Directories
<1> SUFFICES ASSUME RegTypeOK, Restart PROVE regTrees' \in Directories
  OBVIOUS
<1>1. /\ regTrees \in Directories
      /\ \A n \in RegNames : HalfFilled(n) \in [of : SUBSET Requests, whole : BOOLEAN]
  BY DEF RegTypeOK, Directories, HalfFilled, Busy
<1>2. CASE UNCHANGED regTrees
  BY <1>1, <1>2
<1>3. CASE regTrees' = [n \in RegNames |-> IF Busy(n) = {} THEN regTrees[n] ELSE HalfFilled(n)]
  BY <1>1, <1>3 DEF Directories
<1> QED
  BY <1>2, <1>3 DEF Restart

\* The state of the registry keeps its type.
LEMMA RegTypeAlways == RegInit /\ [][RegNext]_regVars => []RegTypeOK
<1>1. RegInit => RegTypeOK
  BY DEF RegInit, RegTypeOK, NoTree
<1>2. RegTypeOK /\ [RegNext]_regVars => RegTypeOK'
  <2> SUFFICES ASSUME RegTypeOK, [RegNext]_regVars PROVE RegTypeOK'
    OBVIOUS
  <2>0. RegTypeOK
    OBVIOUS
  <2> USE DEF RegTypeOK, RegDoing, RegOver, RegGo, TreeBecomes, NoTree, NameOf, Kinds
  <2>1. ASSUME NEW r \in Requests, RegStep(r) PROVE RegTypeOK'
    <3>1. CASE Begins(r)
      BY <3>1 DEF Begins, Meets
    <3>2. CASE Refused(r)
      BY <3>2 DEF Refused
    <3>3. CASE Clears(r)
      BY <3>3 DEF Clears
    <3>4. CASE ClearFails(r)
      BY <3>4 DEF ClearFails, Spoils
    <3>5. CASE Extracts(r)
      BY <3>5 DEF Extracts
    <3>6. CASE ExtractFails(r)
      <4>1. regTrees' \in Directories
        BY <2>0, <3>6, TreesFail
      <4> QED
        BY <3>6, <4>1 DEF ExtractFails, Spoils, Directories
    <3>7. CASE Clones(r)
      BY <3>7 DEF Clones
    <3>8. CASE CloneFails(r)
      <4>1. regTrees' \in Directories
        BY <2>0, <3>8, TreesFail
      <4> QED
        BY <3>8, <4>1 DEF CloneFails, Spoils, Directories
    <3>9. CASE Abandons(r)
      <4>1. regTrees' \in Directories
        BY <2>0, <3>9, TreesFail
      <4> QED
        BY <3>9, <4>1 DEF Abandons, Directories
    <3>10. CASE Registers(r)
      BY <3>10 DEF Registers
    <3>16. CASE RegisterFails(r)
      BY <3>16 DEF RegisterFails, Spoils
    <3>14. CASE RegistersUnread(r)
      BY <3>14 DEF RegistersUnread
    <3>15. CASE LeavesTree(r)
      <4>1. regTrees' \in Directories
        BY <2>0, <3>15, TreesFail
      <4> QED
        BY <3>15, <4>1 DEF LeavesTree, Directories
    <3>11. CASE DeletesRecord(r)
      BY <3>11 DEF DeletesRecord, Meets
    <3>12. CASE FindsNothing(r)
      BY <3>12 DEF FindsNothing
    <3>13. CASE RemovesTree(r)
      BY <3>13 DEF RemovesTree
    <3> QED
      BY <2>1, <3>1, <3>2, <3>3, <3>4, <3>5, <3>6, <3>7, <3>8, <3>9, <3>10, <3>11, <3>12, <3>13,
         <3>14, <3>15, <3>16
         DEF RegStep
  <2>2. CASE Restart
    <3>1. regTrees' \in Directories
      BY <2>2, RestartTrees DEF RegTypeOK
    <3> QED
      BY <2>2, <3>1 DEF Restart, Directories
  <2>3. CASE UNCHANGED regVars
    BY <2>3 DEF regVars
  <2> QED
    BY <2>1, <2>2, <2>3 DEF RegNext
<1> QED
  BY <1>1, <1>2, PTL

THEOREM RegTypeCorrect == RegSpec => []RegTypeOK
BY RegTypeAlways, PTL DEF RegSpec

-----------------------------------------------------------------------------
\* A name none of whose requests moves, and whose record and directory stay, stays sound.
LEMMA OtherNames ==
    ASSUME NEW n, NameIsSound(n), UNCHANGED regDo,
           \A q \in Requests : NameOf(q) = n =>
               (regPc'[q] = regPc[q] \/ (regPc[q] \notin RegDoing /\ regPc'[q] \notin RegDoing)),
           \/ regRecords'[n] = regRecords[n]
           \/ regRecords'[n] = NoRequest /\ n \in regLeft',
           regTrees'[n] = regTrees[n], n \in regLeft => n \in regLeft'
    PROVE NameIsSound(n)'
BY DEF NameIsSound, AtMostOne, AtWork, StepFits, RecordFits, NameOf, RegDoing

\* A request alone at its name takes its next step.
LEMMA OwnName ==
    ASSUME RegTypeOK, NamesAreSound, NEW r \in Requests, RegStep(r), NameOf(r) \notin regUnsure'
    PROVE NameIsSound(NameOf(r))'
<1> DEFINE n == NameOf(r)
<1>1. n \in RegNames \ regUnsure /\ n \in RegNames
  BY DEF RegTypeOK, NameOf, RegStep, Begins, Refused, Clears, ClearFails, Extracts, ExtractFails,
         Clones, CloneFails, Abandons, Registers, RegistersUnread, RegisterFails, DeletesRecord,
         FindsNothing, RemovesTree, LeavesTree,
         Meets, Spoils
<1>2. NameIsSound(n)
  BY <1>1 DEF NamesAreSound
<1>3. UNCHANGED regDo /\ n' = n
  BY DEF NameOf, RegStep, Begins, Refused, Clears, ClearFails, Extracts, ExtractFails,
         Clones, CloneFails, Abandons, Registers, RegistersUnread, RegisterFails, DeletesRecord,
         FindsNothing, RemovesTree, LeavesTree
<1>4. \A q \in Requests \ {r} : regPc'[q] = regPc[q]
  BY DEF RegTypeOK, RegGo, RegStep, Begins, Refused, Clears, ClearFails, Extracts, ExtractFails,
         Clones, CloneFails, Abandons, Registers, RegistersUnread, RegisterFails, DeletesRecord,
         FindsNothing, RemovesTree, LeavesTree
<1>5. ~ClearFails(r) /\ ~ExtractFails(r) /\ ~CloneFails(r) /\ ~Abandons(r) /\ ~RegisterFails(r)
  BY <1>1, <1>2 DEF ClearFails, ExtractFails, CloneFails, Abandons, RegisterFails, Spoils, RegGo, NameIsSound,
                    AtWork, StepFits, RegDoing
<1>6. regPc[r] \in RegDoing => \A q \in Requests \ {r} : ~AtWork(q, n) /\ ~AtWork(q, n)'
  BY <1>2, <1>3, <1>4 DEF NameIsSound, AtMostOne, AtWork, NameOf
<1>7. CASE Refused(r) \/ FindsNothing(r)
  BY <1>2, <1>3, <1>4, <1>7, OtherNames DEF Refused, FindsNothing, RegGo, RegDoing, RegTypeOK
<1>8. CASE Begins(r) \/ DeletesRecord(r)
  <2>1. \A q \in Requests : ~AtWork(q, n)
    BY <1>8, <1>1 DEF Begins, DeletesRecord, Meets, Busy, AtWork
  <2>2. \A q \in Requests \ {r} : ~AtWork(q, n)'
    BY <2>1, <1>3, <1>4 DEF AtWork, NameOf
  <2>3. regPc'[r] \in {"clear", "remove"} /\ (regPc'[r] = "remove" => regRecords'[n] = NoRequest)
    BY <1>8, <1>1 DEF Begins, DeletesRecord, RegGo, RegTypeOK
  <2>4. AtWork(r, n)' /\ StepFits(r, n)'
    BY <2>3, <1>3 DEF AtWork, StepFits, RegDoing, NameOf
  <2> QED
    BY <2>2, <2>4, <1>3 DEF NameIsSound, AtMostOne
<1>9. CASE Clears(r) \/ Extracts(r) \/ Clones(r)
  <2>1. regPc[r] \in RegDoing
    BY <1>9 DEF Clears, Extracts, Clones, RegGo, RegDoing
  <2>2. AtWork(r, n) /\ StepFits(r, n)
    BY <2>1, <1>2 DEF AtWork, NameIsSound
  <2>3. \/ regPc'[r] = "fill" /\ regTrees'[n] = NoTree
        \/ regPc'[r] = "register" /\ regTrees'[n] = Whole(r)
    <3>1. CASE Clears(r)
      BY <3>1, <1>1 DEF Clears, RegGo, TreeBecomes, RegTypeOK
    <3>2. CASE Extracts(r)
      <4>1. regTrees[n] = NoTree
        BY <3>2, <2>2 DEF Extracts, RegGo, StepFits
      <4>2. regTrees[n].of \cup {r} = {r}
        BY <4>1 DEF NoTree
      <4>3. regTrees'[n] = [of |-> regTrees[n].of \cup {r}, whole |-> TRUE]
        BY <3>2, <1>1 DEF Extracts, TreeBecomes, RegTypeOK
      <4>4. regPc'[r] = "register"
        BY <3>2 DEF Extracts, RegGo, RegTypeOK
      <4> QED
        BY <4>2, <4>3, <4>4 DEF Whole
    <3>3. CASE Clones(r)
      BY <3>3, <1>1 DEF Clones, RegGo, TreeBecomes, RegTypeOK, Whole
    <3> QED
      BY <1>9, <3>1, <3>2, <3>3
  <2>4. AtWork(r, n)' /\ StepFits(r, n)'
    BY <2>3, <1>3 DEF AtWork, StepFits, RegDoing, NameOf, Whole, NoTree
  <2> QED
    BY <2>1, <2>4, <1>3, <1>6 DEF NameIsSound, AtMostOne
<1>10. CASE Registers(r) \/ RegistersUnread(r) \/ RemovesTree(r) \/ LeavesTree(r)
  <2>1. regPc[r] \in RegDoing /\ regPc'[r] = "ok"
    BY <1>10 DEF Registers, RegistersUnread, RemovesTree, LeavesTree, RegGo, RegDoing, RegTypeOK
  <2>2. StepFits(r, n)
    BY <2>1, <1>2 DEF AtWork, NameIsSound
  <2>3. RecordFits(n)'
    BY <1>10, <1>1, <1>3, <2>2
       DEF Registers, RegistersUnread, RemovesTree, LeavesTree, RegGo, TreeBecomes, RegTypeOK,
           StepFits, RecordFits
  <2>4. \A q \in Requests : ~AtWork(q, n)'
    BY <2>1, <1>6 DEF AtWork, RegDoing
  <2> QED
    BY <2>3, <2>4, <1>3 DEF NameIsSound, AtMostOne
<1> QED
  BY <1>5, <1>7, <1>8, <1>9, <1>10 DEF RegStep

LEMMA RecordAlways == RegInit /\ [][RegNext]_regVars => []RecordHasTree
<1>1. RegInit => NamesAreSound
  BY DEF RegInit, NamesAreSound, NameIsSound, AtMostOne, AtWork, RecordFits, RegDoing
<1>2. RegTypeOK /\ NamesAreSound /\ [RegNext]_regVars => NamesAreSound'
  <2> SUFFICES ASSUME RegTypeOK, NamesAreSound, [RegNext]_regVars PROVE NamesAreSound'
    OBVIOUS
  <2>1. ASSUME NEW r \in Requests, RegStep(r) PROVE NamesAreSound'
    <3>1. UNCHANGED regDo /\ regUnsure \subseteq regUnsure'
      BY <2>1 DEF RegStep, Begins, Refused, Clears, ClearFails, Extracts, ExtractFails, Clones,
                  CloneFails, Abandons, Registers, RegistersUnread, RegisterFails, DeletesRecord,
                  FindsNothing, RemovesTree, LeavesTree, Meets, Spoils
    <3>2. \A n \in RegNames \ {NameOf(r)} :
             /\ regRecords'[n] = regRecords[n] \/ (regRecords'[n] = NoRequest /\ n \in regLeft')
             /\ regTrees'[n] = regTrees[n]
             /\ (n \in regLeft => n \in regLeft')
      BY <2>1 DEF RegTypeOK, TreeBecomes, RegStep, Begins, Refused, Clears, ClearFails, Extracts,
                  ExtractFails, Clones, CloneFails, Abandons, Registers, RegistersUnread,
                  RegisterFails, DeletesRecord, FindsNothing, RemovesTree, LeavesTree
    <3>3. \A q \in Requests \ {r} : regPc'[q] = regPc[q]
      BY <2>1 DEF RegTypeOK, RegGo, RegStep, Begins, Refused, Clears, ClearFails, Extracts,
                  ExtractFails, Clones, CloneFails, Abandons, Registers, RegistersUnread,
                  RegisterFails, DeletesRecord, FindsNothing, RemovesTree, LeavesTree
    <3>4. ASSUME NEW n \in RegNames \ regUnsure' PROVE NameIsSound(n)'
      <4>1. CASE n = NameOf(r)
        BY <4>1, <2>1, <3>1, <3>4, OwnName DEF NameOf
      <4>2. CASE n # NameOf(r)
        <5>1. NameIsSound(n) /\ \A q \in Requests : NameOf(q) = n => regPc'[q] = regPc[q]
          BY <4>2, <3>1, <3>3, <3>4 DEF NamesAreSound
        <5>2. /\ regRecords'[n] = regRecords[n] \/ (regRecords'[n] = NoRequest /\ n \in regLeft')
              /\ regTrees'[n] = regTrees[n] /\ (n \in regLeft => n \in regLeft')
          BY <4>2, <3>2, <3>4
        <5> QED
          BY <3>1, <5>1, <5>2, OtherNames
      <4> QED
        BY <4>1, <4>2
    <3> QED
      BY <3>4 DEF NamesAreSound
  <2>2. CASE Restart
    <3>1. ASSUME NEW n \in RegNames \ regUnsure' PROVE NameIsSound(n)'
      <4>1. \A q \in Requests : ~AtWork(q, n)
        BY <2>2, <3>1 DEF Restart, Busy, AtWork
      <4>2. \A q \in Requests : NameOf(q) = n => regPc'[q] = regPc[q]
        BY <2>2, <4>1 DEF Restart, AtWork
      <4>3. UNCHANGED <<regDo, regRecords, regLeft>> /\ regTrees'[n] = regTrees[n]
        BY <2>2, <3>1, <4>1 DEF Restart, Busy, AtWork
      <4>4. NameIsSound(n)
        BY <2>2, <3>1 DEF Restart, NamesAreSound
      <4> QED
        BY <4>2, <4>3, <4>4, OtherNames
    <3> QED
      BY <3>1 DEF NamesAreSound
  <2>3. CASE UNCHANGED regVars
    BY <2>3, OtherNames DEF regVars, NamesAreSound
  <2> QED
    BY <2>1, <2>2, <2>3 DEF RegNext
<1>3. NamesAreSound => RecordHasTree
  BY RegistryAssumption DEF NamesAreSound, NameIsSound, RecordFits, Whole, AtWork, Busy, RecordHasTree
<1> QED
  BY <1>1, <1>2, <1>3, RegTypeAlways, PTL

\* A record leads to the whole directory of its request and to nothing else, once no request of
\* the name is at work, at every name whose requests neither overlapped nor failed nor died; and
\* files without a record are those a deletion left, or of a record that could not be read.
THEOREM RecordCorrect == RegSpec => []RecordHasTree
BY RecordAlways, PTL DEF RegSpec

\* What a request does to the records of others.
LEMMA OthersKept ==
    ASSUME RegTypeOK, [RegNext]_regVars, NEW n \in RegNames, regRecords'[n] # regRecords[n]
    PROVE \/ \E r \in Requests : /\ NameOf(r) = n /\ regPc'[r] # regPc[r]
                                 /\ regPc'[r] \in {"ok", "remove"}
          \/ /\ regRecords'[n] = NoRequest /\ n \in regLeft'
             /\ regTrees'[n] = regTrees[n]
             /\ \E r \in Requests : regPc[r] = "register" /\ regPc'[r] = "ok"
<1>1. PICK r \in Requests : Registers(r) \/ RegistersUnread(r) \/ DeletesRecord(r)
  BY DEF RegNext, regVars, RegStep, Begins, Refused, Clears, ClearFails, Extracts, ExtractFails,
         Clones, CloneFails, Abandons, RegisterFails, FindsNothing, RemovesTree, LeavesTree, Restart
<1>2. CASE Registers(r) \/ DeletesRecord(r)
  <2>1. NameOf(r) = n
    BY <1>2 DEF Registers, DeletesRecord, RegTypeOK
  <2>2. regPc[r] \in {"register", "new"} /\ regPc'[r] \in {"ok", "remove"}
    BY <1>2 DEF Registers, DeletesRecord, RegGo, RegTypeOK
  <2> QED
    BY <2>1, <2>2
<1>3. CASE RegistersUnread(r)
  <2>1. regPc[r] = "register" /\ regPc'[r] = "ok" /\ UNCHANGED regTrees
    BY <1>3 DEF RegistersUnread, RegGo, RegTypeOK
  <2>2. NameOf(r) = n \/ (regRecords'[n] = NoRequest /\ n \in regLeft')
    BY <1>3 DEF RegistersUnread, RegTypeOK
  <2> QED
    BY <2>1, <2>2
<1> QED
  BY <1>1, <1>2, <1>3

\* No request that ends in an error changes a record, and none but a deletion of the name, or a
\* registration that could not read the file, takes the record of another.
LEMMA OthersAlways == RegInit /\ [][RegNext]_regVars => OthersAreKept
<1>1. RegTypeOK /\ [RegNext]_regVars
      => [\A n \in RegNames :
              regRecords'[n] # regRecords[n] =>
                  \/ \E r \in Requests : NameOf(r) = n /\ regPc'[r] # regPc[r]
                                         /\ regPc'[r] \in {"ok", "remove"}
                  \/ /\ regRecords'[n] = NoRequest /\ n \in regLeft'
                     /\ regTrees'[n] = regTrees[n]
                     /\ \E r \in Requests : regPc[r] = "register" /\ regPc'[r] = "ok"]_regVars
  BY OthersKept
<1> QED
  BY <1>1, RegTypeAlways, PTL DEF OthersAreKept
-----------------------------------------------------------------------------
(* The sandbox (SandboxFiles).  A strategy that writes through the links is tried for a patch    *)
(* alone that need not be strict, and every file that is written behind the source's back is      *)
(* unlinked by the same step.                                                                      *)

StrictInv ==
    /\ ~patch.strict => lenient
    /\ boxPhase = "python" => ~patch.strict

\* A tree in which some files hold the patch at hand is a tree.
LEMMA PatchedIsTree ==
    ASSUME BoxTypeOK, NEW fs
    PROVE /\ Patched(fs) \in Trees
          /\ \A f \in All : Patched(fs)[f] = IF f \in fs THEN patches ELSE box[f]
BY SandboxAssumption DEF BoxTypeOK, Patched, Trees, Content

\* What a reset to the snapshot leaves is the tree of the snapshot.
LEMMA CleanedIsSnapshot ==
    ASSUME BoxTypeOK, snapshot > 0
    PROVE /\ history[snapshot] \in Trees /\ Cleaned = history[snapshot]
          /\ SubSeq(history, 1, snapshot) \in Seq(Trees)
          /\ Len(SubSeq(history, 1, snapshot)) = snapshot
          /\ SubSeq(history, 1, snapshot)[snapshot] = history[snapshot]
<1>1. snapshot \in 1..Len(history) /\ history \in Seq(Trees)
  BY DEF BoxTypeOK
<1>2. history[snapshot] \in Trees
  BY <1>1
<1>3. \A f \in All : Cleaned[f] = history[snapshot][f]
  BY <1>2 DEF Cleaned, Reset, Trees
<1>4. Cleaned = history[snapshot]
  BY <1>2, <1>3 DEF Cleaned, Trees
<1> QED
  BY <1>1, <1>2, <1>4

\* A sandbox that is not there has no snapshot: a clone begins its history anew.
NoneOfNothing == boxPhase = "absent" => snapshot = 0

\* Every step of the sandbox keeps its type.
LEMMA BoxTypeKept ==
    BoxTypeOK /\ NoneOfNothing /\ [BoxNext]_boxVars => BoxTypeOK' /\ NoneOfNothing'
<1> SUFFICES ASSUME BoxTypeOK, NoneOfNothing, [BoxNext]_boxVars PROVE BoxTypeOK' /\ NoneOfNothing'
  OBVIOUS
<1> USE SandboxAssumption DEF NoneOfNothing
<1>1. CASE Clone
  <2>1. box' \in Trees
    BY <1>1 DEF Clone, BoxTypeOK, Trees, Content, Gone
  <2>2. history' \in Seq(Trees) /\ Len(history') = 1
    BY <1>1, <2>1 DEF Clone
  <2>3. snapshot = 0
    BY <1>1 DEF Clone
  <2> QED
    BY <1>1, <2>1, <2>2, <2>3 DEF Clone, BoxTypeOK, BoxPhases
<1>2. CASE \E commit, strict \in BOOLEAN : BeginPatch(commit, strict)
  BY <1>2 DEF BeginPatch, BoxTypeOK, BoxPhases
<1>3. ASSUME NEW fs \in SUBSET All, TryGit(fs) PROVE BoxTypeOK' /\ NoneOfNothing'
  BY <1>3, PatchedIsTree DEF TryGit, BoxTypeOK, BoxPhases
<1>4. ASSUME NEW fs \in SUBSET All, TryPython(fs) PROVE BoxTypeOK' /\ NoneOfNothing'
  <2>1. source' \in [Files -> Content]
    BY <1>4 DEF TryPython, BoxTypeOK, Content
  <2> QED
    BY <1>4, <2>1, PatchedIsTree DEF TryPython, BoxTypeOK, BoxPhases
<1>5. ASSUME NEW fs \in SUBSET All, TeardownStops(fs) PROVE BoxTypeOK' /\ NoneOfNothing'
  BY <1>5 DEF TeardownStops, Fault, BoxTypeOK, Trees, Content, Gone
<1>6. CASE CommitPatch
  BY <1>6 DEF CommitPatch, BoxTypeOK, BoxPhases
<1>7. CASE NotePatched \/ CommitIgnored \/ RepairFailed \/ Die \/ ResumeClean
  BY <1>7 DEF NotePatched, CommitIgnored, RepairFailed, Die, ResumeClean, Fault, BoxTypeOK, BoxPhases
<1>8. CASE ResumeDirty
  <2>1. CASE boxPhase' = "failed" /\ UNCHANGED <<box, linked, history>>
    BY <1>8, <2>1 DEF ResumeDirty, BoxTypeOK, BoxPhases
  <2>2. CASE /\ snapshot > 0 /\ box' = Cleaned /\ history' = SubSeq(history, 1, snapshot)
             /\ linked' = {f \in linked : Cleaned[f] = box[f]} /\ boxPhase' = "ready"
    <3>1. box' \in Trees /\ history' \in Seq(Trees) /\ Len(history') = snapshot
      BY <2>2, CleanedIsSnapshot
    <3> QED
      BY <1>8, <2>2, <3>1 DEF ResumeDirty, BoxTypeOK, BoxPhases
  <2> QED
    BY <1>8, <2>1, <2>2 DEF ResumeDirty
<1>9. CASE Teardown
  BY <1>9 DEF Teardown, BoxTypeOK, BoxPhases, Empty, Trees, Content, Gone
<1>10. CASE UNCHANGED boxVars
  BY <1>10 DEF boxVars, BoxTypeOK
<1> QED
  BY <1>1, <1>2, <1>3, <1>4, <1>5, <1>6, <1>7, <1>8, <1>9, <1>10 DEF BoxNext

LEMMA BoxTypeStarts == BoxInit => BoxTypeOK /\ NoneOfNothing
<1> SUFFICES ASSUME BoxInit PROVE BoxTypeOK /\ NoneOfNothing
  OBVIOUS
<1>1. source \in [Files -> Content] /\ box \in Trees
  BY SandboxAssumption DEF BoxInit, Trees, Content, Empty, Gone
<1>2. history \in Seq(Trees) /\ Len(history) = 0
  BY DEF BoxInit
<1>3. patch \in [commit : BOOLEAN, strict : BOOLEAN] /\ lenient \in BOOLEAN
  BY DEF BoxInit
<1> QED
  BY <1>1, <1>2, <1>3, SandboxAssumption DEF BoxInit, BoxTypeOK, BoxPhases, NoneOfNothing

\* A step keeps the linked files shared, and the source as it is while patches are strict.
LEMMA SharedKept ==
    BoxTypeOK /\ StrictInv /\ SharedFilesAgree /\ [BoxNext]_boxVars
        => StrictInv' /\ SharedFilesAgree'
<1> SUFFICES ASSUME BoxTypeOK, StrictInv, SharedFilesAgree, [BoxNext]_boxVars
             PROVE StrictInv' /\ SharedFilesAgree'
  OBVIOUS
<1> USE DEF StrictInv, SharedFilesAgree, StrictSparesSource, SourceUntouched, LinkedIsShared
<1>0. Files \subseteq All /\ linked \subseteq All /\ linked \subseteq Files
  BY DEF BoxTypeOK, All
<1>1. CASE Clone
  BY <1>0, <1>1 DEF Clone
<1>2. ASSUME NEW commit \in BOOLEAN, NEW strict \in BOOLEAN, BeginPatch(commit, strict)
      PROVE StrictInv' /\ SharedFilesAgree'
  <2>1. patch'.strict = strict
    BY <1>2 DEF BeginPatch
  <2> QED
    BY <1>2, <2>1 DEF BeginPatch
<1>3. ASSUME NEW fs \in SUBSET All, TryGit(fs) PROVE StrictInv' /\ SharedFilesAgree'
  <2>1. box' = Patched(fs) /\ linked' = linked \ fs /\ UNCHANGED <<source, patch, lenient>>
    BY <1>3 DEF TryGit
  <2>2. boxPhase' = "python" => ~patch.strict
    BY <1>3 DEF TryGit
  <2>3. \A f \in linked' : box'[f] = source'[f]
    BY <1>0, <2>1, PatchedIsTree
  <2> QED
    BY <2>1, <2>2, <2>3
<1>4. ASSUME NEW fs \in SUBSET All, TryPython(fs) PROVE StrictInv' /\ SharedFilesAgree'
  <2>1. /\ box' = Patched(fs) /\ UNCHANGED <<linked, patch, lenient>>
        /\ boxPhase' # "python" /\ boxPhase = "python"
        /\ source' = [f \in Files |-> IF f \in fs \cap linked THEN patches ELSE source[f]]
    BY <1>4 DEF TryPython
  <2>2. \A f \in linked' : box'[f] = source'[f]
    BY <1>0, <2>1, PatchedIsTree
  <2> QED
    BY <2>1, <2>2
<1>5. ASSUME NEW fs \in SUBSET All, TeardownStops(fs) PROVE StrictInv' /\ SharedFilesAgree'
  BY <1>0, <1>5 DEF TeardownStops
<1>6. CASE CommitPatch \/ NotePatched \/ CommitIgnored \/ RepairFailed \/ Die \/ ResumeClean
  BY <1>6 DEF CommitPatch, NotePatched, CommitIgnored, RepairFailed, Die, ResumeClean
<1>7. CASE ResumeDirty
  BY <1>0, <1>7 DEF ResumeDirty
<1>8. CASE Teardown
  BY <1>8 DEF Teardown
<1>9. CASE UNCHANGED boxVars
  BY <1>9 DEF boxVars
<1> QED
  BY <1>1, <1>2, <1>3, <1>4, <1>5, <1>6, <1>7, <1>8, <1>9 DEF BoxNext

LEMMA SharedAlways == BoxInit /\ [][BoxNext]_boxVars => []SharedFilesAgree
<1>1. BoxInit => StrictInv /\ SharedFilesAgree
  BY DEF BoxInit, StrictInv, SharedFilesAgree, StrictSparesSource, SourceUntouched, LinkedIsShared
<1> QED
  BY <1>1, BoxTypeStarts, BoxTypeKept, SharedKept, PTL

\* Whatever is patched, resumed or torn down, a file the sandbox still shares with the source
\* repository reads the same on both sides, and strict patches leave the source as it was.
THEOREM SharedCorrect == BoxSpec => []SharedFilesAgree
BY SharedAlways, PTL DEF BoxSpec

LEMMA ResumeAlways == BoxInit /\ [][BoxNext]_boxVars => ResumeRestores
<1>1. ASSUME BoxTypeOK, [BoxNext]_boxVars, boxPhase = "stopped", boxPhase' = "ready"
      PROVE /\ box' = history'[Len(history')]
            /\ box # history[Len(history)] => box' = history[snapshot]
  <2>1. ResumeClean \/ ResumeDirty
    BY <1>1 DEF BoxNext, boxVars, Clone, BeginPatch, TryGit, TryPython, TeardownStops, CommitPatch,
                NotePatched, CommitIgnored, RepairFailed, Die, Teardown
  <2>2. CASE ResumeClean
    BY <2>2 DEF ResumeClean, Clean
  <2>3. CASE ResumeDirty
    BY <1>1, <2>3, CleanedIsSnapshot DEF ResumeDirty
  <2> QED
    BY <2>1, <2>2, <2>3
<1>2. BoxTypeOK /\ [BoxNext]_boxVars
      => [boxPhase = "stopped" /\ boxPhase' = "ready" =>
            /\ box' = history'[Len(history')]
            /\ box # history[Len(history)] => box' = history[snapshot]]_boxVars
  BY <1>1
<1> QED
  BY <1>2, BoxTypeStarts, BoxTypeKept, PTL DEF ResumeRestores

\* A run resumed over half-applied changes works on the tree of its checkpoint.
THEOREM ResumeCorrect == BoxSpec => ResumeRestores
BY ResumeAlways, PTL DEF BoxSpec
-----------------------------------------------------------------------------
(* The event stream (EventStream).  No two events are one, so that the event of a change either   *)
(* is late or is ordered behind the cursor of every connection that has not read it: the page       *)
(* has fetched since the change, is about to, or will be told.                                      *)

\* Events are ordered by their times, and those of one time by their ids.
LEMMA EventsInOrder ==
    /\ \A e \in Cursors : e.at \in 0..MaxTimes /\ e.id \in 0..MaxIds /\ ~Before(e, e)
    /\ \A e, f, g \in Cursors : Before(e, f) /\ Before(f, g) => Before(e, g)
    /\ \A e, f \in Cursors : Before(e, f) \/ Before(f, e) \/ e = f
    /\ \A e \in Events : Before(NoEvent, e)
<1>1. \A e \in Cursors : /\ e.at \in 0..MaxTimes /\ e.id \in 0..MaxIds
                        /\ e = [at |-> e.at, id |-> e.id]
  BY StreamAssumption DEF Cursors, Events, NoEvent
<1>2. \A e, f \in Cursors : e.at = f.at /\ e.id = f.id => e = f
  BY <1>1
<1>3. \A e \in Events : e.at > 0
  BY DEF Events
<1> QED
  BY <1>1, <1>2, <1>3, StreamAssumption DEF Before, NoEvent

\* A set of numbers that is bounded has a greatest.
LEMMA Greatest ==
    ASSUME NEW n \in Nat, NEW S \in SUBSET (0..n), S # {}
    PROVE \E m \in S : \A k \in S : k <= m
<1> DEFINE T == {i \in Nat : n - i \in S}
<1>1. \A k \in S : n - k \in T
  OBVIOUS
<1>2. T \subseteq Nat /\ T # {}
  BY <1>1
<1> HIDE DEF T
<1>3. PICK x \in T : \A y \in T : ~(<<y, x>> \in OpToRel(<, Nat))
  BY <1>2, NatLessThanWellFounded, WFMin
<1>4. \A y \in T : ~(y < x)
  BY <1>2, <1>3 DEF OpToRel
<1>5. x \in Nat /\ n - x \in S
  BY <1>3 DEF T
<1>6. \A k \in S : k <= n - x
  <2> SUFFICES ASSUME NEW k \in S PROVE k <= n - x
    OBVIOUS
  <2>1. ~(n - k < x) /\ k \in 0..n
    BY <1>1, <1>4
  <2> QED
    BY <2>1, <1>5
<1> QED
  BY <1>5, <1>6

\* Of a set of events and the cursor one is last: the greatest id of the latest time.
LEMMA NewestIsLast ==
    ASSUME NEW S \in SUBSET Events, NEW c \in Cursors
    PROVE /\ Newest(S, c) \in S \cup {c} /\ Newest(S, c) \in Cursors
          /\ \A e \in S \cup {c} : e \in Cursors /\ ~Before(Newest(S, c), e)
<1>0. S \cup {c} \subseteq Cursors /\ MaxTimes \in Nat /\ MaxIds \in Nat
  BY StreamAssumption DEF Cursors
<1>1. PICK e \in S \cup {c} : \A f \in S \cup {c} : f.at <= e.at
  <2> DEFINE A == {f.at : f \in S \cup {c}}
  <2>1. A \in SUBSET (0..MaxTimes) /\ A # {}
    BY <1>0, EventsInOrder
  <2>2. PICK m \in A : \A k \in A : k <= m
    BY <1>0, <2>1, Greatest
  <2> QED
    BY <2>2
<1>2. PICK m \in S \cup {c} : /\ m.at = e.at
                             /\ \A f \in S \cup {c} : f.at = e.at => f.id <= m.id
  <2> DEFINE I == {f.id : f \in {g \in S \cup {c} : g.at = e.at}}
  <2>1. I \in SUBSET (0..MaxIds) /\ I # {}
    BY <1>0, EventsInOrder
  <2>2. PICK i \in I : \A k \in I : k <= i
    BY <1>0, <2>1, Greatest
  <2> QED
    BY <2>2
<1>3. \A f \in S \cup {c} : ~Before(m, f)
  <2> SUFFICES ASSUME NEW f \in S \cup {c} PROVE ~Before(m, f)
    OBVIOUS
  <2>1. f.at <= m.at /\ (f.at = m.at => f.id <= m.id)
    BY <1>1, <1>2
  <2>2. f.at \in 0..MaxTimes /\ m.at \in 0..MaxTimes /\ f.id \in 0..MaxIds /\ m.id \in 0..MaxIds
    BY <1>0, EventsInOrder
  <2> QED
    BY <2>1, <2>2, <1>0 DEF Before
<1> QED
  BY <1>0, <1>3 DEF Newest

\* What lies above a cursor is what is ordered behind it.
LEMMA AboveIs ==
    ASSUME NEW S \in SUBSET Events, NEW c \in Cursors
    PROVE Above(S, c) \in SUBSET Events /\ \A e \in S : e \in Above(S, c) <=> Before(c, e)
<1>1. /\ c.at \in 0..MaxTimes /\ c.id \in 0..MaxIds
      /\ \A e \in S : e.at \in 0..MaxTimes /\ e.id \in 0..MaxIds
  BY EventsInOrder DEF Cursors
<1>2. \A e \in S : Before(c, e) <=> (e.at > c.at \/ (e.at = c.at /\ e.id > c.id))
  BY <1>1, StreamAssumption DEF Before
<1> QED
  BY <1>2 DEF Above

\* What a connection is sent: nothing, or one more query.
LEMMA SentIs ==
    ASSUME NEW q \in Seq(SUBSET Events), NEW new \in SUBSET Events
    PROVE /\ Sent(q, new) \in Seq(SUBSET Events)
          /\ \A i \in DOMAIN Sent(q, new) :
                \/ i \in DOMAIN q /\ Sent(q, new)[i] = q[i]
                \/ i = Len(q) + 1 /\ Sent(q, new)[i] = new
          /\ \A i \in DOMAIN q : i \in DOMAIN Sent(q, new) /\ Sent(q, new)[i] = q[i]
          /\ new = {} \/ \E i \in DOMAIN Sent(q, new) : Sent(q, new)[i] = new
<1>1. CASE new = {}
  BY <1>1 DEF Sent
<1>2. CASE new # {}
  <2>1. Sent(q, new) = Append(q, new) /\ Len(q) + 1 \in DOMAIN Append(q, new)
    BY <1>2 DEF Sent
  <2>2. Append(q, new)[Len(q) + 1] = new
    OBVIOUS
  <2> QED
    BY <2>1, <2>2
<1> QED
  BY <1>1, <1>2

Statuses == States \cup {Same}
Flushed == [event : Cursors, status : Statuses]
Connection == [phase : {"none", "sleep", "read", "closing", "closed"},
               cursor : Cursors, status : States, sent : Seq(SUBSET Events),
               reason : {"none", "terminal", "stream_timeout"}]
Page == [view : States, fetch : BOOLEAN, paused : BOOLEAN, done : BOOLEAN]

\* The type in parts.
LEMMA StreamParts ==
    StreamTypeOK <=> /\ clock \in 0..MaxTimes /\ flushed \in [Writers -> Flushed]
                     /\ rows \subseteq Events /\ late \subseteq rows /\ state \in States
                     /\ conn \in Connection /\ hook \in Page /\ drops \in 0..MaxDrops
BY DEF StreamTypeOK, Flushed, Connection, Page, Statuses

\* What the operations make of a connection.
LEMMA ConnMoves ==
    ASSUME NEW r \in Connection
    PROVE /\ \A p \in {"none", "sleep", "read", "closing", "closed"},
                x \in {"none", "terminal", "stream_timeout"} :
                 [r EXCEPT !.phase = p, !.reason = x] \in Connection
          /\ \A p \in {"none", "sleep", "read", "closing", "closed"}, s \in States :
                 /\ [r EXCEPT !.phase = p] \in Connection
                 /\ [r EXCEPT !.phase = p, !.status = s] \in Connection
          /\ \A p \in {"none", "sleep", "read", "closing", "closed"}, q \in Seq(SUBSET Events),
                c \in Cursors, x \in {"none", "terminal", "stream_timeout"} :
                 [r EXCEPT !.sent = q, !.cursor = c, !.phase = p, !.reason = x] \in Connection
BY DEF Connection

LEMMA PageMoves ==
    ASSUME NEW h \in Page, NEW s \in States, NEW b \in BOOLEAN, NEW p \in BOOLEAN
    PROVE /\ Refetched(h) \in Page
          /\ [h EXCEPT !.fetch = b, !.paused = p] \in Page
          /\ [h EXCEPT !.view = s, !.fetch = FALSE] \in Page
          /\ [Refetched(h) EXCEPT !.done = TRUE, !.paused = FALSE] \in Page
BY DEF Page, Refetched

LEMMA WriterMoves ==
    ASSUME NEW f \in [Writers -> Flushed], NEW w \in Writers
    PROVE /\ [f EXCEPT ![w].event = NoEvent] \in [Writers -> Flushed]
          /\ f[w].event \in Cursors /\ f[w].status \in Statuses
<1>1. f[w] \in Flushed
  OBVIOUS
<1>2. [f[w] EXCEPT !.event = NoEvent] \in Flushed
  BY <1>1 DEF Flushed, Cursors
<1>3. [f EXCEPT ![w].event = NoEvent] = [f EXCEPT ![w] = [f[w] EXCEPT !.event = NoEvent]]
  OBVIOUS
<1> QED
  BY <1>1, <1>2, <1>3 DEF Flushed

\* Every step of the stream keeps its type.
LEMMA StreamTypeKept == StreamTypeOK /\ [StreamNext]_streamVars => StreamTypeOK'
<1> SUFFICES ASSUME StreamTypeOK, [StreamNext]_streamVars PROVE StreamTypeOK'
  OBVIOUS
<1>0. /\ clock \in 0..MaxTimes /\ flushed \in [Writers -> Flushed]
      /\ rows \subseteq Events /\ late \subseteq rows /\ state \in States
      /\ conn \in Connection /\ hook \in Page /\ drops \in 0..MaxDrops
  BY StreamParts
<1> SUFFICES /\ clock' \in 0..MaxTimes /\ flushed' \in [Writers -> Flushed]
             /\ rows' \subseteq Events /\ late' \subseteq rows' /\ state' \in States
             /\ conn' \in Connection /\ hook' \in Page /\ drops' \in 0..MaxDrops
  BY DEF StreamTypeOK, Flushed, Connection, Page, Statuses
<1> USE StreamAssumption
<1>1. ASSUME NEW w \in Writers, NEW e \in Events, NEW s \in States \cup {Same},
             Flush(w, e, s) \/ FlushAgain(w, e)
      PROVE clock' \in 0..MaxTimes /\ flushed' \in [Writers -> Flushed]
            /\ UNCHANGED <<rows, late, state, conn, hook, drops>>
  <2>1. clock' = e.at /\ clock' \in 0..MaxTimes /\ Same \in Statuses /\ s \in Statuses
    BY <1>1, EventsInOrder DEF Flush, FlushAgain, Cursors, Statuses
  <2>2. \/ flushed' = [flushed EXCEPT ![w] = [event |-> e, status |-> s]]
        \/ flushed' = [flushed EXCEPT ![w] = [event |-> e, status |-> Same]]
    BY <1>1 DEF Flush, FlushAgain
  <2>3. flushed' \in [Writers -> Flushed]
    <3>1. [event |-> e, status |-> s] \in Flushed /\ [event |-> e, status |-> Same] \in Flushed
      BY <2>1 DEF Flushed, Cursors
    <3> QED
      BY <1>0, <2>2, <3>1
  <2> QED
    BY <1>1, <2>1, <2>3 DEF Flush, FlushAgain
<1>2. ASSUME NEW w \in Writers, CommitEvent(w)
      PROVE /\ rows' \subseteq Events /\ late' \subseteq rows' /\ state' \in States
            /\ flushed' \in [Writers -> Flushed] /\ UNCHANGED <<clock, conn, hook, drops>>
  <2>1. flushed[w].event \in Events /\ flushed[w].status \in Statuses
    BY <1>0, <1>2, WriterMoves DEF CommitEvent, Cursors
  <2>2. flushed' \in [Writers -> Flushed]
    BY <1>0, <1>2, WriterMoves DEF CommitEvent
  <2> QED
    BY <1>0, <1>2, <2>1, <2>2 DEF CommitEvent, Statuses
<1>3. CASE Connect
  <2>0. NoEvent \in Cursors /\ <<>> \in Seq(SUBSET Events)
    BY DEF Cursors
  <2>1. Newest(rows, NoEvent) \in Cursors /\ Above(rows, NoEvent) \in SUBSET Events
    BY <1>0, <2>0, NewestIsLast, AboveIs
  <2>2. Sent(<<>>, Above(rows, NoEvent)) \in Seq(SUBSET Events)
    BY <2>0, <2>1, SentIs
  <2>3. conn' \in Connection
    BY <1>0, <1>3, <2>1, <2>2 DEF Connect, Connection
  <2> QED
    BY <1>0, <1>3, <2>3, PageMoves DEF Connect
<1>4. CASE ReadTask
  BY <1>0, <1>4, ConnMoves, PageMoves DEF ReadTask
<1>5. CASE ReadEvents
  <2>1. conn.cursor \in Cursors /\ conn.sent \in Seq(SUBSET Events) /\ hook.fetch \in BOOLEAN
        /\ hook.paused \in BOOLEAN
    BY <1>0 DEF Connection, Page
  <2>2. Newest(rows, conn.cursor) \in Cursors /\ Above(rows, conn.cursor) \in SUBSET Events
    BY <1>0, <2>1, NewestIsLast, AboveIs
  <2>3. Sent(conn.sent, Above(rows, conn.cursor)) \in Seq(SUBSET Events)
    BY <2>1, <2>2, SentIs
  <2>4. conn' \in Connection
    BY <1>0, <1>5, <2>2, <2>3, ConnMoves DEF ReadEvents
  <2>5. hook' \in Page
    <3> DEFINE b == hook.fetch \/ Above(rows, conn.cursor) # {} \/ conn.status \in PAUSED_STATUSES
               p == hook.paused \/ conn.status \in PAUSED_STATUSES
    <3>1. hook' = [hook EXCEPT !.fetch = b, !.paused = p]
      BY <1>5 DEF ReadEvents
    <3>2. b \in BOOLEAN /\ p \in BOOLEAN
      BY <2>1
    <3> HIDE DEF b, p
    <3> QED
      BY <1>0, <3>1, <3>2, PageMoves
  <2> QED
    BY <1>0, <1>5, <2>4, <2>5 DEF ReadEvents
<1>6. CASE StreamTimeout
  BY <1>0, <1>6, ConnMoves DEF StreamTimeout
<1>7. CASE SendDone
  BY <1>0, <1>7, ConnMoves, PageMoves DEF SendDone
<1>8. CASE Drop
  <2>1. drops' \in 0..MaxDrops /\ conn' = [conn EXCEPT !.phase = "none", !.reason = "none"]
    BY <1>0, <1>8 DEF Drop
  <2>2. conn' \in Connection
    BY <1>0, <2>1, ConnMoves
  <2> QED
    BY <1>0, <1>8, <2>1, <2>2 DEF Drop
<1>9. CASE Refetch
  BY <1>0, <1>9, PageMoves DEF Refetch
<1>10. CASE UNCHANGED streamVars
  BY <1>0, <1>10 DEF streamVars
<1> QED
  BY <1>0, <1>1, <1>2, <1>3, <1>4, <1>5, <1>6, <1>7, <1>8, <1>9, <1>10 DEF StreamNext

LEMMA StreamTypeStarts == StreamInit => StreamTypeOK
BY StreamAssumption DEF StreamInit, StreamTypeOK, Cursors, States, TERMINAL_STATUSES,
                        PAUSED_STATUSES, Same

\* Every event is one: a row a writer has flushed is no committed row and no other writer's.
EventsDiffer ==
    /\ \A w \in Writers : flushed[w].event \notin rows
    /\ \A v, w \in Writers : flushed[v].event = flushed[w].event /\ flushed[w].event # NoEvent => v = w

Listening == conn.phase \in {"sleep", "read", "closing"}

\* The cursor is at an event, and what was sent is not ordered behind it.
CursorIsAtEvent ==
    /\ conn.cursor \in rows \cup {NoEvent}
    /\ \A i \in DOMAIN conn.sent : \A e \in conn.sent[i] : ~Before(conn.cursor, e)

\* What a connection was not sent is ordered behind its cursor, or is late.
UnsentIsAbove ==
    Listening => \A r \in rows : \/ r \in late \/ Before(conn.cursor, r)
                                 \/ \E i \in DOMAIN conn.sent : r \in conn.sent[i]

\* The page is behind only while it is about to fetch or the connection has an event to read.
PageIsBehind ==
    Listening /\ late = {} => \/ hook.fetch \/ hook.view = state
                             \/ \E r \in rows : Before(conn.cursor, r)

StreamInv == EventsDiffer /\ CursorIsAtEvent /\ SentInOrder /\ UnsentIsAbove /\ PageIsBehind

\* A step of a writer.
LEMMA WriterKeeps ==
    ASSUME StreamTypeOK, StreamInv, NEW w \in Writers,
           \/ \E e \in Events, s \in States \cup {Same} : Flush(w, e, s)
           \/ CommitEvent(w)
           \/ \E e \in Events : FlushAgain(w, e)
    PROVE StreamInv'
<1>0. /\ flushed \in [Writers -> Flushed] /\ rows \subseteq Events
      /\ late \subseteq rows /\ conn \in Connection /\ hook \in Page
      /\ UNCHANGED <<conn, hook>> /\ NoEvent \notin rows
  BY StreamParts DEF Flush, CommitEvent, FlushAgain, Events, NoEvent
<1>1. conn.cursor \in Cursors /\ \A v \in Writers : flushed[v].event \in Cursors
  BY <1>0 DEF Connection, Flushed
<1>2. CASE \/ \E e \in Events, s \in States \cup {Same} : Flush(w, e, s)
           \/ \E e \in Events : FlushAgain(w, e)
  <2>1. /\ UNCHANGED <<rows, late, state>>
        /\ \E e \in Events, s \in States \cup {Same} :
              IsNew(e) /\ flushed' = [flushed EXCEPT ![w] = [event |-> e, status |-> s]]
    BY <1>2 DEF Flush, FlushAgain
  <2>2. PICK e \in Events, s \in States \cup {Same} :
           IsNew(e) /\ flushed' = [flushed EXCEPT ![w] = [event |-> e, status |-> s]]
    BY <2>1
  <2>3. flushed'[w].event = e /\ \A v \in Writers \ {w} : flushed'[v] = flushed[v]
    BY <1>0, <2>2
  <2>4. e \notin rows /\ e # NoEvent /\ \A v \in Writers : flushed[v].event # e
    BY <2>2 DEF IsNew, Pending, Events, NoEvent
  <2>5. EventsDiffer'
    BY <2>1, <2>3, <2>4 DEF StreamInv, EventsDiffer
  <2> QED
    BY <1>0, <2>1, <2>5 DEF StreamInv, CursorIsAtEvent, SentInOrder, UnsentIsAbove, PageIsBehind, Listening
<1>3. CASE CommitEvent(w)
  <2> DEFINE a == flushed[w].event
  <2>1. /\ a # NoEvent /\ rows' = rows \cup {a}
        /\ late' = IF \E r \in rows : Before(a, r) THEN late \cup {a} ELSE late
        /\ flushed' = [flushed EXCEPT ![w].event = NoEvent]
    BY <1>3 DEF CommitEvent
  <2>2. a \in Cursors /\ a \notin rows
    BY <1>1 DEF StreamInv, EventsDiffer
  <2>3. flushed'[w].event = NoEvent /\ \A v \in Writers \ {w} : flushed'[v] = flushed[v]
    BY <1>0, <2>1 DEF Flushed
  <2>4. EventsDiffer'
    BY <1>0, <2>1, <2>3 DEF StreamInv, EventsDiffer
  <2>5. Before(conn.cursor, a) \/ \E r \in rows : Before(a, r)
    <3>1. CASE conn.cursor = NoEvent
      BY <2>1, <2>2, <3>1, EventsInOrder DEF Cursors
    <3>2. CASE conn.cursor \in rows
      <4>1. conn.cursor # a
        BY <2>2, <3>2
      <4>2. Before(conn.cursor, a) \/ Before(a, conn.cursor)
        BY <1>1, <2>2, <4>1, EventsInOrder
      <4> QED
        BY <3>2, <4>2
    <3> QED
      BY <3>1, <3>2 DEF StreamInv, CursorIsAtEvent
  <2> HIDE DEF a
  <2>6. CursorIsAtEvent' /\ SentInOrder'
    BY <1>0, <2>1 DEF StreamInv, CursorIsAtEvent, SentInOrder
  <2>7. UnsentIsAbove'
    BY <1>0, <2>1, <2>5 DEF StreamInv, UnsentIsAbove, Listening
  <2>8. PageIsBehind'
    BY <1>0, <2>1, <2>5 DEF StreamInv, PageIsBehind, Listening
  <2> QED
    BY <2>4, <2>6, <2>7, <2>8 DEF StreamInv
<1> QED
  BY <1>2, <1>3

\* A connection that reads the rows is sent those above its cursor, which moves to the newest.
LEMMA ReadKeeps ==
    ASSUME StreamTypeOK, NEW c \in Cursors, NEW q \in Seq(SUBSET Events), EventsDiffer,
           c \in rows \cup {NoEvent},
           \A i, j \in DOMAIN q : i < j => \A m \in q[i], n \in q[j] : Before(m, n),
           \A i \in DOMAIN q : \A m \in q[i] : ~Before(c, m),
           \A r \in rows : r \in late \/ Before(c, r) \/ \E i \in DOMAIN q : r \in q[i],
           UNCHANGED <<clock, flushed, rows, late, state>>,
           conn'.cursor = Newest(rows, c), conn'.sent = Sent(q, Above(rows, c))
    PROVE /\ EventsDiffer' /\ CursorIsAtEvent' /\ SentInOrder' /\ UnsentIsAbove'
          /\ \A r \in rows : r \in late \/ \E i \in DOMAIN conn'.sent : r \in conn'.sent[i]
<1>0. /\ rows \in SUBSET Events /\ Above(rows, c) \in SUBSET Events
      /\ \A e \in rows : e \in Above(rows, c) <=> Before(c, e)
  BY StreamParts, AboveIs
<1> DEFINE s == Sent(q, Above(rows, c))
<1>1. /\ conn'.cursor \in rows \cup {NoEvent} /\ conn'.cursor \in Cursors
      /\ \A e \in rows \cup {c} : e \in Cursors /\ ~Before(conn'.cursor, e)
  <2> DEFINE n == Newest(rows, c)
  <2>1. n \in rows \cup {c} /\ n \in Cursors /\ \A e \in rows \cup {c} : e \in Cursors /\ ~Before(n, e)
    BY <1>0, NewestIsLast
  <2>2. conn'.cursor = n
    OBVIOUS
  <2> HIDE DEF n
  <2> QED
    BY <2>1, <2>2
<1>2. /\ s \in Seq(SUBSET Events)
      /\ \A i \in DOMAIN s : \/ i \in DOMAIN q /\ s[i] = q[i]
                             \/ i = Len(q) + 1 /\ s[i] = Above(rows, c)
      /\ \A i \in DOMAIN q : i \in DOMAIN s /\ s[i] = q[i]
      /\ Above(rows, c) = {} \/ \E i \in DOMAIN s : s[i] = Above(rows, c)
  BY <1>0, SentIs
<1> HIDE DEF s
<1>3. \A i \in DOMAIN s : \A m \in s[i] : m \in Cursors /\ ~Before(conn'.cursor, m)
  <2> SUFFICES ASSUME NEW i \in DOMAIN s, NEW m \in s[i]
               PROVE m \in Cursors /\ ~Before(conn'.cursor, m)
    OBVIOUS
  <2>1. CASE i \in DOMAIN q /\ s[i] = q[i]
    <3>1. ~Before(c, m) /\ ~Before(conn'.cursor, c) /\ m \in Cursors
      BY <1>1, <2>1 DEF Cursors
    <3>2. conn'.cursor = c \/ Before(c, conn'.cursor)
      BY <1>1, <3>1, EventsInOrder
    <3> QED
      BY <1>1, <3>1, <3>2, EventsInOrder
  <2>2. CASE s[i] = Above(rows, c)
    BY <1>1, <2>2 DEF Above
  <2> QED
    BY <1>2, <2>1, <2>2
<1>4. \A i, j \in DOMAIN s : i < j => \A m \in s[i], n \in s[j] : Before(m, n)
  <2> SUFFICES ASSUME NEW i \in DOMAIN s, NEW j \in DOMAIN s, i < j, NEW m \in s[i], NEW n \in s[j]
               PROVE Before(m, n)
    OBVIOUS
  <2>1. i \in DOMAIN q /\ s[i] = q[i]
    <3>1. i \in Nat /\ j \in Nat /\ (j \in DOMAIN q => j <= Len(q))
      BY <1>2
    <3> QED
      BY <1>2, <3>1
  <2>2. m \in Cursors /\ n \in Cursors
    BY <1>3
  <2>3. CASE j \in DOMAIN q /\ s[j] = q[j]
    BY <2>1, <2>3
  <2>4. CASE s[j] = Above(rows, c)
    <3>1. ~Before(c, m) /\ Before(c, n)
      BY <1>0, <2>1, <2>4 DEF Above
    <3>2. m = c \/ Before(m, c)
      BY <2>2, <3>1, EventsInOrder
    <3> QED
      BY <2>2, <3>1, <3>2, EventsInOrder
  <2> QED
    BY <1>2, <2>3, <2>4
<1>5. \A r \in rows : r \in late \/ \E i \in DOMAIN s : r \in s[i]
  <2> SUFFICES ASSUME NEW r \in rows, r \notin late PROVE \E i \in DOMAIN s : r \in s[i]
    OBVIOUS
  <2>1. CASE Before(c, r)
    BY <1>0, <1>2, <2>1
  <2>2. CASE \E i \in DOMAIN q : r \in q[i]
    BY <1>2, <2>2
  <2> QED
    BY <2>1, <2>2
<1>6. conn'.sent = s
  BY DEF s
<1> QED
  BY <1>1, <1>3, <1>4, <1>5, <1>6 DEF EventsDiffer, CursorIsAtEvent, SentInOrder, UnsentIsAbove

\* The page is told of what is read.
LEMMA ReadTells ==
    ASSUME StreamTypeOK, StreamInv, ReadEvents
    PROVE PageIsBehind'
<1>1. hook \in Page /\ conn.phase = "read" /\ UNCHANGED <<rows, late, state>>
  BY StreamParts DEF ReadEvents
<1>0. \A e \in rows : e \in Above(rows, conn.cursor) <=> Before(conn.cursor, e)
  BY StreamParts, AboveIs DEF Connection
<1>2. hook'.view = hook.view /\ (hook.fetch \/ Above(rows, conn.cursor) # {} => hook'.fetch)
  BY <1>1 DEF ReadEvents, Page
<1>3. CASE \E r \in rows : Before(conn.cursor, r)
  BY <1>0, <1>1, <1>2, <1>3 DEF PageIsBehind
<1>4. CASE ~\E r \in rows : Before(conn.cursor, r)
  BY <1>1, <1>2, <1>4 DEF StreamInv, PageIsBehind, Listening
<1> QED
  BY <1>3, <1>4

\* Every step of the stream keeps the invariant.
LEMMA StreamKept == StreamTypeOK /\ StreamInv /\ [StreamNext]_streamVars => StreamInv'
<1> SUFFICES ASSUME StreamTypeOK, StreamInv, [StreamNext]_streamVars PROVE StreamInv'
  OBVIOUS
<1>0. conn \in Connection /\ hook \in Page
  BY StreamParts
<1>1. CASE \E w \in Writers : \/ \E e \in Events, s \in States \cup {Same} : Flush(w, e, s)
                              \/ CommitEvent(w)
                              \/ \E e \in Events : FlushAgain(w, e)
  BY <1>1, WriterKeeps
<1>2. CASE Connect
  <2>1. /\ conn'.cursor = Newest(rows, NoEvent) /\ conn'.sent = Sent(<<>>, Above(rows, NoEvent))
        /\ hook'.fetch /\ UNCHANGED <<clock, flushed, rows, late, state>>
    BY <1>0, <1>2 DEF Connect, Refetched, Page
  <2>2. /\ NoEvent \in Cursors /\ <<>> \in Seq(SUBSET Events)
        /\ \A r \in rows : Before(NoEvent, r)
    BY StreamParts, EventsInOrder DEF Cursors
  <2>3. DOMAIN <<>> = {}
    OBVIOUS
  <2>4. EventsDiffer' /\ CursorIsAtEvent' /\ SentInOrder' /\ UnsentIsAbove'
    BY <2>1, <2>2, <2>3, ReadKeeps DEF StreamInv
  <2> QED
    BY <2>1, <2>4 DEF StreamInv, PageIsBehind
<1>3. CASE ReadEvents
  <2>1. /\ conn.cursor \in Cursors /\ conn.sent \in Seq(SUBSET Events) /\ Listening
        /\ conn'.cursor = Newest(rows, conn.cursor)
        /\ conn'.sent = Sent(conn.sent, Above(rows, conn.cursor))
        /\ UNCHANGED <<clock, flushed, rows, late, state>>
    BY <1>0, <1>3 DEF ReadEvents, Connection, Listening
  <2>2. EventsDiffer' /\ CursorIsAtEvent' /\ SentInOrder' /\ UnsentIsAbove'
    BY <2>1, ReadKeeps DEF StreamInv, CursorIsAtEvent, SentInOrder, UnsentIsAbove
  <2> QED
    BY <1>3, <2>2, ReadTells DEF StreamInv
<1>4. CASE ReadTask \/ StreamTimeout \/ SendDone \/ Drop \/ Refetch \/ UNCHANGED streamVars
  <2>1. /\ conn'.cursor = conn.cursor /\ conn'.sent = conn.sent
        /\ conn'.phase \in {"sleep", "read", "closing"} => Listening
        /\ hook'.fetch \/ (~hook.fetch /\ hook'.view = hook.view) \/ hook'.view = state
        /\ UNCHANGED <<clock, flushed, rows, late, state>>
    BY <1>0, <1>4 DEF ReadTask, StreamTimeout, SendDone, Drop, Refetch, streamVars, Listening,
                      Refetched, Connection, Page
  <2>2. EventsDiffer' /\ CursorIsAtEvent' /\ SentInOrder' /\ UnsentIsAbove'
    BY <2>1 DEF StreamInv, EventsDiffer, CursorIsAtEvent, SentInOrder, UnsentIsAbove, Listening
  <2>3. PageIsBehind'
    BY <2>1 DEF StreamInv, PageIsBehind, Listening
  <2> QED
    BY <2>2, <2>3 DEF StreamInv
<1> QED
  BY <1>1, <1>2, <1>3, <1>4 DEF StreamNext

LEMMA StreamStarts == StreamInit => StreamInv
BY StreamAssumption DEF StreamInit, StreamInv, EventsDiffer, CursorIsAtEvent, SentInOrder,
                        UnsentIsAbove, PageIsBehind, Listening

LEMMA PageAlways == StreamInit /\ [][StreamNext]_streamVars => []PageFollowsTask
<1>1. StreamTypeOK /\ StreamInv => PageFollowsTask
  <2> SUFFICES ASSUME StreamTypeOK, StreamInv PROVE SeenIsShown
    BY DEF StreamInv, PageFollowsTask
  <2> SUFFICES ASSUME conn.phase = "sleep", late = {}, Newest(rows, conn.cursor) = conn.cursor
               PROVE hook.fetch \/ hook.view = state
    BY DEF SeenIsShown
  <2>1. conn.cursor \in Cursors /\ rows \in SUBSET Events
    BY StreamParts DEF Connection
  <2>2. \A r \in rows : ~Before(conn.cursor, r)
    BY <2>1, NewestIsLast
  <2> QED
    BY <2>2 DEF StreamInv, PageIsBehind, Listening
<1> QED
  BY <1>1, StreamTypeStarts, StreamTypeKept, StreamStarts, StreamKept, PTL

\* A connection is sent its events in their order and none twice, and a page whose connection has
\* read every event shows the status of the task or is about to fetch it.
THEOREM PageCorrect == StreamSpec => []PageFollowsTask
BY PageAlways, PTL DEF StreamSpec

LEMMA SkipsAlways == StreamInit /\ [][StreamNext]_streamVars => SkipsOnlyLate
<1>1. ASSUME StreamTypeOK, StreamInv, StreamNext, conn.phase = "read",
             conn'.phase \in {"sleep", "closing"}
      PROVE \A r \in rows : r \in late \/ \E k \in DOMAIN conn'.sent : r \in conn'.sent[k]
  <2>0. conn \in Connection
    BY <1>1, StreamParts
  <2>1. ReadEvents
    BY <1>1, <2>0 DEF StreamNext, Flush, CommitEvent, FlushAgain, Connect, ReadTask, StreamTimeout,
                      SendDone, Drop, Refetch, Connection
  <2>2. /\ conn.cursor \in Cursors /\ conn.sent \in Seq(SUBSET Events) /\ Listening
        /\ conn'.cursor = Newest(rows, conn.cursor)
        /\ conn'.sent = Sent(conn.sent, Above(rows, conn.cursor))
        /\ UNCHANGED <<clock, flushed, rows, late, state>>
    BY <2>0, <2>1 DEF ReadEvents, Connection, Listening
  <2> QED
    BY <1>1, <2>2, ReadKeeps DEF StreamInv, CursorIsAtEvent, SentInOrder, UnsentIsAbove
<1>2. StreamTypeOK /\ StreamInv /\ [StreamNext]_streamVars
      => [conn.phase = "read" /\ conn'.phase \in {"sleep", "closing"} =>
            \A r \in rows : r \in late \/ \E k \in DOMAIN conn'.sent : r \in conn'.sent[k]]_streamVars
  BY <1>1
<1> QED
  BY <1>2, StreamTypeStarts, StreamTypeKept, StreamStarts, StreamKept, PTL DEF SkipsOnlyLate

\* What a connection that has read the events was not sent was committed after an event ordered
\* behind it, by its time or, of one time, by its id.
THEOREM SkipsCorrect == StreamSpec => SkipsOnlyLate
BY SkipsAlways, PTL DEF StreamSpec
-----------------------------------------------------------------------------
(* The chat (ChatTurn).  One message at most is open, the one the page shows, and the thread of   *)
(* a message says which of its rows can be there: none before it is inserted, one whose job is     *)
(* not accepted while it is submitted.                                                              *)

Phases == {"none", "stream", "tool", "persist", "ended", "cancelled"}
Turn == [phase : Phases, intent : Intents, provider : Providers, full_text : SUBSET Providers,
         marker : BOOLEAN, iteration : 0..MaxIterations]
Shown == [status : {"idle", "pending", "created", "failed", "aborted"}, shown : SUBSET Providers]

\* The type in parts.
LEMMA ChatParts ==
    ChatTypeOK <=> /\ chatSends \in 0..MaxSends /\ chatTurn \in [Sends -> Turn]
                   /\ chatThread \in [Sends -> {"none", "tool", "insert", "submit"}]
                   /\ chatRows \subseteq ChatRow /\ chatPage \in Shown
BY DEF ChatTypeOK, Turn, Phases, Shown

\* What a step makes of the turn of a message.
LEMMA TurnMoves ==
    ASSUME NEW t \in Turn
    PROVE /\ \A p \in Phases : [t EXCEPT !.phase = p] \in Turn
          /\ \A i \in Intents : [t EXCEPT !.phase = "stream", !.intent = i] \in Turn
          /\ \A m \in BOOLEAN :
                [t EXCEPT !.full_text = @ \cup {t.provider}, !.marker = m] \in Turn
          /\ t.provider < Chain => NextProvider(t) \in Turn
          /\ t.iteration < MaxIterations => [t EXCEPT !.phase = "tool", !.iteration = @ + 1] \in Turn
<1>1. t.iteration \in 0..MaxIterations /\ t.provider \in 1..Chain /\ t.full_text \subseteq 1..Chain
  BY DEF Turn, Providers
<1>2. t.iteration < MaxIterations => t.iteration + 1 \in 0..MaxIterations
  BY <1>1, ChatAssumption
<1>3. t.provider < Chain => t.provider + 1 \in 1..Chain
  BY <1>1, ChatAssumption
<1>4. \A p \in Phases : [t EXCEPT !.phase = p] \in Turn
  BY DEF Turn
<1>5. \A i \in Intents : [t EXCEPT !.phase = "stream", !.intent = i] \in Turn
  BY DEF Turn, Phases
<1>6. \A m \in BOOLEAN : [t EXCEPT !.full_text = @ \cup {t.provider}, !.marker = m] \in Turn
  BY DEF Turn
<1>7. t.provider < Chain => NextProvider(t) \in Turn
  <2>1. 0 \in 0..MaxIterations /\ (t.provider < Chain => t.provider + 1 \in Providers)
    BY <1>3, ChatAssumption DEF Providers
  <2> QED
    BY <2>1 DEF Turn, NextProvider
<1>8. t.iteration < MaxIterations => [t EXCEPT !.phase = "tool", !.iteration = @ + 1] \in Turn
  BY <1>2 DEF Turn, Phases
<1> QED
  BY <1>4, <1>5, <1>6, <1>7, <1>8

\* A turn that takes the place of another.
LEMMA TurnTakes ==
    ASSUME NEW f \in [Sends -> Turn], NEW s \in Sends, NEW t \in Turn
    PROVE [f EXCEPT ![s] = t] \in [Sends -> Turn]
OBVIOUS

\* What the thread of a turn can be doing.
Doing(t, thread) ==
    /\ t.phase \in {"none", "stream", "ended"} => thread = "none"
    /\ t.phase = "tool" => thread = "tool"
    /\ t.phase = "persist" => thread \in {"insert", "submit"}
    /\ t.full_text \subseteq {t.provider}

\* What the rows of a message can be.
RowsFit(s) ==
    /\ \A q, r \in chatRows : q.send = s /\ r.send = s => q = r
    /\ \A r \in chatRows : r.send = s =>
          /\ s <= chatSends
          /\ chatTurn[s].intent = "continuation" => ~r.pipeline
          /\ \E p \in Providers : r.text \subseteq {p}
          /\ chatTurn[s].phase \in {"persist", "ended", "cancelled"}
          /\ chatThread[s] \in {"none", "submit"}
          /\ chatThread[s] = "submit" => ~r.job
    /\ chatThread[s] = "submit" => \E r \in chatRows : r.send = s

\* A message not yet sent has no turn; the one that is open is the last; and the page has heard
\* of the last one when its turn has ended.
OneIsOpen ==
    /\ \A s \in Sends : s > chatSends => chatTurn[s].phase = "none"
    /\ \A s \in Sends : Open(s) => s = chatSends /\ chatPage.status = "pending"
    /\ chatPage.status \in {"created", "failed"} =>
          chatSends \in Sends /\ chatTurn[chatSends].phase = "ended"

ChatInv ==
    /\ \A s \in Sends : Doing(chatTurn[s], chatThread[s]) /\ RowsFit(s)
    /\ OneIsOpen /\ PageIsRight

\* What a step does to one turn, its thread and the page.
LEMMA TurnDoes ==
    ASSUME ChatTypeOK, NEW s \in Sends
    PROVE /\ \A m \in BOOLEAN : Token(s, m) =>
                /\ chatTurn' = [chatTurn EXCEPT ![s] =
                        [chatTurn[s] EXCEPT !.full_text = @ \cup {chatTurn[s].provider},
                                            !.marker = @ \/ m]]
                /\ chatPage' = [chatPage EXCEPT !.shown = @ \cup {chatTurn[s].provider}]
          /\ ProviderFails(s) => chatTurn' = [chatTurn EXCEPT ![s] = NextProvider(chatTurn[s])]
          /\ CallsTool(s) => chatTurn' = [chatTurn EXCEPT ![s] =
                        [chatTurn[s] EXCEPT !.phase = "tool", !.iteration = @ + 1]]
          /\ ToolEnds(s) => chatTurn' = [chatTurn EXCEPT ![s] =
                        [chatTurn[s] EXCEPT !.phase = IF @ = "tool" THEN "stream" ELSE @]]
          /\ AnswerDone(s) => chatTurn' = [chatTurn EXCEPT ![s] =
                        [chatTurn[s] EXCEPT !.phase = "persist"]]
          /\ \A x : Told(s, x) => chatTurn' = [chatTurn EXCEPT ![s] =
                        [chatTurn[s] EXCEPT !.phase = IF @ = "persist" THEN "ended" ELSE @]]
<1>1. chatTurn \in [Sends -> Turn]
  BY ChatParts
<1> QED
  BY <1>1 DEF Token, ProviderFails, CallsTool, ToolEnds, AnswerDone, Told

\* Every step of the chat keeps its type.
LEMMA ChatTypeKept == ChatTypeOK /\ [ChatNext]_chatVars => ChatTypeOK'
<1> SUFFICES ASSUME ChatTypeOK, [ChatNext]_chatVars PROVE ChatTypeOK'
  OBVIOUS
<1>0. /\ chatSends \in 0..MaxSends /\ chatTurn \in [Sends -> Turn]
      /\ chatThread \in [Sends -> {"none", "tool", "insert", "submit"}]
      /\ chatRows \subseteq ChatRow /\ chatPage \in Shown
  BY ChatParts
<1> SUFFICES /\ chatSends' \in 0..MaxSends /\ chatTurn' \in [Sends -> Turn]
             /\ chatThread' \in [Sends -> {"none", "tool", "insert", "submit"}]
             /\ chatRows' \subseteq ChatRow /\ chatPage' \in Shown
  BY DEF ChatTypeOK, Turn, Phases, Shown
<1>1. ASSUME NEW intent \in Intents, SendMessage(intent)
      PROVE /\ chatSends' \in 0..MaxSends /\ chatTurn' \in [Sends -> Turn] /\ chatPage' \in Shown
            /\ UNCHANGED <<chatThread, chatRows>>
  <2>1. chatSends' \in 0..MaxSends /\ chatSends' \in Sends
    BY <1>0, <1>1, ChatAssumption DEF SendMessage, Sends
  <2>2. chatTurn' = [chatTurn EXCEPT ![chatSends'] =
                        [chatTurn[chatSends'] EXCEPT !.phase = "stream", !.intent = intent]]
    BY <1>0, <1>1, <2>1 DEF SendMessage
  <2>3. [chatTurn[chatSends'] EXCEPT !.phase = "stream", !.intent = intent] \in Turn
    BY <1>0, <2>1, TurnMoves
  <2> QED
    BY <1>0, <1>1, <2>1, <2>2, <2>3 DEF SendMessage, Shown
<1>2. ASSUME NEW s \in Sends, NEW marker \in BOOLEAN, Token(s, marker)
      PROVE /\ chatTurn' \in [Sends -> Turn] /\ chatPage' \in Shown
            /\ UNCHANGED <<chatSends, chatThread, chatRows>>
  <2>1. chatTurn[s] \in Turn /\ chatTurn[s].marker \in BOOLEAN /\ chatTurn[s].provider \in Providers
    BY <1>0 DEF Turn
  <2>2. (chatTurn[s].marker \/ marker) \in BOOLEAN
    BY <2>1
  <2>3. [chatTurn[s] EXCEPT !.full_text = @ \cup {chatTurn[s].provider}, !.marker = @ \/ marker] \in Turn
    BY <2>1, <2>2, TurnMoves
  <2>4. chatPage' \in Shown
    <3>1. chatPage' = [chatPage EXCEPT !.shown = @ \cup {chatTurn[s].provider}]
      BY <1>2, TurnDoes
    <3> QED
      BY <1>0, <2>1, <3>1 DEF Shown
  <2> QED
    BY <1>0, <1>2, <2>3, <2>4, TurnDoes, TurnTakes DEF Token
<1>3. ASSUME NEW s \in Sends, ProviderFails(s) \/ CallsTool(s) \/ ToolEnds(s) \/ AnswerDone(s)
      PROVE /\ chatTurn' \in [Sends -> Turn]
            /\ chatThread' \in [Sends -> {"none", "tool", "insert", "submit"}]
            /\ UNCHANGED <<chatSends, chatRows, chatPage>>
  <2>1. chatTurn[s] \in Turn /\ chatTurn[s].phase \in Phases
    BY <1>0 DEF Turn
  <2>2. chatTurn' \in [Sends -> Turn]
    <3>1. CASE ProviderFails(s)
      BY <1>0, <2>1, <3>1, TurnDoes, TurnMoves, TurnTakes DEF ProviderFails
    <3>2. CASE CallsTool(s)
      BY <1>0, <2>1, <3>2, TurnDoes, TurnMoves, TurnTakes DEF CallsTool
    <3>3. CASE ToolEnds(s)
      <4>1. (IF chatTurn[s].phase = "tool" THEN "stream" ELSE chatTurn[s].phase) \in Phases
        BY <2>1 DEF Phases
      <4>2. [chatTurn[s] EXCEPT !.phase = IF @ = "tool" THEN "stream" ELSE @] \in Turn
        BY <2>1, <4>1, TurnMoves
      <4> QED
        <5>1. chatTurn' = [chatTurn EXCEPT ![s] =
                               [chatTurn[s] EXCEPT !.phase = IF @ = "tool" THEN "stream" ELSE @]]
          BY <3>3, TurnDoes
        <5> QED
          BY <1>0, <4>2, <5>1
    <3>4. CASE AnswerDone(s)
      <4>1. "persist" \in Phases
        BY DEF Phases
      <4>2. [chatTurn[s] EXCEPT !.phase = "persist"] \in Turn
        BY <2>1, <4>1, TurnMoves
      <4> QED
        <5>1. chatTurn' = [chatTurn EXCEPT ![s] = [chatTurn[s] EXCEPT !.phase = "persist"]]
          BY <3>4, TurnDoes
        <5> QED
          BY <1>0, <4>2, <5>1
    <3> QED
      BY <1>3, <3>1, <3>2, <3>3, <3>4
  <2> QED
    BY <1>0, <1>3, <2>2 DEF ProviderFails, CallsTool, ToolEnds, AnswerDone
<1>4. ASSUME NEW s \in Sends, NEW x \in {"created", "failed"}, Told(s, x)
      PROVE /\ chatTurn' \in [Sends -> Turn] /\ chatPage' \in Shown
            /\ chatThread' \in [Sends -> {"none", "tool", "insert", "submit"}]
  <2>1. chatTurn[s] \in Turn /\ chatTurn[s].phase \in Phases
    BY <1>0 DEF Turn
  <2>2. (IF chatTurn[s].phase = "persist" THEN "ended" ELSE chatTurn[s].phase) \in Phases
    BY <2>1 DEF Phases
  <2>3. chatTurn' \in [Sends -> Turn]
    <3>1. [chatTurn[s] EXCEPT !.phase = IF @ = "persist" THEN "ended" ELSE @] \in Turn
      BY <2>1, <2>2, TurnMoves
    <3> QED
      <4>1. chatTurn' = [chatTurn EXCEPT ![s] =
                             [chatTurn[s] EXCEPT !.phase = IF @ = "persist" THEN "ended" ELSE @]]
        BY <1>4, TurnDoes
      <4> QED
        BY <1>0, <3>1, <4>1
  <2> QED
    BY <1>0, <1>4, <2>3 DEF Told, Shown
<1>5. ASSUME NEW s \in Sends, InsertTask(s) \/ SubmitTask(s) \/ PersistFails(s)
      PROVE chatRows' \subseteq ChatRow /\ UNCHANGED chatSends
  <2>1. chatTurn[s] \in Turn
    BY <1>0
  <2>2. InsertTask(s) => [send |-> s, pipeline |-> StartsPipeline(chatTurn[s]),
                          text |-> chatTurn[s].full_text, job |-> FALSE] \in ChatRow
    BY <2>1 DEF ChatRow, StartsPipeline, Turn
  <2>3. \A r \in chatRows : [r EXCEPT !.job = @ \/ r.send = s] \in ChatRow
    BY <1>0 DEF ChatRow
  <2> QED
    BY <1>0, <1>5, <2>2, <2>3 DEF InsertTask, SubmitTask, PersistFails
<1>6. ASSUME NEW s \in Sends, InsertTask(s) \/ SubmitTask(s) \/ PersistFails(s)
      PROVE /\ chatTurn' \in [Sends -> Turn] /\ chatPage' \in Shown
            /\ chatThread' \in [Sends -> {"none", "tool", "insert", "submit"}]
  BY <1>0, <1>4, <1>6 DEF InsertTask, SubmitTask, PersistFails
<1>7. CASE Abort
  <2>1. chatTurn' \in [Sends -> Turn]
    <3>1. CASE chatSends \in Sends
      <4>1. chatTurn' = [chatTurn EXCEPT ![chatSends] = [chatTurn[chatSends] EXCEPT !.phase = "cancelled"]]
        BY <1>0, <1>7, <3>1 DEF Abort
      <4>2. "cancelled" \in Phases
        BY DEF Phases
      <4> QED
        BY <1>0, <3>1, <4>1, <4>2, TurnMoves, TurnTakes
    <3>2. CASE chatSends \notin Sends
      BY <1>0, <1>7, <3>2 DEF Abort
    <3> QED
      BY <3>1, <3>2
  <2> QED
    BY <1>0, <1>7, <2>1 DEF Abort, Shown
<1>8. CASE UNCHANGED chatVars
  BY <1>0, <1>8 DEF chatVars
<1> QED
  BY <1>0, <1>1, <1>2, <1>3, <1>5, <1>6, <1>7, <1>8 DEF ChatNext

LEMMA ChatTypeStarts == ChatInit => ChatTypeOK
BY ChatAssumption DEF ChatInit, ChatTypeOK, Sends, Providers, Intents

LEMMA ChatStarts == ChatInit => ChatInv
BY ChatAssumption DEF ChatInit, ChatInv, Doing, RowsFit, OneIsOpen, Open, PageIsRight, Sends

\* A message whose turn, thread and rows stay is as it was.
LEMMA OtherMessage ==
    ASSUME NEW q \in Sends, Doing(chatTurn[q], chatThread[q]), RowsFit(q),
           chatTurn'[q] = chatTurn[q], chatThread'[q] = chatThread[q], chatSends' = chatSends,
           \A r : r.send = q => (r \in chatRows' <=> r \in chatRows)
    PROVE Doing(chatTurn[q], chatThread[q])' /\ RowsFit(q)'
BY DEF Doing, RowsFit

\* The step of a turn before it is persisted.
LEMMA TalkKeeps ==
    ASSUME ChatTypeOK, ChatInv, NEW s \in Sends,
           \/ \E m \in BOOLEAN : Token(s, m)
           \/ ProviderFails(s) \/ CallsTool(s) \/ ToolEnds(s) \/ AnswerDone(s)
    PROVE ChatInv'
<1>0. /\ chatTurn \in [Sends -> Turn] /\ chatTurn[s] \in Turn /\ chatPage \in Shown
      /\ chatThread \in [Sends -> {"none", "tool", "insert", "submit"}]
      /\ UNCHANGED <<chatSends, chatRows>>
  BY ChatParts DEF Token, ProviderFails, CallsTool, ToolEnds, AnswerDone
<1>1. Doing(chatTurn[s], chatThread[s]) /\ RowsFit(s) /\ OneIsOpen
  BY DEF ChatInv
<1>2. /\ \A q \in Sends \ {s} : chatTurn'[q] = chatTurn[q] /\ chatThread'[q] = chatThread[q]
      /\ chatTurn'[s].full_text \subseteq {chatTurn'[s].provider}
      /\ chatTurn[s].phase \in {"stream", "tool", "cancelled"}
      /\ \/ chatTurn'[s].phase = "stream" /\ chatThread'[s] = "none"
         \/ chatTurn'[s].phase = "tool" /\ chatThread'[s] = "tool"
         \/ chatTurn'[s].phase = "persist" /\ chatThread'[s] = "insert"
         \/ chatTurn'[s].phase = "cancelled" /\ chatThread'[s] = "none"
      /\ chatThread[s] \in {"none", "tool"} /\ (chatTurn[s].phase = "cancelled" => chatThread[s] = "tool")
      /\ chatTurn'[s].phase = "cancelled" <=> chatTurn[s].phase = "cancelled"
      /\ chatPage'.status = chatPage.status
  <2>1. ASSUME NEW m \in BOOLEAN, Token(s, m) PROVE <1>2
    <3>1. /\ chatTurn'[s] = [chatTurn[s] EXCEPT !.full_text = @ \cup {chatTurn[s].provider},
                                                !.marker = @ \/ m]
          /\ \A q \in Sends \ {s} : chatTurn'[q] = chatTurn[q]
      <4>1. chatTurn' = [chatTurn EXCEPT ![s] =
                 [chatTurn[s] EXCEPT !.full_text = @ \cup {chatTurn[s].provider},
                                                       !.marker = @ \/ m]]
        BY <2>1, TurnDoes
      <4> QED
        BY <1>0, <4>1
    <3>2. chatPage'.status = chatPage.status
      BY <1>0, <2>1, TurnDoes DEF Shown
    <3>3. /\ chatTurn'[s].phase = "stream" /\ chatTurn'[s].provider = chatTurn[s].provider
          /\ chatTurn'[s].full_text = chatTurn[s].full_text \cup {chatTurn[s].provider}
      BY <1>0, <2>1, <3>1 DEF Token, Turn
    <3> QED
      BY <1>1, <2>1, <3>1, <3>2, <3>3 DEF Token, Doing
  <2>2. CASE ProviderFails(s)
    <3>1. /\ chatTurn'[s] = NextProvider(chatTurn[s])
          /\ \A q \in Sends \ {s} : chatTurn'[q] = chatTurn[q]
      BY <1>0, <2>2, TurnDoes
    <3>2. chatTurn'[s].phase = "stream" /\ chatTurn'[s].full_text = {}
      BY <1>0, <2>2, <3>1 DEF ProviderFails, NextProvider, Turn
    <3> QED
      BY <1>1, <2>2, <3>1, <3>2 DEF ProviderFails, Doing
  <2>3. CASE CallsTool(s)
    <3>1. /\ chatTurn'[s] = [chatTurn[s] EXCEPT !.phase = "tool", !.iteration = @ + 1]
          /\ \A q \in Sends \ {s} : chatTurn'[q] = chatTurn[q]
      <4>1. chatTurn' = [chatTurn EXCEPT ![s] =
                 [chatTurn[s] EXCEPT !.phase = "tool", !.iteration = @ + 1]]
        BY <2>3, TurnDoes
      <4> QED
        BY <1>0, <4>1
    <3>2. /\ chatTurn'[s].phase = "tool" /\ chatTurn'[s].provider = chatTurn[s].provider
          /\ chatTurn'[s].full_text = chatTurn[s].full_text
      BY <1>0, <3>1 DEF Turn
    <3> QED
      BY <1>0, <1>1, <2>3, <3>1, <3>2 DEF CallsTool, Doing
  <2>4. CASE ToolEnds(s)
    <3>1. /\ chatTurn'[s] = [chatTurn[s] EXCEPT !.phase = IF @ = "tool" THEN "stream" ELSE @]
          /\ \A q \in Sends \ {s} : chatTurn'[q] = chatTurn[q]
      <4>1. chatTurn' = [chatTurn EXCEPT ![s] =
                 [chatTurn[s] EXCEPT !.phase = IF @ = "tool" THEN "stream" ELSE @]]
        BY <2>4, TurnDoes
      <4> QED
        BY <1>0, <4>1
    <3>2. /\ chatTurn'[s].phase = IF chatTurn[s].phase = "tool" THEN "stream" ELSE chatTurn[s].phase
          /\ chatTurn'[s].provider = chatTurn[s].provider
          /\ chatTurn'[s].full_text = chatTurn[s].full_text
          /\ chatTurn[s].phase \in Phases
      BY <1>0, <3>1 DEF Turn
    <3> QED
      BY <1>0, <1>1, <2>4, <3>1, <3>2 DEF ToolEnds, Doing, Phases
  <2>5. CASE AnswerDone(s)
    <3>1. /\ chatTurn'[s] = [chatTurn[s] EXCEPT !.phase = "persist"]
          /\ \A q \in Sends \ {s} : chatTurn'[q] = chatTurn[q]
      <4>1. chatTurn' = [chatTurn EXCEPT ![s] =
                 [chatTurn[s] EXCEPT !.phase = "persist"]]
        BY <2>5, TurnDoes
      <4> QED
        BY <1>0, <4>1
    <3>2. /\ chatTurn'[s].phase = "persist" /\ chatTurn'[s].provider = chatTurn[s].provider
          /\ chatTurn'[s].full_text = chatTurn[s].full_text
      BY <1>0, <3>1 DEF Turn
    <3> QED
      BY <1>0, <1>1, <2>5, <3>1, <3>2 DEF AnswerDone, Doing
  <2> QED
    BY <2>1, <2>2, <2>3, <2>4, <2>5
<1>3. \A r \in chatRows : r.send # s
  BY <1>1, <1>2 DEF RowsFit
<1>4. Doing(chatTurn[s], chatThread[s])' /\ RowsFit(s)'
  BY <1>0, <1>2, <1>3 DEF Doing, RowsFit
<1>5. \A q \in Sends \ {s} : Doing(chatTurn[q], chatThread[q])' /\ RowsFit(q)'
  BY <1>0, <1>2, OtherMessage DEF ChatInv
<1>6. OneIsOpen'
  BY <1>0, <1>1, <1>2 DEF OneIsOpen, Open
<1>7. PageIsRight'
  BY <1>0, <1>2 DEF ChatInv, PageIsRight
<1> QED
  BY <1>4, <1>5, <1>6, <1>7 DEF ChatInv

\* What telling the page does: the turn that is persisted ends, and the page hears of it.
LEMMA TellsPage ==
    ASSUME ChatTypeOK, ChatInv, NEW s \in Sends, NEW x \in {"created", "failed"}, Told(s, x),
           chatThread[s] \in {"insert", "submit"}, UNCHANGED chatSends
    PROVE /\ \A q \in Sends \ {s} : chatTurn'[q] = chatTurn[q] /\ chatThread'[q] = chatThread[q]
          /\ chatThread'[s] = "none" /\ chatTurn'[s].intent = chatTurn[s].intent
          /\ chatTurn'[s].full_text \subseteq {chatTurn'[s].provider}
          /\ chatTurn'[s].phase \in {"ended", "cancelled"}
          /\ \/ /\ s = chatSends /\ chatPage'.status = x /\ chatTurn'[s].phase = "ended"
             \/ /\ chatTurn[s].phase = "cancelled" /\ chatTurn'[s].phase = "cancelled"
                /\ chatPage' = chatPage
          /\ OneIsOpen'
<1>0. /\ chatTurn \in [Sends -> Turn] /\ chatTurn[s] \in Turn /\ chatPage \in Shown
      /\ chatThread \in [Sends -> {"none", "tool", "insert", "submit"}]
  BY ChatParts
<1>1. Doing(chatTurn[s], chatThread[s]) /\ RowsFit(s) /\ OneIsOpen
  BY DEF ChatInv
<1>2. chatTurn[s].phase \in {"persist", "cancelled"}
  BY <1>0, <1>1 DEF Doing, Turn, Phases
<1>3. /\ \A q \in Sends \ {s} : chatTurn'[q] = chatTurn[q] /\ chatThread'[q] = chatThread[q]
      /\ chatThread'[s] = "none" /\ chatTurn'[s].intent = chatTurn[s].intent
      /\ chatTurn'[s].full_text \subseteq {chatTurn'[s].provider}
      /\ chatTurn'[s].phase = IF chatTurn[s].phase = "persist" THEN "ended" ELSE "cancelled"
  BY <1>0, <1>1, <1>2, TurnDoes DEF Told, Doing, Turn
<1>4. \/ /\ s = chatSends /\ chatPage'.status = x /\ chatTurn'[s].phase = "ended"
      \/ /\ chatTurn[s].phase = "cancelled" /\ chatTurn'[s].phase = "cancelled"
         /\ chatPage' = chatPage
  BY <1>0, <1>1, <1>2, <1>3 DEF Told, OneIsOpen, Open, Shown
<1>5. OneIsOpen'
  BY <1>0, <1>1, <1>2, <1>3, <1>4 DEF OneIsOpen, Open, Sends
<1> QED
  BY <1>3, <1>4, <1>5

\* A row is made for the message whose thread inserts it.
LEMMA InsertKeeps ==
    ASSUME ChatTypeOK, ChatInv, NEW s \in Sends, InsertTask(s)
    PROVE ChatInv'
<1> DEFINE r0 == [send |-> s, pipeline |-> StartsPipeline(chatTurn[s]),
                  text |-> chatTurn[s].full_text, job |-> FALSE]
<1>0. /\ chatTurn \in [Sends -> Turn] /\ chatTurn[s] \in Turn /\ chatPage \in Shown
      /\ chatThread \in [Sends -> {"none", "tool", "insert", "submit"}]
      /\ chatSends' = chatSends /\ chatThread[s] = "insert" /\ chatRows' = chatRows \cup {r0}
  BY ChatParts DEF InsertTask
<1>1. Doing(chatTurn[s], chatThread[s]) /\ RowsFit(s) /\ OneIsOpen
  BY DEF ChatInv
<1>2. chatTurn[s].phase \in {"persist", "cancelled"} /\ s <= chatSends
  <2>1. chatTurn[s].phase \in {"persist", "cancelled"}
    BY <1>0, <1>1 DEF Doing, Turn, Phases
  <2> QED
    BY <1>1, <2>1, ChatParts, ChatAssumption DEF OneIsOpen, Sends
<1>3. /\ r0.send = s /\ ~r0.job /\ (r0.pipeline <=> StartsPipeline(chatTurn[s]))
      /\ r0.text = chatTurn[s].full_text
  OBVIOUS
<1>4. chatTurn[s].intent = "continuation" => ~r0.pipeline
  BY <1>3 DEF StartsPipeline
<1>5. \E p \in Providers : r0.text \subseteq {p}
  BY <1>0, <1>1, <1>3 DEF Doing, Turn
<1>6. \A r \in chatRows : r.send # s
  BY <1>0, <1>1 DEF RowsFit
<1> HIDE DEF r0
<1>7. CASE StartsPipeline(chatTurn[s])
  <2>1. /\ chatThread' = [chatThread EXCEPT ![s] = "submit"] /\ UNCHANGED <<chatTurn, chatPage>>
    BY <1>7 DEF InsertTask
  <2>2. chatThread'[s] = "submit" /\ \A q \in Sends \ {s} : chatThread'[q] = chatThread[q]
    BY <1>0, <2>1
  <2>3. Doing(chatTurn[s], chatThread[s])'
    BY <1>1, <1>2, <2>1, <2>2 DEF Doing
  <2>4. RowsFit(s)'
    BY <1>0, <1>2, <1>3, <1>4, <1>5, <1>6, <2>1, <2>2 DEF RowsFit
  <2>5. \A q \in Sends \ {s} : Doing(chatTurn[q], chatThread[q])' /\ RowsFit(q)'
    BY <1>0, <1>3, <2>1, <2>2, OtherMessage DEF ChatInv
  <2>6. OneIsOpen'
    BY <1>0, <1>1, <2>1 DEF OneIsOpen, Open
  <2>7. PageIsRight'
    BY <1>0, <1>1, <1>2, <1>3, <2>1 DEF ChatInv, PageIsRight, OneIsOpen
  <2> QED
    BY <2>3, <2>4, <2>5, <2>6, <2>7 DEF ChatInv
<1>8. CASE ~StartsPipeline(chatTurn[s])
  <2>1. Told(s, "created")
    BY <1>8 DEF InsertTask
  <2>2. /\ \A q \in Sends \ {s} : chatTurn'[q] = chatTurn[q] /\ chatThread'[q] = chatThread[q]
        /\ chatThread'[s] = "none" /\ chatTurn'[s].intent = chatTurn[s].intent
        /\ chatTurn'[s].full_text \subseteq {chatTurn'[s].provider}
        /\ chatTurn'[s].phase \in {"ended", "cancelled"}
        /\ \/ /\ s = chatSends /\ chatPage'.status = "created" /\ chatTurn'[s].phase = "ended"
           \/ /\ chatTurn[s].phase = "cancelled" /\ chatTurn'[s].phase = "cancelled"
              /\ chatPage' = chatPage
        /\ OneIsOpen'
    BY <1>0, <2>1, TellsPage
  <2>3. Doing(chatTurn[s], chatThread[s])'
    BY <2>2 DEF Doing
  <2>4. RowsFit(s)'
    BY <1>0, <1>2, <1>3, <1>4, <1>5, <1>6, <2>2 DEF RowsFit
  <2>5. \A q \in Sends \ {s} : Doing(chatTurn[q], chatThread[q])' /\ RowsFit(q)'
    BY <1>0, <1>3, <2>2, OtherMessage DEF ChatInv
  <2>6. PageIsRight'
    <3>1. CASE s = chatSends /\ chatPage'.status = "created"
      <4>1. {r \in chatRows' : r.send = chatSends'} = {r0}
        BY <1>0, <1>3, <1>6, <3>1
      <4> QED
        BY <1>3, <1>8, <3>1, <4>1 DEF PageIsRight
    <3>2. CASE chatTurn[s].phase = "cancelled" /\ chatPage' = chatPage
      BY <1>0, <1>1, <1>3, <3>2 DEF ChatInv, PageIsRight, OneIsOpen
    <3> QED
      BY <2>2, <3>1, <3>2
  <2> QED
    BY <2>2, <2>3, <2>4, <2>5, <2>6 DEF ChatInv
<1> QED
  BY <1>7, <1>8

\* The job of a row is accepted.
LEMMA SubmitKeeps ==
    ASSUME ChatTypeOK, ChatInv, NEW s \in Sends, SubmitTask(s)
    PROVE ChatInv'
<1> DEFINE New(r) == [r EXCEPT !.job = @ \/ r.send = s]
<1>0. /\ chatRows \subseteq ChatRow /\ chatSends' = chatSends /\ chatThread[s] = "submit"
      /\ chatRows' = {New(r) : r \in chatRows} /\ Told(s, "created")
  BY ChatParts DEF SubmitTask
<1>1. Doing(chatTurn[s], chatThread[s]) /\ RowsFit(s) /\ OneIsOpen
  BY DEF ChatInv
<1>2. /\ \A q \in Sends \ {s} : chatTurn'[q] = chatTurn[q] /\ chatThread'[q] = chatThread[q]
      /\ chatThread'[s] = "none" /\ chatTurn'[s].intent = chatTurn[s].intent
      /\ chatTurn'[s].full_text \subseteq {chatTurn'[s].provider}
      /\ chatTurn'[s].phase \in {"ended", "cancelled"}
      /\ \/ /\ s = chatSends /\ chatPage'.status = "created" /\ chatTurn'[s].phase = "ended"
         \/ /\ chatTurn[s].phase = "cancelled" /\ chatTurn'[s].phase = "cancelled"
            /\ chatPage' = chatPage
      /\ OneIsOpen'
  BY <1>0, TellsPage
<1>3. \A r \in chatRows : /\ New(r).send = r.send /\ New(r).text = r.text
                          /\ (New(r).pipeline <=> r.pipeline) /\ New(r) \in chatRows'
                          /\ r.send = s => New(r).job
  BY <1>0 DEF ChatRow
<1>4. \A r \in chatRows : r.send # s => New(r) = r
  BY <1>0 DEF ChatRow
<1>5. \A x \in chatRows' : \E r \in chatRows : x = New(r)
  BY <1>0
<1> HIDE DEF New
<1>6. \A x : x.send # s => (x \in chatRows' <=> x \in chatRows)
  BY <1>3, <1>4, <1>5
<1>7. Doing(chatTurn[s], chatThread[s])'
  BY <1>2 DEF Doing
<1>8. RowsFit(s)'
  <2>1. \A x, y \in chatRows' : x.send = s /\ y.send = s => x = y
    BY <1>1, <1>3, <1>5 DEF RowsFit
  <2>2. \A x \in chatRows' : x.send = s =>
          /\ s <= chatSends' /\ (chatTurn'[s].intent = "continuation" => ~x.pipeline)
          /\ \E p \in Providers : x.text \subseteq {p}
    BY <1>0, <1>1, <1>2, <1>3, <1>5 DEF RowsFit
  <2> QED
    BY <1>2, <2>1, <2>2 DEF RowsFit
<1>9. \A q \in Sends \ {s} : Doing(chatTurn[q], chatThread[q])' /\ RowsFit(q)'
  BY <1>0, <1>2, <1>6, OtherMessage DEF ChatInv
<1>10. PageIsRight'
  <2>1. CASE s = chatSends /\ chatPage'.status = "created"
    <3>1. \A x \in chatRows' : x.send = s => x.job
      BY <1>3, <1>5
    <3>2. \E x \in chatRows' : x.send = s
      BY <1>0, <1>1, <1>3 DEF RowsFit
    <3> QED
      BY <1>0, <2>1, <3>1, <3>2 DEF PageIsRight
  <2>2. CASE chatTurn[s].phase = "cancelled" /\ chatPage' = chatPage
    <3>1. CASE s = chatSends
      BY <1>1, <2>2, <3>1, <1>0 DEF PageIsRight, OneIsOpen
    <3>2. CASE s # chatSends
      BY <1>0, <1>6, <2>2, <3>2 DEF ChatInv, PageIsRight
    <3> QED
      BY <3>1, <3>2
  <2> QED
    BY <1>2, <2>1, <2>2
<1> QED
  BY <1>2, <1>7, <1>8, <1>9, <1>10 DEF ChatInv

\* The turn cannot be persisted.
LEMMA FailureKeeps ==
    ASSUME ChatTypeOK, ChatInv, NEW s \in Sends, PersistFails(s)
    PROVE ChatInv'
<1>0. /\ chatThread[s] \in {"insert", "submit"} /\ UNCHANGED <<chatSends, chatRows>>
      /\ Told(s, "failed")
  BY DEF PersistFails
<1>1. Doing(chatTurn[s], chatThread[s]) /\ RowsFit(s) /\ OneIsOpen
  BY DEF ChatInv
<1>2. /\ \A q \in Sends \ {s} : chatTurn'[q] = chatTurn[q] /\ chatThread'[q] = chatThread[q]
      /\ chatThread'[s] = "none" /\ chatTurn'[s].intent = chatTurn[s].intent
      /\ chatTurn'[s].full_text \subseteq {chatTurn'[s].provider}
      /\ chatTurn'[s].phase \in {"ended", "cancelled"}
      /\ \/ /\ s = chatSends /\ chatPage'.status = "failed" /\ chatTurn'[s].phase = "ended"
         \/ /\ chatTurn[s].phase = "cancelled" /\ chatTurn'[s].phase = "cancelled"
            /\ chatPage' = chatPage
      /\ OneIsOpen'
  BY <1>0, TellsPage
<1>3. Doing(chatTurn[s], chatThread[s])' /\ RowsFit(s)'
  BY <1>0, <1>1, <1>2 DEF Doing, RowsFit
<1>4. \A q \in Sends \ {s} : Doing(chatTurn[q], chatThread[q])' /\ RowsFit(q)'
  BY <1>0, <1>2, OtherMessage DEF ChatInv
<1>5. PageIsRight'
  BY <1>0, <1>1, <1>2 DEF ChatInv, PageIsRight, RowsFit, OneIsOpen
<1> QED
  BY <1>2, <1>3, <1>4, <1>5 DEF ChatInv

\* The page sends the next message, or stops waiting.
LEMMA PageKeeps ==
    ASSUME ChatTypeOK, ChatInv, (\E intent \in Intents : SendMessage(intent)) \/ Abort
    PROVE ChatInv'
<1>0. /\ chatTurn \in [Sends -> Turn] /\ chatPage \in Shown /\ UNCHANGED <<chatThread, chatRows>>
      /\ chatSends \in Nat
  BY ChatParts DEF SendMessage, Abort
<1>1. OneIsOpen /\ \A q \in Sends : Doing(chatTurn[q], chatThread[q]) /\ RowsFit(q)
  BY DEF ChatInv
<1>2. CASE \E intent \in Intents : SendMessage(intent)
  <2>0. chatSends + 1 \in Sends
    BY <1>0, <1>2, ChatAssumption DEF SendMessage, Sends
  <2>9. PICK s \in Sends : s = chatSends + 1
    BY <2>0
  <2>1. /\ s \in Nat /\ chatSends' = s /\ chatPage'.status = "pending" /\ chatPage.status # "pending"
    <3>1. s \in Nat
      BY <1>0, <2>9
    <3>2. chatSends' = s /\ chatPage' = [status |-> "pending", shown |-> {}] /\ chatPage.status # "pending"
      BY <1>2, <2>9 DEF SendMessage
    <3> QED
      BY <3>1, <3>2
  <2>2. /\ chatTurn'[s].phase = "stream"
        /\ chatTurn'[s].full_text = chatTurn[s].full_text /\ chatTurn'[s].provider = chatTurn[s].provider
        /\ \A q \in Sends \ {s} : chatTurn'[q] = chatTurn[q]
    <3>0. PICK intent \in Intents : SendMessage(intent)
      BY <1>2
    <3>1. chatTurn' = [chatTurn EXCEPT ![s] =
                        [chatTurn[s] EXCEPT !.phase = "stream", !.intent = intent]]
      <4>1. chatTurn' = [chatTurn EXCEPT ![s].phase = "stream", ![s].intent = intent]
        BY <2>1, <3>0 DEF SendMessage
      <4> QED
        BY <1>0, <2>9, <4>1
    <3>2. chatTurn[s] \in Turn /\ chatTurn'[s] = [chatTurn[s] EXCEPT !.phase = "stream", !.intent = intent]
      BY <1>0, <3>1
    <3> QED
      BY <1>0, <3>1, <3>2 DEF Turn
  <2>3. s > chatSends /\ \A q \in Sends : q <= chatSends => q # s /\ q <= s
    BY <1>0, <2>9 DEF Sends
  <2>4. chatTurn[s].phase = "none"
    BY <1>1, <2>1, <2>3 DEF OneIsOpen
  <2>5. Doing(chatTurn[s], chatThread[s])' /\ RowsFit(s)'
    BY <1>0, <1>1, <2>1, <2>2, <2>4 DEF Doing, RowsFit
  <2>6. \A q \in Sends \ {s} : Doing(chatTurn[q], chatThread[q])' /\ RowsFit(q)'
    BY <1>0, <1>1, <2>1, <2>2, <2>3 DEF Doing, RowsFit
  <2>7. OneIsOpen'
    <3>1. \A q \in Sends : q > s => q # s /\ q > chatSends
      BY <1>0, <2>3 DEF Sends
    <3>2. \A q \in Sends : ~Open(q)
      BY <1>1, <2>1 DEF OneIsOpen
    <3> QED
      BY <1>1, <2>1, <2>2, <3>1, <3>2 DEF OneIsOpen, Open
  <2>8. PageIsRight'
    BY <2>1 DEF PageIsRight
  <2> QED
    BY <2>5, <2>6, <2>7, <2>8 DEF ChatInv
<1>3. CASE Abort
  <2>1. /\ chatSends' = chatSends /\ chatPage'.status = "aborted" /\ chatPage.status = "pending"
        /\ chatSends \in Sends => chatTurn'[chatSends].phase = "cancelled"
        /\ \A q \in Sends : /\ chatTurn'[q].full_text = chatTurn[q].full_text
                            /\ chatTurn'[q].provider = chatTurn[q].provider
                            /\ chatTurn'[q].intent = chatTurn[q].intent
        /\ \A q \in Sends \ {chatSends} : chatTurn'[q] = chatTurn[q]
    BY <1>0, <1>3 DEF Abort, Shown, Turn
  <2>2. \A q \in Sends : Doing(chatTurn[q], chatThread[q])' /\ RowsFit(q)'
    <3> SUFFICES ASSUME NEW q \in Sends PROVE Doing(chatTurn[q], chatThread[q])' /\ RowsFit(q)'
      OBVIOUS
    <3>1. CASE q = chatSends
      BY <1>0, <1>1, <2>1, <3>1 DEF Doing, RowsFit
    <3>2. CASE q # chatSends
      BY <1>0, <1>1, <2>1, <3>2, OtherMessage
    <3> QED
      BY <3>1, <3>2
  <2>3. OneIsOpen'
    BY <1>0, <1>1, <2>1 DEF OneIsOpen, Open, Sends
  <2>4. PageIsRight'
    BY <2>1 DEF PageIsRight
  <2> QED
    BY <2>2, <2>3, <2>4 DEF ChatInv
<1> QED
  BY <1>2, <1>3

LEMMA ChatKept == ChatTypeOK /\ ChatInv /\ [ChatNext]_chatVars => ChatInv'
<1> SUFFICES ASSUME ChatTypeOK, ChatInv, [ChatNext]_chatVars PROVE ChatInv'
  OBVIOUS
<1>1. CASE UNCHANGED chatVars
  BY <1>1 DEF chatVars, ChatInv, Doing, RowsFit, OneIsOpen, Open, PageIsRight
<1>2. CASE ChatNext
  BY <1>2, TalkKeeps, InsertKeeps, SubmitKeeps, FailureKeeps, PageKeeps DEF ChatNext
<1> QED
  BY <1>1, <1>2

LEMMA ChatAlways == ChatInit /\ [][ChatNext]_chatVars => []ChatKeepsItsWord
<1>1. ChatTypeOK /\ ChatInv => ChatKeepsItsWord
  <2> SUFFICES ASSUME ChatTypeOK, ChatInv PROVE ChatKeepsItsWord
    OBVIOUS
  <2>1. \A r \in chatRows : r.send \in Sends /\ RowsFit(r.send)
    BY ChatParts DEF ChatInv, ChatRow
  <2>2. OneTaskPerMessage
    BY <2>1 DEF OneTaskPerMessage, RowsFit
  <2>3. ASSUME NEW r \in chatRows PROVE Cardinality(r.text) <= 1
    <3>1. PICK p \in Providers : r.text \subseteq {p}
      BY <2>1 DEF RowsFit
    <3>2. r.text = {} \/ r.text = {p}
      BY <3>1
    <3>3. Cardinality({}) = 0 /\ Cardinality({p}) = 1
      BY FS_EmptySet, FS_Singleton
    <3> QED
      BY <3>2, <3>3
  <2> QED
    BY <2>2, <2>3 DEF ChatInv, ChatKeepsItsWord, AnswerOfOneProvider
<1> QED
  BY <1>1, ChatTypeStarts, ChatTypeKept, ChatStarts, ChatKept, PTL

\* Each message makes one task at most, none with a pipeline when it is an acknowledgement; a stored
\* answer is one provider's; and the page is told that a task was created, or was not, as it is.
THEOREM ChatCorrect == ChatSpec => []ChatKeepsItsWord
BY ChatAlways, PTL DEF ChatSpec
-----------------------------------------------------------------------------
(* The memory (AgentMemory).  A task that is done has been promoted in the tables as their        *)
(* writer sees them, and in the committed ones once its job is idle; and a usable memory of the   *)
(* committed tables is usable for whoever has flushed.                                             *)

\* What waits for a promotion of t is a day old.
PromotedIn(T, t) ==
    \A m \in MemIds : T.rows[m].kind = "success" /\ T.rows[m].task = t =>
                          T.rows[m].usable \/ T.rows[m].old

Usable(T) == {m \in MemIds : T.rows[m].kind = "success" /\ T.rows[m].usable}

\* The rows that have been entered in the index, the torn entries among them.
Entered(T) == T.fts \cup T.torn

SettledIn(T) == \A m \in Usable(T) : m \in Entered(T) /\ T.rows[m].resolution # "pending"

DoneTask(t) == memTask[t].status \in {"awaiting", "completed"}

MemInv ==
    /\ SettledIn(memDisk) /\ SettledIn(memSeen) /\ Usable(memDisk) \subseteq Usable(memSeen)
    /\ memWriter = NoTask => memSeen = memDisk
    /\ \A t \in MemTasks :
          /\ DoneTask(t) /\ memTask[t].phase = "idle" =>
                 PromotedIn(memDisk, t) /\ PromotedIn(memSeen, t)
          /\ DoneTask(t) /\ memTask[t].phase = "events" =>
                 memWriter = t /\ PromotedIn(memSeen, t)
          /\ memTask[t].phase \in {"works", "judges", "found"} => memTask[t].status = "running"

\* A job that moves on keeps the type of the tasks.
LEMMA JobAtType ==
    ASSUME MemTypeOK, NEW t \in MemTasks, NEW s \in {"running", "awaiting", "completed", "failed"},
           NEW p \in {"works", "judges", "found", "hook", "events", "idle", "dead"},
           memTask' = [memTask EXCEPT ![t] = JobIn(s, p)]
    PROVE  memTask' \in [MemTasks -> MemTask]
<1>1. JobIn(s, p) \in MemTask
  BY DEF JobIn, MemTask
<1> QED
  BY <1>1 DEF MemTypeOK

LEMMA StatusIs == MemTypeOK => \A t \in MemTasks :
    /\ memTask[t] \in MemTask
    /\ memTask[t].status \in {"running", "awaiting", "completed", "failed"}
    /\ memTask[t].about \in Mishaps \cup {NoMishap}
    /\ memTask[t].resolution \in {"pending", "diagnosed"}
    /\ memTask[t].similar \in SUBSET MemIds
BY DEF MemTypeOK, MemTask

\* A table with one more row, and one with each row rewritten, are tables.
LEMMA RowAdded ==
    ASSUME NEW T \in MemTables, NEW m \in MemIds, NEW r \in MemRow
    PROVE  /\ MemInsert(T, m, r) \in MemTables
           /\ MemInsert(T, m, r).rows = [T.rows EXCEPT ![m] = r]
           /\ Entered(MemInsert(T, m, r)) = Entered(T)
BY DEF MemInsert, MemTables, Entered

\* Entering rows in the index changes no row, and forgets none that was entered.
LEMMA IndexedTable ==
    ASSUME NEW T \in MemTables, NEW ms \in SUBSET MemIds, NEW torn \in SUBSET ms
    PROVE  /\ UpsertFts(T, ms, torn) \in MemTables
           /\ UpsertFts(T, ms, torn).rows = T.rows
           /\ Entered(UpsertFts(T, ms, torn)) = Entered(T) \cup ms
<1>1. /\ UpsertFts(T, ms, torn).rows = T.rows
      /\ UpsertFts(T, ms, torn).fts = (T.fts \cup ms) \ torn
      /\ UpsertFts(T, ms, torn).torn = (T.torn \ ms) \cup torn
  BY DEF UpsertFts, MemTables
<1>2. UpsertFts(T, ms, torn) \in MemTables
  BY <1>1 DEF UpsertFts, MemTables
<1> QED
  BY <1>1, <1>2 DEF Entered

\* What the session of t writes over a table T: the memories in use stay, and so do those of others.
Fits(T, U, t) ==
    /\ U \in MemTables
    /\ Usable(T) \subseteq Usable(U)
    /\ SettledIn(T) => SettledIn(U)
    /\ \A u \in MemTasks \ {t} : PromotedIn(T, u) => PromotedIn(U, u)

\* A row that replaces none.
LEMMA NewFits ==
    ASSUME NEW T \in MemTables, NEW m \in Unused(T), NEW t \in MemTasks, NEW r \in MemRow,
           r.task = t, r.kind = "success" => ~r.usable,
           NEW U \in MemTables, U.rows = [T.rows EXCEPT ![m] = r], Entered(T) \subseteq Entered(U)
    PROVE  Fits(T, U, t)
<1>1. m \in MemIds /\ T.rows[m].kind = "none" /\ T.rows \in [MemIds -> MemRow]
  <2>1. m \in MemIds /\ m <= m
    BY MemAssumption DEF Unused
  <2> QED
    BY <2>1 DEF Unused, MemTables
<1>2. Usable(U) = Usable(T)
  BY <1>1 DEF Usable
<1>3. SettledIn(T) => SettledIn(U)
  BY <1>1, <1>2 DEF SettledIn, Usable
<1>4. \A u \in MemTasks \ {t} : PromotedIn(T, u) => PromotedIn(U, u)
  BY <1>1 DEF PromotedIn
<1> QED
  BY <1>2, <1>3, <1>4 DEF Fits

LEMMA SameFits ==
    ASSUME NEW T \in MemTables, NEW t \in MemTasks
    PROVE  Fits(T, T, t)
BY DEF Fits

\* Whatever is entered in the index on top of a write.
LEMMA IndexedFits ==
    ASSUME NEW T \in MemTables, NEW t \in MemTasks, NEW U, Fits(T, U, t),
           NEW ms \in SUBSET MemIds, NEW torn \in SUBSET ms
    PROVE  Fits(T, UpsertFts(U, ms, torn), t)
<1> DEFINE V == UpsertFts(U, ms, torn)
<1>1. U \in MemTables
  BY DEF Fits
<1>2. V \in MemTables /\ V.rows = U.rows /\ Entered(U) \subseteq Entered(V)
  <2>1. V \in MemTables /\ V.rows = U.rows /\ Entered(V) = Entered(U) \cup ms
    BY ONLY <1>1, IndexedTable, ms \in SUBSET MemIds, torn \in SUBSET ms
  <2> QED
    BY <2>1
<1> HIDE DEF V
<1>3. /\ Usable(V) = Usable(U) /\ (SettledIn(U) => SettledIn(V))
      /\ \A u \in MemTasks : PromotedIn(U, u) => PromotedIn(V, u)
  BY <1>2 DEF Usable, SettledIn, PromotedIn
<1>4. Fits(T, V, t)
  BY <1>2, <1>3 DEF Fits
<1> QED
  BY <1>4 DEF V

\* A table each row of which is rewritten.
LEMMA RowsRewritten ==
    ASSUME NEW T \in MemTables, NEW t \in MemTasks, NEW U \in MemTables,
           Entered(T) \subseteq Entered(U),
           \A m \in MemIds :
               /\ U.rows[m].kind = T.rows[m].kind /\ U.rows[m].task = T.rows[m].task
               /\ T.rows[m].usable => U.rows[m].usable
               /\ T.rows[m].old => U.rows[m].old
               /\ T.rows[m].resolution # "pending" => U.rows[m].resolution # "pending"
               /\ U.rows[m].usable /\ ~T.rows[m].usable =>
                      m \in Entered(U) /\ U.rows[m].resolution # "pending"
    PROVE  Fits(T, U, t) /\ \A u \in MemTasks : PromotedIn(T, u) => PromotedIn(U, u)
<1>1. Usable(T) \subseteq Usable(U)
  BY DEF Usable
<1>2. SettledIn(T) => SettledIn(U)
  BY DEF SettledIn, Usable
<1>3. \A u \in MemTasks : PromotedIn(T, u) => PromotedIn(U, u)
  BY DEF PromotedIn
<1> QED
  BY <1>1, <1>2, <1>3 DEF Fits

\* The resolution a merge gives a near duplicate.
LEMMA MergeFits ==
    ASSUME NEW T \in MemTables, NEW t \in MemTasks, NEW r \in {"pending", "diagnosed"},
           r # "pending", NEW S \in SUBSET MemIds,
           NEW U, U = [T EXCEPT !.rows = [m \in MemIds |->
                                 IF m \in S THEN [@[m] EXCEPT !.resolution = r] ELSE @[m]]]
    PROVE  Fits(T, U, t)
<1>1. \A m \in MemIds : T.rows[m] \in MemRow /\ [T.rows[m] EXCEPT !.resolution = r] \in MemRow
  BY DEF MemTables, MemRow
<1>2. U.fts = T.fts /\ U.torn = T.torn /\ T.fts \in SUBSET MemIds /\ T.torn \in SUBSET MemIds
      /\ U.rows = [m \in MemIds |-> IF m \in S THEN [T.rows[m] EXCEPT !.resolution = r]
                                    ELSE T.rows[m]]
  BY DEF MemTables
<1>3. U.rows \in [MemIds -> MemRow]
  BY <1>1, <1>2
<1>4. U \in MemTables
  BY <1>2, <1>3 DEF MemTables
<1>5. \A m \in MemIds :
        /\ U.rows[m].kind = T.rows[m].kind /\ U.rows[m].task = T.rows[m].task
        /\ U.rows[m].usable = T.rows[m].usable /\ U.rows[m].old = T.rows[m].old
        /\ T.rows[m].resolution # "pending" => U.rows[m].resolution # "pending"
  BY <1>1, <1>2 DEF MemRow
<1>6. \A m \in MemIds : ~(U.rows[m].usable /\ ~T.rows[m].usable)
  BY <1>5
<1>7. \A m \in MemIds :
        /\ T.rows[m].usable => U.rows[m].usable
        /\ T.rows[m].old => U.rows[m].old
  BY <1>5
<1>8. Entered(T) \subseteq Entered(U)
  BY <1>2 DEF Entered
<1> HIDE DEF Fits
<1> QED
  BY <1>4, <1>5, <1>6, <1>7, <1>8, RowsRewritten

\* The promotion of a task in progress or done, which leaves none of its memories pending.
LEMMA PromoteFits ==
    ASSUME NEW T \in MemTables, NEW t \in MemTasks, NEW torn \in SUBSET Promotable(T, t),
           NEW U, U = UpsertFts(Promoted(T, t), Promotable(T, t), torn)
    PROVE  Fits(T, U, t) /\ PromotedIn(U, t)
<1> DEFINE P == Promoted(T, t)
<1>0. Outcome(t) \in {"blocked", "completed"}
  BY DEF Outcome
<1> DEFINE res(m) == IF T.rows[m].resolution = "pending" THEN Outcome(t)
                                                          ELSE T.rows[m].resolution
<1>1. \A m \in MemIds :
        /\ T.rows[m] \in MemRow /\ res(m) \in {"diagnosed", "blocked", "completed"}
        /\ T.rows[m].resolution # "pending" => res(m) = T.rows[m].resolution
  BY <1>0 DEF MemTables, MemRow
<1>2. /\ P.fts = T.fts /\ P.torn = T.torn /\ T.fts \in SUBSET MemIds /\ T.torn \in SUBSET MemIds
      /\ P.rows = [m \in MemIds |->
                     IF m \in Promotable(T, t)
                     THEN [T.rows[m] EXCEPT !.usable = TRUE, !.resolution = res(m)]
                     ELSE T.rows[m]]
  <2>1. T = [rows |-> T.rows, fts |-> T.fts, torn |-> T.torn] /\ T.rows \in [MemIds -> MemRow]
        /\ T.fts \in SUBSET MemIds /\ T.torn \in SUBSET MemIds
    BY DEF MemTables
  <2>2. P.fts = T.fts /\ P.torn = T.torn
    BY <2>1 DEF Promoted
  <2>3. P.rows = [m \in MemIds |->
                     IF m \in Promotable(T, t)
                     THEN [T.rows[m] EXCEPT !.usable = TRUE, !.resolution = res(m)]
                     ELSE T.rows[m]]
    <3>1. P.rows = [m \in MemIds |->
                     IF m \in Promotable(T, t)
                     THEN [T.rows[m] EXCEPT !.usable = TRUE,
                                            !.resolution = IF @ = "pending" THEN Outcome(t) ELSE @]
                     ELSE T.rows[m]]
      BY <2>1 DEF Promoted
    <3>2. ASSUME NEW m \in MemIds
          PROVE  [T.rows[m] EXCEPT !.usable = TRUE,
                                   !.resolution = IF @ = "pending" THEN Outcome(t) ELSE @]
                     = [T.rows[m] EXCEPT !.usable = TRUE, !.resolution = res(m)]
      <4> DEFINE same == IF T.rows[m].resolution = "pending" THEN Outcome(t)
                                                              ELSE T.rows[m].resolution
      <4>1. T.rows[m] \in MemRow /\ same = res(m)
        BY <2>1
      <4> HIDE DEF res
      <4>2. [T.rows[m] EXCEPT !.usable = TRUE,
                              !.resolution = IF @ = "pending" THEN Outcome(t) ELSE @]
                = [T.rows[m] EXCEPT !.usable = TRUE, !.resolution = same]
        BY <4>1 DEF MemRow
      <4> QED
        BY <4>1, <4>2
    <3> HIDE DEF res
    <3> QED
      BY <3>1, <3>2
  <2> QED
    BY <2>1, <2>2, <2>3
<1> HIDE DEF res
<1>3. \A m \in MemIds :
        [T.rows[m] EXCEPT !.usable = TRUE, !.resolution = res(m)] \in MemRow
  BY <1>1 DEF MemRow
<1>4. P.rows \in [MemIds -> MemRow]
  BY <1>1, <1>2, <1>3
<1>5. P \in MemTables
  BY <1>2, <1>4 DEF MemTables, Promoted
<1>50. /\ U \in MemTables /\ Entered(U) = Entered(P) \cup Promotable(T, t)
       /\ U.rows = [m \in MemIds |->
                      IF m \in Promotable(T, t)
                      THEN [T.rows[m] EXCEPT !.usable = TRUE, !.resolution = res(m)]
                      ELSE T.rows[m]]
  <2>1. Promotable(T, t) \in SUBSET MemIds
    BY DEF Promotable
  <2> QED
    BY <1>2, <1>5, <2>1, IndexedTable
<1>51. Entered(T) \subseteq Entered(U) /\ Promotable(T, t) \subseteq Entered(U)
  BY <1>2, <1>50 DEF Entered
<1> HIDE DEF P
<1>6. \A m \in MemIds : m \in Promotable(T, t) =>
        /\ U.rows[m].kind = T.rows[m].kind /\ U.rows[m].task = T.rows[m].task
        /\ U.rows[m].old = T.rows[m].old /\ U.rows[m].usable /\ m \in Entered(U)
        /\ U.rows[m].resolution = res(m)
  <2> SUFFICES ASSUME NEW m \in MemIds, m \in Promotable(T, t)
               PROVE  /\ U.rows[m].kind = T.rows[m].kind /\ U.rows[m].task = T.rows[m].task
                      /\ U.rows[m].old = T.rows[m].old /\ U.rows[m].usable /\ m \in Entered(U)
                      /\ U.rows[m].resolution = res(m)
    OBVIOUS
  <2>1. U.rows[m] = [T.rows[m] EXCEPT !.usable = TRUE, !.resolution = res(m)] /\ m \in Entered(U)
    BY <1>50, <1>51
  <2>2. T.rows[m] \in MemRow
    BY <1>1
  <2> QED
    BY <2>1, <2>2 DEF MemRow
<1>7. \A m \in MemIds \ Promotable(T, t) : U.rows[m] = T.rows[m]
  BY <1>50
<1>8. /\ Entered(T) \subseteq Entered(U)
      /\ \A m \in MemIds :
            /\ U.rows[m].kind = T.rows[m].kind /\ U.rows[m].task = T.rows[m].task
            /\ T.rows[m].usable => U.rows[m].usable
            /\ T.rows[m].old => U.rows[m].old
            /\ T.rows[m].resolution # "pending" => U.rows[m].resolution # "pending"
            /\ U.rows[m].usable /\ ~T.rows[m].usable =>
                   m \in Entered(U) /\ U.rows[m].resolution # "pending"
  BY <1>1, <1>6, <1>7, <1>51
<1>9. PromotedIn(U, t)
  BY <1>6, <1>7 DEF PromotedIn, Promotable
<1>10. Fits(T, U, t)
  BY <1>8, <1>50, RowsRewritten
<1> QED
  BY <1>9, <1>10

\* Whoever may write sees tables that hold what is in use, and what was promoted of other tasks.
LEMMA ViewIsSound ==
    ASSUME MemTypeOK, MemInv, NEW t \in MemTasks, MayWrite(t)
    PROVE  /\ MemView(t) \in MemTables /\ MemView(t) = memSeen
           /\ memWriter \in {NoTask, t}
BY DEF MemTypeOK, MemInv, MayWrite, MemView

\* The job of t as a step leaves it.
Becomes(t, k) ==
    /\ k \in MemTask
    /\ memTask' = [memTask EXCEPT ![t] = k]
    /\ k.phase \in {"works", "judges", "found"} => k.status = "running"

LEMMA FlushKeeps ==
    ASSUME MemTypeOK, MemInv, NEW t \in MemTasks, MayWrite(t), NEW U, Fits(MemView(t), U, t),
           MemFlush(t, U), NEW k, Becomes(t, k), memDeaths' = memDeaths,
           k.phase # "idle",
           k.status \in {"awaiting", "completed"} /\ k.phase = "events" => PromotedIn(U, t)
    PROVE  MemTypeOK' /\ MemInv'
<1>1. U \in MemTables /\ memSeen' = U /\ memDisk' = memDisk /\ memWriter' = t /\ t # NoTask
  BY MemAssumption DEF Fits, MemFlush
<1>2. memTask' \in [MemTasks -> MemTask] /\ memTask'[t] = k
      /\ \A u \in MemTasks \ {t} : memTask'[u] = memTask[u]
  BY DEF Becomes, MemTypeOK
<1>3. MemTypeOK'
  BY <1>1, <1>2 DEF MemTypeOK
<1>4. /\ Usable(memSeen) \subseteq Usable(U) /\ SettledIn(U)
      /\ \A u \in MemTasks \ {t} : PromotedIn(memSeen, u) => PromotedIn(U, u)
  BY ViewIsSound DEF Fits, MemInv
<1>5. SettledIn(memDisk') /\ SettledIn(memSeen') /\ Usable(memDisk') \subseteq Usable(memSeen')
  BY <1>1, <1>4 DEF MemInv
<1>6. ASSUME NEW u \in MemTasks
      PROVE  /\ DoneTask(u)' /\ memTask'[u].phase = "idle" =>
                    PromotedIn(memDisk', u) /\ PromotedIn(memSeen', u)
             /\ DoneTask(u)' /\ memTask'[u].phase = "events" =>
                    memWriter' = u /\ PromotedIn(memSeen', u)
             /\ memTask'[u].phase \in {"works", "judges", "found"} =>
                    memTask'[u].status = "running"
  <2>1. CASE u = t
    BY <1>1, <1>2, <2>1 DEF DoneTask, Becomes
  <2>2. CASE u # t
    <3>1. ~(DoneTask(u) /\ memTask[u].phase = "events")
      BY <2>2, ViewIsSound, MemAssumption DEF MemInv
    <3> QED
      BY <1>1, <1>2, <1>4, <2>2, <3>1 DEF MemInv, DoneTask
  <2> QED
    BY <2>1, <2>2
<1> QED
  BY <1>1, <1>3, <1>5, <1>6 DEF MemInv, DoneTask

LEMMA CommitKeeps ==
    ASSUME MemTypeOK, MemInv, NEW t \in MemTasks, MemCommit(t), NEW k, Becomes(t, k),
           memDeaths' = memDeaths,
           k.status \in {"awaiting", "completed"} =>
               k.phase # "events" /\ (k.phase = "idle" => PromotedIn(memSeen, t))
    PROVE  /\ MemTypeOK' /\ MemInv' /\ Usable(memDisk) \subseteq Usable(memDisk')
<1>1. /\ memSeen' = memSeen /\ memDisk' = memSeen /\ memWriter' = NoTask /\ memSeen \in MemTables
      /\ memWriter \in {NoTask, t}
  BY ViewIsSound DEF MemCommit
<1>2. memTask' \in [MemTasks -> MemTask] /\ memTask'[t] = k
      /\ \A u \in MemTasks \ {t} : memTask'[u] = memTask[u]
  BY DEF Becomes, MemTypeOK
<1>3. MemTypeOK'
  BY <1>1, <1>2 DEF MemTypeOK
<1>4. /\ SettledIn(memDisk') /\ SettledIn(memSeen') /\ Usable(memDisk') \subseteq Usable(memSeen')
      /\ Usable(memDisk) \subseteq Usable(memDisk')
  BY <1>1 DEF MemInv
<1>5. ASSUME NEW u \in MemTasks
      PROVE  /\ DoneTask(u)' /\ memTask'[u].phase = "idle" =>
                    PromotedIn(memDisk', u) /\ PromotedIn(memSeen', u)
             /\ DoneTask(u)' /\ memTask'[u].phase = "events" =>
                    memWriter' = u /\ PromotedIn(memSeen', u)
             /\ memTask'[u].phase \in {"works", "judges", "found"} =>
                    memTask'[u].status = "running"
  <2>1. CASE u = t
    BY <1>1, <1>2, <2>1 DEF DoneTask, Becomes
  <2>2. CASE u # t
    <3>1. ~(DoneTask(u) /\ memTask[u].phase = "events")
      BY <1>1, <2>2, MemAssumption DEF MemInv
    <3> QED
      BY <1>1, <1>2, <2>2, <3>1 DEF MemInv, DoneTask
  <2> QED
    BY <2>1, <2>2
<1> QED
  BY <1>1, <1>3, <1>4, <1>5 DEF MemInv, DoneTask

\* A step that writes nothing.
LEMMA NoWriteKeeps ==
    ASSUME MemTypeOK, MemInv, NEW t \in MemTasks, MemKept, NEW k, Becomes(t, k),
           memDeaths' = memDeaths, k.status \in {"awaiting", "completed"} =>
                                       k.phase \notin {"idle", "events"}
    PROVE  MemTypeOK' /\ MemInv' /\ memDisk' = memDisk
<1>1. memTask' \in [MemTasks -> MemTask] /\ memTask'[t] = k
      /\ \A u \in MemTasks \ {t} : memTask'[u] = memTask[u]
  BY DEF Becomes, MemTypeOK
<1>2. MemTypeOK'
  BY <1>1 DEF MemTypeOK, MemKept
<1>3. ASSUME NEW u \in MemTasks
      PROVE  /\ DoneTask(u)' /\ memTask'[u].phase = "idle" =>
                    PromotedIn(memDisk', u) /\ PromotedIn(memSeen', u)
             /\ DoneTask(u)' /\ memTask'[u].phase = "events" =>
                    memWriter' = u /\ PromotedIn(memSeen', u)
             /\ memTask'[u].phase \in {"works", "judges", "found"} =>
                    memTask'[u].status = "running"
  BY <1>1 DEF MemInv, MemKept, DoneTask, Becomes
<1> QED
  BY <1>2, <1>3 DEF MemInv, MemKept, DoneTask

\* What a job is, with a status that stays and a phase that is not busy.
LEMMA JobBecomes ==
    ASSUME MemTypeOK, NEW t \in MemTasks, NEW s \in {"running", "awaiting", "completed", "failed"},
           NEW p \in {"works", "judges", "found", "hook", "events", "idle", "dead"},
           memTask' = [memTask EXCEPT ![t] = JobIn(s, p)],
           s = "running" \/ p \in {"hook", "events", "idle", "dead"}
    PROVE  /\ Becomes(t, JobIn(s, p)) /\ JobIn(s, p).status = s /\ JobIn(s, p).phase = p
BY DEF JobIn, MemTask, Becomes

LEMMA DeathKeeps ==
    ASSUME MemTypeOK, MemInv, NEW t \in MemTasks, JobDies(t)
    PROVE  MemTypeOK' /\ MemInv' /\ memDisk' = memDisk
<1>1. memTask' = [memTask EXCEPT ![t] = JobIn(memTask[t].status, "dead")]
  BY DEF JobDies, JobAt, MemTypeOK
<1>2. /\ Becomes(t, JobIn(memTask[t].status, "dead"))
      /\ JobIn(memTask[t].status, "dead").phase = "dead"
  <2>1. memTask[t].status \in {"running", "awaiting", "completed", "failed"}
    BY StatusIs
  <2> QED
    BY <1>1, <2>1 DEF JobIn, MemTask, Becomes
<1>3. memTask' \in [MemTasks -> MemTask] /\ memTask'[t].phase = "dead"
      /\ \A u \in MemTasks \ {t} : memTask'[u] = memTask[u]
  BY <1>2 DEF Becomes, MemTypeOK
<1>4. /\ memDisk' = memDisk
      /\ \/ memWriter = t /\ memSeen' = memDisk /\ memWriter' = NoTask
         \/ memWriter # t /\ memSeen' = memSeen /\ memWriter' = memWriter
  BY DEF JobDies, MemKept
<1>5. MemTypeOK'
  BY <1>3, <1>4, MemAssumption DEF MemTypeOK, JobDies
<1>6. ASSUME NEW u \in MemTasks
      PROVE  /\ DoneTask(u)' /\ memTask'[u].phase = "idle" =>
                    PromotedIn(memDisk', u) /\ PromotedIn(memSeen', u)
             /\ DoneTask(u)' /\ memTask'[u].phase = "events" =>
                    memWriter' = u /\ PromotedIn(memSeen', u)
             /\ memTask'[u].phase \in {"works", "judges", "found"} =>
                    memTask'[u].status = "running"
  BY <1>3, <1>4 DEF MemInv, DoneTask
<1>7. SettledIn(memDisk') /\ SettledIn(memSeen') /\ Usable(memDisk') \subseteq Usable(memSeen')
      /\ (memWriter' = NoTask => memSeen' = memDisk')
  BY <1>4 DEF MemInv
<1> QED
  BY <1>4, <1>5, <1>6, <1>7 DEF MemInv, DoneTask

LEMMA DayKeeps ==
    ASSUME MemTypeOK, MemInv, DayPasses
    PROVE  MemTypeOK' /\ MemInv' /\ Usable(memDisk) \subseteq Usable(memDisk')
<1> DEFINE gone(m) == memDisk.rows[m] # NoRow
           U == [memDisk EXCEPT !.rows = [m \in MemIds |-> [@[m] EXCEPT !.old = gone(m)]]]
<1>1. memDisk' = U /\ memSeen' = U /\ memTask' = memTask /\ memWriter' = NoTask
      /\ memWriter = NoTask /\ memDeaths' = memDeaths
  BY DEF DayPasses
<1>2. \A m \in MemIds : memDisk.rows[m] \in MemRow /\ gone(m) \in BOOLEAN
                        /\ (memDisk.rows[m].kind = "success" => gone(m))
  BY DEF MemTypeOK, MemTables, NoRow
<1>3. U.fts = memDisk.fts /\ U.fts \in SUBSET MemIds /\ U.torn = memDisk.torn
      /\ U.torn \in SUBSET MemIds
      /\ U.rows = [m \in MemIds |-> [memDisk.rows[m] EXCEPT !.old = gone(m)]]
  BY DEF MemTypeOK, MemTables
<1>4. U \in MemTables
  <2> HIDE DEF gone
  <2>1. \A m \in MemIds : [memDisk.rows[m] EXCEPT !.old = gone(m)] \in MemRow
    BY <1>2 DEF MemRow
  <2>2. U.rows \in [MemIds -> MemRow]
    BY <1>3, <2>1
  <2> QED
    BY <1>3, <2>2 DEF MemTypeOK, MemTables
<1> HIDE DEF U
<1>5. \A m \in MemIds :
        /\ U.rows[m].kind = memDisk.rows[m].kind /\ U.rows[m].task = memDisk.rows[m].task
        /\ U.rows[m].usable = memDisk.rows[m].usable
        /\ U.rows[m].resolution = memDisk.rows[m].resolution
        /\ U.rows[m].kind = "success" => U.rows[m].old
  <2> HIDE DEF gone
  <2> QED
    BY <1>2, <1>3 DEF MemRow
<1>6. Usable(U) = Usable(memDisk) /\ SettledIn(U) /\ \A u \in MemTasks : PromotedIn(U, u)
  BY <1>3, <1>5 DEF Usable, SettledIn, PromotedIn, MemInv, Entered
<1>7. MemTypeOK'
  BY <1>1, <1>4, MemAssumption DEF MemTypeOK
<1>8. ASSUME NEW u \in MemTasks
      PROVE  ~(DoneTask(u) /\ memTask[u].phase = "events")
  BY <1>1, MemAssumption DEF MemInv
<1> QED
  BY <1>1, <1>6, <1>7, <1>8 DEF MemInv, DoneTask

MemStep(t) ==
    \/ \E f \in Mishaps, r \in {"pending", "diagnosed"} : GateFailed(t, f, r)
    \/ NotStored(t)
    \/ \E m \in MemIds : StoreNew(t, m) \/ FindSimilar(t, m) \/ WriteFailure(t, m)
    \/ \E s \in {"awaiting", "completed", "failed"} : ReachStatus(t, s)
    \/ MergeMemory(t) \/ Promote(t) \/ FinishTask(t) \/ JobDies(t)
    \/ \E grants \in BOOLEAN : Decide(t, grants)

LEMMA MemStepKeeps ==
    ASSUME MemTypeOK, MemInv, NEW t \in MemTasks, MemStep(t)
    PROVE  MemTypeOK' /\ MemInv' /\ Usable(memDisk) \subseteq Usable(memDisk')
<1> DEFINE s == memTask[t].status
<1>0. /\ s \in {"running", "awaiting", "completed", "failed"}
      /\ memTask[t] \in MemTask
      /\ memTask[t].phase \in {"works", "judges", "found"} => s = "running"
  BY StatusIs DEF MemInv
<1> HIDE DEF s
<1>00. \A p : JobAt(t, p) => memTask' = [memTask EXCEPT ![t] = JobIn(s, p)]
  BY DEF JobAt, s, MemTypeOK
<1>1. ASSUME NEW f \in Mishaps, NEW r \in {"pending", "diagnosed"}, GateFailed(t, f, r)
      PROVE  MemTypeOK' /\ MemInv' /\ Usable(memDisk) \subseteq Usable(memDisk')
  <2> DEFINE k == [memTask[t] EXCEPT !.phase = "judges", !.about = f, !.resolution = r]
  <2>1. memTask' = [memTask EXCEPT ![t] = k] /\ MemCommit(t) /\ memDeaths' = memDeaths
    BY <1>1 DEF GateFailed, MemTypeOK
  <2>2. k \in MemTask /\ k.phase = "judges" /\ k.status = "running"
    BY <1>0, <1>1 DEF MemTask, GateFailed, s
  <2> HIDE DEF k
  <2>3. Becomes(t, k)
    BY <2>1, <2>2 DEF Becomes
  <2> QED
    BY <2>1, <2>2, <2>3, CommitKeeps
<1>2. CASE NotStored(t)
  <2>1. s = "running" /\ memTask' = [memTask EXCEPT ![t] = JobIn(s, "works")] /\ MemKept
        /\ memDeaths' = memDeaths
    BY <1>0, <1>00, <1>2 DEF NotStored
  <2>2. Becomes(t, JobIn(s, "works")) /\ JobIn(s, "works").status = s
    BY <2>1, JobBecomes
  <2> QED
    BY <2>1, <2>2, NoWriteKeeps
<1>3. ASSUME NEW m \in MemIds, StoreNew(t, m)
      PROVE  MemTypeOK' /\ MemInv' /\ Usable(memDisk) \subseteq Usable(memDisk')
  <2> DEFINE T == MemView(t)
             r == Observed(t, "success")
             V == MemInsert(T, m, r)
  <2>1. /\ s = "running" /\ memTask' = [memTask EXCEPT ![t] = JobIn(s, "works")]
        /\ MayWrite(t) /\ m \in Unused(T) /\ memDeaths' = memDeaths
    BY <1>0, <1>00, <1>3 DEF StoreNew
  <2>2. T \in MemTables
    BY <2>1, ViewIsSound
  <2>3. r \in MemRow /\ r.task = t /\ ~r.usable
    BY StatusIs DEF Observed, MemRow
  <2>4. PICK torn \in SUBSET {m} : MemFlush(t, UpsertFts(V, {m}, torn))
    BY <1>3 DEF StoreNew
  <2> DEFINE U == UpsertFts(V, {m}, torn)
  <2>5. MemFlush(t, U)
    BY <2>4
  <2> HIDE DEF r
  <2>6. V \in MemTables /\ V.rows = [T.rows EXCEPT ![m] = r] /\ Entered(V) = Entered(T)
    BY <2>2, <2>3, RowAdded
  <2> HIDE DEF V, T
  <2>60. Fits(T, V, t)
    BY <2>1, <2>2, <2>3, <2>6, NewFits
  <2>7. Fits(T, U, t)
    BY <2>2, <2>60, IndexedFits
  <2> HIDE DEF U
  <2>8. Becomes(t, JobIn(s, "works")) /\ JobIn(s, "works").status = s
        /\ JobIn(s, "works").phase = "works"
    BY <2>1, JobBecomes
  <2>9. MemTypeOK' /\ MemInv'
    BY <2>1, <2>5, <2>7, <2>8, FlushKeeps DEF T
  <2> QED
    BY <2>5, <2>9 DEF MemFlush
<1>4. ASSUME NEW m \in MemIds, FindSimilar(t, m)
      PROVE  MemTypeOK' /\ MemInv' /\ Usable(memDisk) \subseteq Usable(memDisk')
  <2> DEFINE saw == MemView(t).rows[m].resolution = "pending"
             k == [memTask[t] EXCEPT !.phase = "found", !.similar = {m}, !.saw = saw]
  <2>1. memTask' = [memTask EXCEPT ![t] = k] /\ MemKept /\ memDeaths' = memDeaths
    BY <1>4 DEF FindSimilar, MemTypeOK
  <2>2. saw \in BOOLEAN
    OBVIOUS
  <2> HIDE DEF saw
  <2>3. k \in MemTask /\ k.phase = "found" /\ k.status = "running"
    BY <1>0, <1>4, <2>2 DEF MemTask, FindSimilar, s
  <2> HIDE DEF k
  <2>4. Becomes(t, k)
    BY <2>1, <2>3 DEF Becomes
  <2> QED
    BY <2>1, <2>3, <2>4, NoWriteKeeps
<1>5. CASE MergeMemory(t)
  <2> DEFINE T == MemView(t)
             k == memTask[t]
             V == Merged(T, k)
  <2>1. /\ s = "running" /\ memTask' = [memTask EXCEPT ![t] = JobIn(s, "works")]
        /\ MayWrite(t) /\ memDeaths' = memDeaths
    BY <1>0, <1>00, <1>5 DEF MergeMemory
  <2>2. T \in MemTables /\ k.similar \in SUBSET MemIds /\ k.resolution \in {"pending", "diagnosed"}
    BY <2>1, ViewIsSound, StatusIs
  <2>20. PICK torn \in SUBSET k.similar : MemFlush(t, UpsertFts(V, k.similar, torn))
    BY <1>5 DEF MergeMemory
  <2> DEFINE U == UpsertFts(V, k.similar, torn)
  <2>21. MemFlush(t, U)
    BY <2>20
  <2> HIDE DEF T, k
  <2>22. Fits(T, V, t)
    <3>1. CASE ~(k.saw /\ k.resolution # "pending")
      BY <2>2, <3>1, SameFits DEF Merged
    <3>2. CASE k.saw /\ k.resolution # "pending"
      <4>1. V = [T EXCEPT !.rows = [m \in MemIds |-> IF m \in k.similar
                                                     THEN [@[m] EXCEPT !.resolution = k.resolution]
                                                     ELSE @[m]]]
        BY <3>2 DEF Merged
      <4> HIDE DEF V
      <4> QED
        BY <2>2, <3>2, <4>1, MergeFits
    <3> QED
      BY <3>1, <3>2
  <2> HIDE DEF V
  <2>3. Fits(T, U, t)
    BY <2>2, <2>22, IndexedFits
  <2> HIDE DEF U
  <2>4. Becomes(t, JobIn(s, "works")) /\ JobIn(s, "works").status = s
        /\ JobIn(s, "works").phase = "works"
    BY <2>1, JobBecomes
  <2>5. MemTypeOK' /\ MemInv'
    BY <2>1, <2>21, <2>3, <2>4, FlushKeeps DEF T
  <2> QED
    BY <2>21, <2>5 DEF MemFlush
<1>6. ASSUME NEW z \in {"awaiting", "completed", "failed"}, ReachStatus(t, z)
      PROVE  MemTypeOK' /\ MemInv' /\ Usable(memDisk) \subseteq Usable(memDisk')
  <2> DEFINE p == IF z = "failed" THEN "events" ELSE "hook"
  <2>1. /\ memTask' = [memTask EXCEPT ![t] = JobIn(z, p)] /\ MemCommit(t)
        /\ memDeaths' = memDeaths
    BY <1>6 DEF ReachStatus
  <2>2. Becomes(t, JobIn(z, p)) /\ JobIn(z, p).status = z /\ JobIn(z, p).phase = p
    BY <2>1 DEF JobIn, MemTask, Becomes
  <2> QED
    BY <2>1, <2>2, CommitKeeps
<1>7. CASE Promote(t)
  <2> DEFINE T == MemView(t)
  <2>1. /\ memTask' = [memTask EXCEPT ![t] = JobIn(s, "events")]
        /\ MayWrite(t) /\ memDeaths' = memDeaths
    BY <1>00, <1>7 DEF Promote
  <2>2. T \in MemTables
    BY <2>1, ViewIsSound
  <2>20. PICK torn \in SUBSET Promotable(T, t) :
             MemFlush(t, UpsertFts(Promoted(T, t), Promotable(T, t), torn))
    BY <1>7 DEF Promote
  <2> DEFINE U == UpsertFts(Promoted(T, t), Promotable(T, t), torn)
  <2>21. MemFlush(t, U)
    BY <2>20
  <2> HIDE DEF T
  <2>3. Fits(T, U, t) /\ PromotedIn(U, t)
    BY <2>2, PromoteFits
  <2> HIDE DEF U
  <2>4. Becomes(t, JobIn(s, "events")) /\ JobIn(s, "events").phase = "events"
    BY <1>0, <2>1 DEF JobIn, MemTask, Becomes
  <2>5. MemTypeOK' /\ MemInv'
    BY <2>1, <2>21, <2>3, <2>4, FlushKeeps DEF T
  <2> QED
    BY <2>21, <2>5 DEF MemFlush
<1>8. ASSUME NEW m \in MemIds, WriteFailure(t, m)
      PROVE  MemTypeOK' /\ MemInv' /\ Usable(memDisk) \subseteq Usable(memDisk')
  <2> DEFINE T == MemView(t)
             r == Observed(t, "failure")
             U == MemInsert(T, m, r)
             k == memTask[t]
  <2>1. /\ s = "failed" /\ k.phase = "events" /\ memTask' = memTask
        /\ MayWrite(t) /\ m \in Unused(T) /\ MemFlush(t, U) /\ memDeaths' = memDeaths
    BY <1>8 DEF WriteFailure, s
  <2>2. T \in MemTables
    BY <2>1, ViewIsSound
  <2>3. r \in MemRow /\ r.task = t /\ r.kind = "failure"
    BY StatusIs DEF Observed, MemRow
  <2> HIDE DEF r
  <2>4. U \in MemTables /\ U.rows = [T.rows EXCEPT ![m] = r] /\ Entered(U) = Entered(T)
    BY <2>2, <2>3, RowAdded
  <2> HIDE DEF U, T
  <2>5. Fits(T, U, t)
    BY <2>1, <2>2, <2>3, <2>4, NewFits
  <2>6. Becomes(t, k) /\ k.status = "failed" /\ k.phase = "events"
    BY <1>0, <2>1 DEF Becomes, MemTypeOK, s
  <2> HIDE DEF k
  <2>7. MemTypeOK' /\ MemInv'
    BY <2>1, <2>5, <2>6, FlushKeeps DEF T
  <2> QED
    BY <2>1, <2>7 DEF MemFlush
<1>9. CASE FinishTask(t)
  <2>1. /\ memTask' = [memTask EXCEPT ![t] = JobIn(s, "idle")] /\ MemCommit(t)
        /\ memDeaths' = memDeaths /\ memTask[t].phase = "events"
    BY <1>00, <1>9 DEF FinishTask
  <2>2. s \in {"awaiting", "completed"} => PromotedIn(memSeen, t)
    BY <2>1 DEF MemInv, DoneTask, s
  <2>3. Becomes(t, JobIn(s, "idle")) /\ JobIn(s, "idle").phase = "idle"
        /\ JobIn(s, "idle").status = s
    BY <1>0, <2>1 DEF JobIn, MemTask, Becomes
  <2> QED
    BY <2>1, <2>2, <2>3, CommitKeeps
<1>10. CASE JobDies(t)
  BY <1>10, DeathKeeps
<1>11. ASSUME NEW grants \in BOOLEAN, Decide(t, grants)
      PROVE  MemTypeOK' /\ MemInv' /\ Usable(memDisk) \subseteq Usable(memDisk')
  <2>1. MemKept /\ memDeaths' = memDeaths
        /\ \/ memTask' = [memTask EXCEPT ![t] = JobIn("running", "works")]
           \/ memTask' = [memTask EXCEPT ![t] = JobIn("failed", "idle")]
    BY <1>11 DEF Decide
  <2>2. \/ Becomes(t, JobIn("running", "works")) /\ JobIn("running", "works").status = "running"
        \/ Becomes(t, JobIn("failed", "idle")) /\ JobIn("failed", "idle").status = "failed"
    BY <2>1, JobBecomes
  <2> QED
    BY <2>1, <2>2, NoWriteKeeps
<1> QED
  BY <1>1, <1>2, <1>3, <1>4, <1>5, <1>6, <1>7, <1>8, <1>9, <1>10, <1>11 DEF MemStep

LEMMA MemKeeps ==
    MemTypeOK /\ MemInv /\ [MemNext]_memVars =>
        MemTypeOK' /\ MemInv' /\ Usable(memDisk) \subseteq Usable(memDisk')
<1> SUFFICES ASSUME MemTypeOK, MemInv, [MemNext]_memVars
             PROVE  MemTypeOK' /\ MemInv' /\ Usable(memDisk) \subseteq Usable(memDisk')
  OBVIOUS
<1>1. CASE UNCHANGED memVars
  BY <1>1 DEF memVars, MemTypeOK, MemInv, DoneTask
<1>2. CASE MemNext
  <2>1. (\E t \in MemTasks : MemStep(t)) \/ DayPasses
    BY <1>2 DEF MemNext, MemStep
  <2> QED
    BY <2>1, MemStepKeeps, DayKeeps
<1> QED
  BY <1>1, <1>2

LEMMA MemStarts == MemInit => MemTypeOK /\ MemInv
<1> SUFFICES ASSUME MemInit PROVE MemTypeOK /\ MemInv
  OBVIOUS
<1>1. NoRow \in MemRow /\ NoRow.kind = "none" /\ JobIn("running", "works") \in MemTask
      /\ JobIn("running", "works").status = "running"
  BY DEF NoRow, MemRow, JobIn, MemTask
<1>2. memDisk \in MemTables /\ \A m \in MemIds : memDisk.rows[m] = NoRow
  BY <1>1 DEF MemInit, MemTables
<1>3. MemTypeOK
  BY <1>1, <1>2, MemAssumption DEF MemInit, MemTypeOK
<1>4. Usable(memDisk) = {} /\ SettledIn(memDisk)
  BY <1>1, <1>2 DEF Usable, SettledIn
<1> QED
  BY <1>1, <1>3, <1>4 DEF MemInit, MemInv, DoneTask

LEMMA MemIsSound == MemInv => PromotedWhenDone
BY DEF MemInv, PromotedWhenDone, PromotedIn, DoneTask

\* A memory in use is one after a step.
LEMMA MemStays ==
    MemInv' /\ Usable(memDisk) \subseteq Usable(memDisk') =>
        \A m \in MemIds : memDisk.rows[m].kind = "success" /\ memDisk.rows[m].usable =>
            /\ memDisk'.rows[m].usable /\ m \in memDisk'.fts \cup memDisk'.torn
            /\ memDisk'.rows[m].resolution # "pending"
BY DEF MemInv, SettledIn, Usable, Entered

\* Once other tasks can use a memory they can go on to.
THEOREM SettledCorrect == MemSpec => []PromotedWhenDone /\ SettledStays
BY MemStarts, MemKeeps, MemIsSound, MemStays, PTL DEF MemSpec, SettledStays
-----------------------------------------------------------------------------
(* The evidence for a promotion (PlaybookPromotion).  Of any tasks whose clean candidates of one  *)
(* diff are recorded and counted, the one that read last has all of them: nothing less survives    *)
(* that the last one fails or records anew.                                                         *)

Candidates == [there : BOOLEAN, clean : BOOLEAN, low : BOOLEAN, diff : Diffs]
Rollups ==
    [there : BOOLEAN, ready : BOOLEAN, of : SUBSET PrTasks, whole : BOOLEAN, diff : Diffs]
PrStages == {"work", "count", "store", "commit", "waits", "approved", "rejected", "swept"}
Recorders == [at : PrStages, asks : {"none", "jira", "exception"}, mine : Candidates,
          rollup : Rollups, noted : BOOLEAN]

Enough(r) == r.ready => Cardinality(r.of) >= MinVerified

PrTyped ==
    /\ prFaults \in 0 .. MaxPrFaults
    /\ prTask \in [PrTasks -> Recorders]
    /\ prFile \in [PrTasks -> Candidates] /\ prRollup \in [PrTasks -> Rollups]
    /\ \A t \in PrTasks :
          /\ prFile[t].clean => prFile[t].there
          /\ Enough(prTask[t].rollup) /\ Enough(prRollup[t])

\* The rollup a task has made, in hand or stored.
Made(t) == IF prTask[t].at = "store" THEN prTask[t].rollup.of ELSE prRollup[t].of
MadeWhole(t) == IF prTask[t].at = "store" THEN prTask[t].rollup.whole ELSE prRollup[t].whole

\* Tasks whose clean candidate of d is recorded, and counted with every file read.
Evidence(d) == {t \in PrTasks : /\ prTask[t].at = "store" \/ prTask[t].noted
                                /\ prFile[t].clean /\ prFile[t].diff = d
                                /\ prTask[t].mine = prFile[t] /\ MadeWhole(t)}

PrInv ==
    /\ \A t \in PrTasks :
          /\ prTask[t].at \in {"count", "store"} => ~prTask[t].noted /\ prTask[t].mine = prFile[t]
          /\ prTask[t].at = "store" \/ prTask[t].noted => (t \in Made(t) <=> prFile[t].clean)
    /\ \A d \in Diffs : \A S \in SUBSET Evidence(d) : S # {} => \E t \in S : S \subseteq Made(t)

LEMMA NoneTyped == /\ NoCandidate \in Candidates /\ NoRollup \in Rollups /\ Working \in Recorders
                   /\ ~NoCandidate.clean /\ Enough(NoRollup) /\ NoCandidate.there = FALSE
                   /\ Working.at = "work" /\ Working.noted = FALSE /\ Working.rollup = NoRollup
                   /\ Working.mine = NoCandidate /\ NoRollup.of = {}
<1>1. NoCandidate.diff \in Diffs
  BY PrAssumption DEF NoCandidate
<1>2. NoCandidate \in Candidates /\ ~NoCandidate.clean /\ NoCandidate.there = FALSE
  BY PrAssumption DEF NoCandidate, Candidates
<1>3. NoRollup \in Rollups /\ Enough(NoRollup) /\ NoRollup.of = {}
  BY <1>1 DEF NoRollup, Rollups, Enough
<1> QED
  BY <1>2, <1>3 DEF Working, Recorders, PrStages

\* Where the order of the counts is as before, or some have left it, the last one of any is there.
LEMMA FewerCounted ==
    ASSUME PrInv, NEW d \in Diffs, Evidence(d)' \subseteq Evidence(d),
           \A t \in Evidence(d)' : Made(t)' = Made(t)
    PROVE  \A S \in SUBSET Evidence(d)' : S # {} => \E t \in S : S \subseteq Made(t)'
BY DEF PrInv

\* What a step makes of a task but its candidate.
PrMoves(t, k) == prTask' = [prTask EXCEPT ![t] = k]

\* A step of one task that counts nothing keeps the rest.
LEMMA PrOthers ==
    ASSUME PrTyped, PrInv, NEW t \in PrTasks, NEW k \in Recorders, PrMoves(t, k), Enough(k.rollup),
           NEW f \in Candidates, prFile' = [prFile EXCEPT ![t] = f], f.clean => f.there,
           NEW r \in Rollups, prRollup' = [prRollup EXCEPT ![t] = r], Enough(r),
           prFaults' \in 0 .. MaxPrFaults,
           k.at \in {"count", "store"} => ~k.noted /\ k.mine = f,
           k.at = "store" \/ k.noted =>
               /\ prTask[t].at = "store" \/ prTask[t].noted
               /\ f = prFile[t] /\ k.mine = prTask[t].mine
               /\ Made(t) = (IF k.at = "store" THEN k.rollup.of ELSE r.of)
               /\ MadeWhole(t) = (IF k.at = "store" THEN k.rollup.whole ELSE r.whole)
    PROVE  PrTyped' /\ PrInv'
<1>1. PrTyped'
  BY DEF PrTyped, PrMoves
<1>2. /\ prTask'[t] = k /\ prFile'[t] = f /\ prRollup'[t] = r
      /\ \A u \in PrTasks \ {t} : prTask'[u] = prTask[u] /\ prFile'[u] = prFile[u]
                                  /\ prRollup'[u] = prRollup[u]
  BY DEF PrTyped, PrMoves
<1>3. \A u \in PrTasks \ {t} : Made(u)' = Made(u) /\ MadeWhole(u)' = MadeWhole(u)
  BY <1>2 DEF Made, MadeWhole
<1>4. k.at = "store" \/ k.noted => Made(t)' = Made(t) /\ MadeWhole(t)' = MadeWhole(t)
  BY <1>2 DEF Made, MadeWhole
<1>5. ASSUME NEW d \in Diffs
      PROVE  \A S \in SUBSET Evidence(d)' : S # {} => \E u \in S : S \subseteq Made(u)'
  <2>1. Evidence(d)' \subseteq Evidence(d)
    BY <1>2, <1>3, <1>4 DEF Evidence
  <2>2. \A u \in Evidence(d)' : Made(u)' = Made(u)
    BY <1>2, <1>3, <1>4 DEF Evidence
  <2> QED
    BY <2>1, <2>2, FewerCounted
<1>6. ASSUME NEW u \in PrTasks
      PROVE  /\ prTask'[u].at \in {"count", "store"} =>
                    ~prTask'[u].noted /\ prTask'[u].mine = prFile'[u]
             /\ prTask'[u].at = "store" \/ prTask'[u].noted =>
                    (u \in Made(u)' <=> prFile'[u].clean)
  BY <1>2, <1>3, <1>4 DEF PrInv
<1> QED
  BY <1>1, <1>5, <1>6 DEF PrInv

LEMMA PrWrites ==
    ASSUME PrTyped, PrInv, NEW t \in PrTasks, WritesCandidate(t)
    PROVE  PrTyped' /\ PrInv'
<1>1. PICK asks \in {"jira", "exception"}, gates, low \in BOOLEAN, diff \in Diffs :
         /\ prTask' = [prTask EXCEPT ![t] = [Working EXCEPT !.at = "count", !.asks = asks,
                                               !.mine = Candidate(asks, gates, low, diff)]]
         /\ prFile' = [prFile EXCEPT ![t] = Candidate(asks, gates, low, diff)]
  BY DEF WritesCandidate
<1> DEFINE clean == asks = "jira" /\ gates
           c == Candidate(asks, gates, low, diff)
           k == [Working EXCEPT !.at = "count", !.asks = asks, !.mine = c]
<1>2. c = [there |-> TRUE, clean |-> clean, low |-> low, diff |-> diff] /\ clean \in BOOLEAN
  BY DEF Candidate
<1> HIDE DEF clean
<1>3. c \in Candidates /\ c.there
  BY <1>2 DEF Candidates
<1> HIDE DEF c
<1>4. k \in Recorders /\ k.at = "count" /\ k.noted = FALSE /\ k.mine = c /\ k.rollup = NoRollup
  BY <1>3, NoneTyped DEF Recorders, PrStages
<1>5. prTask' = [prTask EXCEPT ![t] = k] /\ prFile' = [prFile EXCEPT ![t] = c]
  BY <1>1 DEF c
<1> HIDE DEF k
<1>6. /\ prRollup[t] \in Rollups /\ prRollup' = [prRollup EXCEPT ![t] = prRollup[t]]
      /\ Enough(prRollup[t]) /\ prFaults' \in 0 .. MaxPrFaults
  BY DEF WritesCandidate, PrTyped
<1> QED
  BY <1>3, <1>4, <1>5, <1>6, NoneTyped, PrOthers DEF PrMoves

\* The task that counts has all the others.
LEMMA PrCounts ==
    ASSUME PrTyped, PrInv, NEW t \in PrTasks, Counts(t)
    PROVE  PrTyped' /\ PrInv'
<1>0. PICK unread \in SUBSET (PrTasks \ {t}) :
        LET of == Matches(t) \ unread
            ready == Cardinality(of) >= MinVerified /\ \A u \in of : ~Loaded(t)[u].low
        IN /\ unread # {} => prFaults < MaxPrFaults
           /\ prFaults' = (IF unread = {} THEN prFaults ELSE prFaults + 1)
           /\ prTask' = [prTask EXCEPT
                           ![t].at = "store",
                           ![t].rollup = [there |-> TRUE, ready |-> ready, of |-> of,
                                          whole |-> unread = {}, diff |-> prTask[t].mine.diff]]
  BY DEF Counts
<1> DEFINE of == Matches(t) \ unread
           ready == Cardinality(of) >= MinVerified /\ \A u \in of : ~Loaded(t)[u].low
           r == [there |-> TRUE, ready |-> ready, of |-> of, whole |-> unread = {},
                 diff |-> prTask[t].mine.diff]
           k == [prTask[t] EXCEPT !.at = "store", !.rollup = r]
<1>1. /\ prTask[t].at = "count" /\ prTask' = [prTask EXCEPT ![t] = k]
      /\ prFaults' \in 0 .. MaxPrFaults /\ UNCHANGED <<prFile, prRollup>>
  <2>1. prTask[t].at = "count" /\ UNCHANGED <<prFile, prRollup>>
    BY DEF Counts
  <2>2. prFaults' \in 0 .. MaxPrFaults
    BY <1>0, PrAssumption DEF PrTyped
  <2>3. prTask' = [prTask EXCEPT ![t] = k]
    BY <1>0 DEF PrTyped
  <2> QED
    BY <2>1, <2>2, <2>3
<1>2. /\ prTask[t] \in Recorders /\ prTask[t].mine \in Candidates
      /\ prTask[t].mine = prFile[t] /\ prTask[t].noted = FALSE
  BY <1>1 DEF PrTyped, PrInv, Recorders
<1>3. /\ of \in SUBSET PrTasks /\ ready \in BOOLEAN
      /\ ready => Cardinality(of) >= MinVerified
  BY DEF Matches
<1>4. \A u \in PrTasks :
        u \in of <=> prFile[u].clean /\ prFile[u].diff = prTask[t].mine.diff /\ u \notin unread
  BY <1>2 DEF Matches, Loaded, PrTyped
<1> HIDE DEF of, ready
<1>5. r \in Rollups /\ Enough(r) /\ r.of = of /\ (r.whole => unread = {})
  BY <1>2, <1>3 DEF Rollups, Enough, Candidates
<1> HIDE DEF r
<1>6. /\ k \in Recorders /\ k.at = "store" /\ k.rollup = r /\ k.mine = prTask[t].mine
      /\ k.noted = FALSE
  BY <1>2, <1>5 DEF Recorders, PrStages
<1> HIDE DEF k
<1>7. /\ prTask'[t] = k /\ prFile' = prFile /\ prRollup' = prRollup
      /\ \A u \in PrTasks \ {t} : prTask'[u] = prTask[u]
  BY <1>1, <1>6 DEF PrTyped
<1>8. PrTyped'
  BY <1>1, <1>5, <1>6 DEF PrTyped
<1>9. /\ Made(t)' = of /\ (MadeWhole(t)' => unread = {})
      /\ \A u \in PrTasks \ {t} : Made(u)' = Made(u) /\ MadeWhole(u)' = MadeWhole(u)
  BY <1>5, <1>6, <1>7 DEF Made, MadeWhole
<1>10. \A d \in Diffs : Evidence(d)' \subseteq Evidence(d) \cup {t}
  BY <1>7, <1>9 DEF Evidence
<1>11. ASSUME NEW d \in Diffs, t \in Evidence(d)' PROVE Evidence(d)' \subseteq of
  BY <1>2, <1>4, <1>6, <1>7, <1>9, <1>11 DEF Evidence
<1>12. ASSUME NEW d \in Diffs, NEW S \in SUBSET Evidence(d)', S # {}
       PROVE  \E u \in S : S \subseteq Made(u)'
  <2>1. CASE t \in S
    BY <1>9, <1>11, <1>12, <2>1
  <2>2. CASE t \notin S
    <3>1. S \in SUBSET Evidence(d) /\ S \subseteq PrTasks \ {t}
      BY <1>10, <2>2 DEF Evidence
    <3>2. PICK u \in S : S \subseteq Made(u)
      BY <3>1, <1>12 DEF PrInv
    <3> QED
      BY <1>9, <3>1, <3>2
  <2> QED
    BY <2>1, <2>2
<1>13. ASSUME NEW u \in PrTasks
      PROVE  /\ prTask'[u].at \in {"count", "store"} =>
                    ~prTask'[u].noted /\ prTask'[u].mine = prFile'[u]
             /\ prTask'[u].at = "store" \/ prTask'[u].noted =>
                    (u \in Made(u)' <=> prFile'[u].clean)
  <2>1. CASE u = t
    BY <1>2, <1>4, <1>6, <1>7, <1>9, <2>1
  <2>2. CASE u # t
    BY <1>7, <1>9, <2>2 DEF PrInv
  <2> QED
    BY <2>1, <2>2
<1> QED
  BY <1>8, <1>12, <1>13 DEF PrInv

\* What a step leaves of the task, its file and its rollup when it writes nothing.
LEMMA PrMovesOn ==
    ASSUME PrTyped, PrInv, NEW t \in PrTasks, NEW p \in PrStages \ {"count", "store"},
           prTask' = [prTask EXCEPT ![t].at = p], prTask[t].at \notin {"count", "store"},
           UNCHANGED <<prFile, prRollup, prFaults>>
    PROVE  PrTyped' /\ PrInv'
<1> DEFINE k == [prTask[t] EXCEPT !.at = p]
<1>1. prTask[t] \in Recorders /\ prFile[t] \in Candidates /\ prRollup[t] \in Rollups
  BY DEF PrTyped
<1>2. k \in Recorders /\ k.at = p /\ k.noted = prTask[t].noted /\ k.rollup = prTask[t].rollup
      /\ k.mine = prTask[t].mine /\ prTask' = [prTask EXCEPT ![t] = k]
  BY <1>1 DEF Recorders, PrTyped
<1> HIDE DEF k
<1>3. /\ prFile' = [prFile EXCEPT ![t] = prFile[t]]
      /\ prRollup' = [prRollup EXCEPT ![t] = prRollup[t]]
      /\ Enough(prTask[t].rollup) /\ Enough(prRollup[t]) /\ (prFile[t].clean => prFile[t].there)
      /\ prFaults' \in 0 .. MaxPrFaults
  BY DEF PrTyped
<1>4. Made(t) = prRollup[t].of /\ MadeWhole(t) = prRollup[t].whole
  BY DEF Made, MadeWhole
<1> QED
  BY <1>1, <1>2, <1>3, <1>4, PrOthers DEF PrMoves

LEMMA PrStores ==
    ASSUME PrTyped, PrInv, NEW t \in PrTasks, StoresRollup(t)
    PROVE  PrTyped' /\ PrInv'
<1> DEFINE k == [prTask[t] EXCEPT !.at = "commit", !.noted = TRUE, !.rollup = NoRollup]
           r == prTask[t].rollup
<1>1. prTask[t] \in Recorders /\ prFile[t] \in Candidates /\ r \in Rollups
  BY DEF PrTyped, Recorders
<1>2. k \in Recorders /\ k.at = "commit" /\ k.rollup = NoRollup /\ k.mine = prTask[t].mine
      /\ prTask' = [prTask EXCEPT ![t] = k] /\ prTask[t].at = "store"
  BY <1>1, NoneTyped DEF Recorders, PrTyped, PrStages, StoresRollup
<1> HIDE DEF k
<1>3. /\ prFile' = [prFile EXCEPT ![t] = prFile[t]] /\ prRollup' = [prRollup EXCEPT ![t] = r]
      /\ Enough(r) /\ (prFile[t].clean => prFile[t].there) /\ prFaults' \in 0 .. MaxPrFaults
  BY DEF PrTyped, StoresRollup
<1>4. Made(t) = r.of /\ MadeWhole(t) = r.whole
  BY <1>2 DEF Made, MadeWhole
<1> HIDE DEF r
<1> QED
  BY <1>1, <1>2, <1>3, <1>4, NoneTyped, PrOthers DEF PrMoves

LEMMA PrFails ==
    ASSUME PrTyped, PrInv, NEW t \in PrTasks, RecordingFails(t) \/ PrDies(t)
    PROVE  PrTyped' /\ PrInv'
<1>1. PICK k \in Recorders : /\ prTask' = [prTask EXCEPT ![t] = k] /\ k.at \in {"work", "commit"}
                             /\ k.rollup = NoRollup /\ ~k.noted
  <2>1. CASE RecordingFails(t)
    <3> DEFINE k == [prTask[t] EXCEPT !.at = "commit", !.rollup = NoRollup]
    <3>1. prTask[t] \in Recorders /\ ~prTask[t].noted
      BY <2>1 DEF PrTyped, PrInv, RecordingFails
    <3>2. k \in Recorders /\ k.at = "commit" /\ k.rollup = NoRollup /\ ~k.noted
      BY <3>1, NoneTyped DEF Recorders, PrStages
    <3>3. prTask' = [prTask EXCEPT ![t] = k]
      BY <2>1 DEF RecordingFails, PrTyped
    <3> QED
      BY <3>2, <3>3
  <2>2. CASE PrDies(t)
    BY <2>2, NoneTyped DEF PrDies
  <2> QED
    BY <2>1, <2>2
<1>2. /\ prFile[t] \in Candidates /\ prRollup[t] \in Rollups
      /\ prFile' = [prFile EXCEPT ![t] = prFile[t]]
      /\ prRollup' = [prRollup EXCEPT ![t] = prRollup[t]]
      /\ Enough(prRollup[t]) /\ (prFile[t].clean => prFile[t].there)
  BY DEF PrTyped, RecordingFails, PrDies
<1>3. prFaults' \in 0 .. MaxPrFaults
  BY PrAssumption DEF PrTyped, RecordingFails, PrDies
<1> QED
  BY <1>1, <1>2, <1>3, NoneTyped, PrOthers DEF PrMoves

LEMMA PrSweeps ==
    ASSUME PrTyped, PrInv, NEW t \in PrTasks, SweepsWorkspace(t)
    PROVE  PrTyped' /\ PrInv'
<1> DEFINE k == [prTask[t] EXCEPT !.at = "swept", !.noted = FALSE]
<1>1. prTask[t] \in Recorders
  BY DEF PrTyped
<1>2. k \in Recorders /\ k.at = "swept" /\ k.rollup = prTask[t].rollup /\ k.noted = FALSE
      /\ prTask' = [prTask EXCEPT ![t] = k]
  BY <1>1 DEF Recorders, PrTyped, PrStages, SweepsWorkspace
<1> HIDE DEF k
<1>3. /\ prFile' = [prFile EXCEPT ![t] = NoCandidate]
      /\ prRollup' = [prRollup EXCEPT ![t] = NoRollup]
      /\ Enough(prTask[t].rollup) /\ prFaults' \in 0 .. MaxPrFaults
  BY DEF PrTyped, SweepsWorkspace
<1> QED
  BY <1>2, <1>3, NoneTyped, PrOthers DEF PrMoves

LEMMA PrKeeps == PrTyped /\ PrInv /\ [PrStep]_prVars => PrTyped' /\ PrInv'
<1> SUFFICES ASSUME PrTyped, PrInv, [PrStep]_prVars PROVE PrTyped' /\ PrInv'
  OBVIOUS
<1>1. CASE UNCHANGED prVars
  BY <1>1 DEF prVars, PrTyped, PrInv, Made, MadeWhole, Evidence
<1>2. ASSUME NEW t \in PrTasks, CommitsApproval(t) \/ Granted(t) \/ Rejected(t)
      PROVE  PrTyped' /\ PrInv'
  <2>1. PICK p \in PrStages \ {"count", "store"} : Goes(t, p)
    BY <1>2 DEF PrStages, CommitsApproval, Granted, Rejected
  <2> QED
    BY <1>2, <2>1, PrMovesOn DEF Goes, CommitsApproval, Granted, Rejected
<1>3. ASSUME NEW t \in PrTasks,
             WritesCandidate(t) \/ Counts(t) \/ StoresRollup(t) \/ RecordingFails(t)
             \/ PrDies(t) \/ SweepsWorkspace(t)
      PROVE  PrTyped' /\ PrInv'
  BY <1>3, PrWrites, PrCounts, PrStores, PrFails, PrSweeps
<1> QED
  BY <1>1, <1>2, <1>3 DEF PrStep

LEMMA PrStarts == PrInit => PrTyped /\ PrInv
<1> SUFFICES ASSUME PrInit PROVE PrTyped /\ PrInv
  OBVIOUS
<1>1. \A t \in PrTasks : prTask[t] = Working /\ prFile[t] = NoCandidate /\ prRollup[t] = NoRollup
  BY DEF PrInit
<1>2. PrTyped
  BY <1>1, NoneTyped, PrAssumption DEF PrInit, PrTyped
<1>3. \A d \in Diffs : Evidence(d) = {}
  BY <1>1, NoneTyped DEF Evidence
<1> QED
  BY <1>1, <1>2, <1>3, NoneTyped DEF PrInv

LEMMA PrTypesHold == PrTyped => PrTypeOK
BY DEF PrTyped, PrTypeOK, Recorders, PrStages, Rollups, Candidates, Enough

\* No evidence is lost between tasks that record at once, and what was blocked is none.
LEMMA EvidenceHolds == PrTyped /\ PrInv => LastWriterSeesAll /\ BlockedIsNoEvidence
<1> SUFFICES ASSUME PrTyped, PrInv PROVE LastWriterSeesAll /\ BlockedIsNoEvidence
  OBVIOUS
<1>1. \A t \in PrTasks : prTask[t].noted => Made(t) = prRollup[t].of
  BY DEF PrInv, Made
<1>2. ASSUME NEW d \in Diffs, Noted(d) # {} PROVE \E t \in Noted(d) : Noted(d) \subseteq prRollup[t].of
  <2>1. Noted(d) \in SUBSET Evidence(d) /\ \A t \in Noted(d) : t \in PrTasks /\ prTask[t].noted
    BY DEF Noted, Evidence, MadeWhole, PrInv
  <2> QED
    BY <1>1, <1>2, <2>1 DEF PrInv
<1>3. BlockedIsNoEvidence
  BY <1>1 DEF PrInv, BlockedIsNoEvidence
<1> QED
  BY <1>2, <1>3 DEF LastWriterSeesAll
-----------------------------------------------------------------------------
(* The index (KnowledgeIndex).  A card is about the content its hash says, and its document's     *)
(* full-text row is of that content when the hash is the document's; a result that is to be       *)
(* cached under one source cites none of another.                                                   *)

IndexInv ==
    /\ EveryDocumentIsFound /\ ScopedResults
    /\ \A s \in Sources :
          /\ card[s].about = card[s].hash
          /\ document[s] # 0 /\ card[s].hash = document[s] => fts[s] = document[s]
    /\ search.phase = "found" /\ search.scope # Unscoped => search.result \subseteq {search.scope}

\* The part of the invariant that is about the rows.
RowsFollow ==
    \A s \in Sources :
        /\ document[s] # 0 => fts[s] # 0
        /\ card[s].about = card[s].hash
        /\ document[s] # 0 /\ card[s].hash = document[s] => fts[s] = document[s]

RowsTyped == /\ document \in Contents /\ fts \in Contents
             /\ card \in [Sources -> [about : Versions, hash : Versions]]
             /\ cardJob \in [Sources -> [of : Versions, gone : BOOLEAN]]

ZeroIsVersion == 0 \in Versions

LEMMA ZeroVersion == ZeroIsVersion
BY KnowledgeAssumption DEF ZeroIsVersion, Versions

LEMMA IndexedKeeps ==
    ASSUME RowsTyped, RowsFollow, NEW s \in Sources, NEW v \in Versions, Indexed(s, v)
    PROVE  RowsTyped' /\ RowsFollow'
<1> DEFINE gone == cardJob[s].gone \/ (v = 0 /\ cardJob[s].of # 0)
<1>1. /\ document' = [document EXCEPT ![s] = v] /\ fts' = [fts EXCEPT ![s] = v]
      /\ card' = IF v # document[s] THEN [card EXCEPT ![s] = NoCard] ELSE card
      /\ cardJob' = [cardJob EXCEPT ![s].gone = gone]
  BY DEF Indexed, RowsTyped
<1>2. gone \in BOOLEAN
  BY DEF RowsTyped
<1> HIDE DEF gone
<1>3. RowsTyped'
  BY <1>1, <1>2, ZeroVersion DEF RowsTyped, Contents, NoCard, ZeroIsVersion
<1>4. RowsFollow'
  BY <1>1 DEF RowsTyped, RowsFollow, Contents, NoCard
<1> QED
  BY <1>3, <1>4

LEMMA RemovalKeeps ==
    ASSUME RowsTyped, RowsFollow, NEW s \in Sources, SyncRemoves(s)
    PROVE  RowsTyped' /\ RowsFollow'
<1> DEFINE gone == cardJob[s].of # 0
<1>1. /\ document' = [document EXCEPT ![s] = 0]
      /\ fts' = fts \/ fts' = [fts EXCEPT ![s] = 0]
      /\ card' = [card EXCEPT ![s] = NoCard]
      /\ cardJob' = [cardJob EXCEPT ![s].gone = gone]
  BY DEF SyncRemoves
<1>2. gone \in BOOLEAN
  OBVIOUS
<1> HIDE DEF gone
<1>3. RowsTyped'
  BY <1>1, <1>2, ZeroVersion DEF RowsTyped, Contents, NoCard, ZeroIsVersion
<1>4. RowsFollow'
  BY <1>1 DEF RowsTyped, RowsFollow, Contents, NoCard
<1> QED
  BY <1>3, <1>4

LEMMA CardKeeps ==
    ASSUME RowsTyped, RowsFollow, NEW s \in Sources, CardCommits(s)
    PROVE  RowsTyped' /\ RowsFollow'
<1> DEFINE v == cardJob[s].of
           c == [about |-> v, hash |-> v]
<1>1. v \in Versions /\ v # 0
  BY DEF RowsTyped, CardCommits
<1>2. c \in [about : Versions, hash : Versions] /\ c.about = v /\ c.hash = v
  BY <1>1
<1>3. /\ document' = document /\ cardJob' = [cardJob EXCEPT ![s] = NoJob]
      /\ \/ fts' = fts /\ card' = card
         \/ card' = [card EXCEPT ![s] = c] /\ fts' = [fts EXCEPT ![s] = v]
  BY DEF CardCommits
<1> HIDE DEF v, c
<1>4. RowsTyped'
  BY <1>1, <1>2, <1>3, ZeroVersion DEF RowsTyped, Contents, NoJob, ZeroIsVersion
<1>5. RowsFollow'
  BY <1>1, <1>2, <1>3 DEF RowsTyped, RowsFollow, Contents
<1> QED
  BY <1>4, <1>5

\* A search that reads makes the rows of what is not there yet.
LEMMA ReadingKeeps ==
    ASSUME RowsTyped, RowsFollow, disk \in Contents, NEW routed, SearchReads(routed)
    PROVE  RowsTyped' /\ RowsFollow'
<1>1. RowsTyped'
  BY DEF RowsTyped, Contents, SearchReads
<1>2. RowsFollow'
  BY DEF RowsTyped, RowsFollow, Contents, SearchReads, Unready
<1> QED
  BY <1>1, <1>2

LEMMA RowsSplit == /\ IndexTypeOK => RowsTyped
                   /\ IndexInv <=> RowsFollow /\ ScopedResults
                          /\ (search.phase = "found" /\ search.scope # Unscoped =>
                                  search.result \subseteq {search.scope})
BY DEF IndexTypeOK, RowsTyped, IndexInv, RowsFollow, EveryDocumentIsFound

IndexStep(s) == \/ \E v \in Versions : EditFile(s, v)
                \/ Upload(s) \/ DeleteDocument(s) \/ SyncReads(s)
                \/ CardBegins(s) \/ CardCommits(s) \/ Expires(s)

LEMMA RowsOfSource ==
    ASSUME IndexTypeOK, RowsFollow, NEW s \in Sources, IndexStep(s)
    PROVE  RowsTyped' /\ RowsFollow'
<1>0. RowsTyped
  BY RowsSplit
<1>1. ASSUME UNCHANGED <<document, fts, card, cardJob>> PROVE RowsTyped' /\ RowsFollow'
  BY <1>0, <1>1 DEF RowsTyped, RowsFollow
<1>2. ASSUME NEW v \in Versions, EditFile(s, v) PROVE RowsTyped' /\ RowsFollow'
  BY <1>1, <1>2 DEF EditFile
<1>3. CASE Upload(s)
  <2>1. version' \in Versions
    BY <1>3, KnowledgeAssumption DEF Upload, IndexTypeOK, Versions
  <2> QED
    BY <1>0, <1>1, <1>3, <2>1, IndexedKeeps DEF Upload
<1>4. CASE DeleteDocument(s)
  BY <1>0, <1>1, <1>4, IndexedKeeps, ZeroVersion DEF DeleteDocument, ZeroIsVersion
<1>5. CASE SyncReads(s) \/ Expires(s)
  BY <1>1, <1>5 DEF SyncReads, Expires
<1>6. CASE CardBegins(s)
  BY <1>0, <1>6 DEF CardBegins, RowsTyped, RowsFollow, Contents
<1>7. CASE CardCommits(s)
  BY <1>0, <1>7, CardKeeps
<1> QED
  BY <1>2, <1>3, <1>4, <1>5, <1>6, <1>7 DEF IndexStep

LEMMA RowsOfSync ==
    ASSUME IndexTypeOK, RowsFollow, SyncCommits
    PROVE  RowsTyped' /\ RowsFollow'
<1>1. RowsTyped /\ sync.source \in Sources /\ sync.file \in Versions
  BY RowsSplit DEF IndexTypeOK
<1>2. CASE UNCHANGED <<document, fts, card, cardJob>>
  BY <1>1, <1>2 DEF RowsTyped, RowsFollow
<1>3. CASE SyncRemoves(sync.source)
  BY <1>1, <1>3, RemovalKeeps
<1>4. CASE Indexed(sync.source, sync.file)
  BY <1>1, <1>4, IndexedKeeps
<1> QED
  BY <1>2, <1>3, <1>4 DEF SyncCommits

\* The types of what is not a row, and what a search may put into the cache.
RestTyped ==
    /\ disk \in Contents /\ version \in Versions
    /\ sync \in [phase : {"none", "read", "synced"}, source : Sources,
                 file : Versions, row : Versions, gone : BOOLEAN]
    /\ cache \in [Sources -> SUBSET SUBSET Sources]
    /\ search \in [phase : {"none", "missed", "found"},
                   scope : Sources \cup {Unscoped}, result : SUBSET Sources]

CacheFollows ==
    /\ ScopedResults
    /\ search.phase = "found" /\ search.scope # Unscoped => search.result \subseteq {search.scope}

LEMMA NoneOfIndex ==
    /\ NoSync \in [phase : {"none", "read", "synced"}, source : Sources,
                   file : Versions, row : Versions, gone : BOOLEAN]
    /\ NoSearch \in [phase : {"none", "missed", "found"},
                     scope : Sources \cup {Unscoped}, result : SUBSET Sources]
    /\ NoSearch.phase = "none"
BY KnowledgeAssumption, ZeroVersion DEF NoSync, NoSearch, ZeroIsVersion

LEMMA RestOfSource ==
    ASSUME IndexTypeOK, CacheFollows, NEW s \in Sources, IndexStep(s)
    PROVE  RestTyped' /\ CacheFollows'
<1>0. RestTyped
  BY DEF IndexTypeOK, RestTyped
<1>1. ASSUME UNCHANGED <<cache, search>> PROVE CacheFollows'
  BY <1>1 DEF CacheFollows, ScopedResults
<1>2. ASSUME NEW v \in Versions, EditFile(s, v) PROVE RestTyped' /\ CacheFollows'
  BY <1>0, <1>1, <1>2 DEF EditFile, RestTyped, Contents
<1>3. CASE Upload(s)
  <2>1. version' \in Versions
    BY <1>3, KnowledgeAssumption DEF Upload, IndexTypeOK, Versions
  <2> QED
    BY <1>0, <1>1, <1>3, <2>1 DEF Upload, RestTyped, Contents
<1>4. CASE DeleteDocument(s)
  <2>1. disk' \in Contents
    BY <1>0, <1>4, ZeroVersion DEF DeleteDocument, RestTyped, Contents, ZeroIsVersion
  <2> DEFINE gone == sync.gone \/ (sync.phase = "read" /\ sync.source = s)
  <2>2. sync' = sync \/ sync' = [sync EXCEPT !.gone = gone]
    BY <1>0, <1>4 DEF DeleteDocument, RestTyped
  <2>3. gone \in BOOLEAN
    BY <1>0 DEF RestTyped
  <2> HIDE DEF gone
  <2> QED
    BY <1>0, <1>1, <1>4, <2>1, <2>2, <2>3 DEF DeleteDocument, RestTyped
<1>5. CASE SyncReads(s)
  BY <1>0, <1>1, <1>5 DEF SyncReads, RestTyped, IndexTypeOK, Contents
<1>6. CASE Expires(s)
  BY <1>0, <1>6 DEF Expires, RestTyped, CacheFollows, ScopedResults
<1>7. CASE CardBegins(s) \/ CardCommits(s)
  BY <1>0, <1>1, <1>7 DEF CardBegins, CardCommits, RestTyped
<1> QED
  BY <1>2, <1>3, <1>4, <1>5, <1>6, <1>7 DEF IndexStep

LEMMA SearchKeeps ==
    ASSUME IndexTypeOK, CacheFollows,
           \/ SyncCommits \/ SyncInvalidates \/ SearchPuts
           \/ \E scope \in Sources \cup {Unscoped} : SearchBegins(scope)
           \/ \E routed \in SUBSET Sources : SearchReads(routed)
    PROVE  RestTyped' /\ CacheFollows'
<1>0. RestTyped
  BY DEF IndexTypeOK, RestTyped
<1>1. CASE SyncCommits
  <2>1. sync' \in [phase : {"none", "read", "synced"}, source : Sources,
                   file : Versions, row : Versions, gone : BOOLEAN]
    <3>1. [NoSync EXCEPT !.phase = "synced", !.source = sync.source]
             \in [phase : {"none", "read", "synced"}, source : Sources,
                  file : Versions, row : Versions, gone : BOOLEAN]
      BY <1>0, NoneOfIndex DEF RestTyped
    <3> QED
      BY <1>1, <3>1, NoneOfIndex DEF SyncCommits
  <2> QED
    BY <1>0, <1>1, <2>1 DEF SyncCommits, RestTyped, CacheFollows, ScopedResults
<1>2. CASE SyncInvalidates
  BY <1>0, <1>2, NoneOfIndex DEF SyncInvalidates, RestTyped, CacheFollows, ScopedResults
<1>3. CASE SearchPuts
  <2> DEFINE key == CacheKey(search.scope)
  <2>1. /\ key \in Sources
        /\ key # DefaultSource => search.result \subseteq {key}
    BY <1>0, <1>3, KnowledgeAssumption DEF CacheKey, RestTyped, SearchPuts, CacheFollows
  <2>2. cache' = [cache EXCEPT ![key] = {search.result}] /\ search' = NoSearch
        /\ UNCHANGED <<disk, version, sync>>
    BY <1>3 DEF SearchPuts
  <2>3. search.result \in SUBSET Sources
    BY <1>0 DEF RestTyped
  <2> HIDE DEF key
  <2>4. RestTyped'
    BY <1>0, <2>1, <2>2, <2>3, NoneOfIndex DEF RestTyped
  <2>5. ScopedResults'
    BY <1>0, <2>1, <2>2 DEF RestTyped, CacheFollows, ScopedResults
  <2> QED
    BY <2>2, <2>4, <2>5, NoneOfIndex DEF CacheFollows
<1>4. ASSUME NEW scope \in Sources \cup {Unscoped}, SearchBegins(scope)
      PROVE  RestTyped' /\ CacheFollows'
  <2> DEFINE n == [NoSearch EXCEPT !.phase = "missed", !.scope = scope]
  <2>1. n \in [phase : {"none", "missed", "found"},
               scope : Sources \cup {Unscoped}, result : SUBSET Sources] /\ n.phase = "missed"
    BY <1>4, NoneOfIndex
  <2>2. search' = n /\ UNCHANGED <<disk, version, sync, cache>>
    BY <1>4 DEF SearchBegins
  <2> HIDE DEF n
  <2> QED
    BY <1>0, <2>1, <2>2 DEF RestTyped, CacheFollows, ScopedResults
<1>5. ASSUME NEW routed \in SUBSET Sources, SearchReads(routed)
      PROVE  RestTyped' /\ CacheFollows'
  <2> DEFINE n == [search EXCEPT !.phase = "found", !.result = routed]
  <2>1. n \in [phase : {"none", "missed", "found"},
               scope : Sources \cup {Unscoped}, result : SUBSET Sources]
        /\ n.scope = search.scope /\ n.result = routed
    BY <1>0, <1>5 DEF RestTyped
  <2>2. search.scope # Unscoped => routed = {search.scope}
    BY <1>5 DEF SearchReads, MayRoute
  <2>3. /\ search' = n /\ UNCHANGED <<disk, version, sync>>
        /\ cache' = [s \in Sources |-> IF s \in Unready THEN {} ELSE cache[s]]
    BY <1>5 DEF SearchReads
  <2> HIDE DEF n
  <2>4. RestTyped'
    BY <1>0, <2>1, <2>3 DEF RestTyped
  <2> QED
    BY <2>1, <2>2, <2>3, <2>4 DEF CacheFollows, ScopedResults
<1> QED
  BY <1>1, <1>2, <1>3, <1>4, <1>5

LEMMA IndexKeeps == IndexTypeOK /\ IndexInv /\ [IndexNext]_indexVars => IndexTypeOK' /\ IndexInv'
<1> SUFFICES ASSUME IndexTypeOK, IndexInv, [IndexNext]_indexVars
             PROVE  RowsTyped' /\ RowsFollow' /\ RestTyped' /\ CacheFollows'
  BY DEF IndexTypeOK, IndexInv, RowsTyped, RowsFollow, RestTyped, CacheFollows,
         EveryDocumentIsFound
<1>0. RowsTyped /\ RowsFollow /\ RestTyped /\ CacheFollows
  BY RowsSplit DEF IndexTypeOK, RestTyped, CacheFollows
<1>1. CASE UNCHANGED indexVars
  BY <1>0, <1>1 DEF indexVars, RowsTyped, RowsFollow, RestTyped, CacheFollows, ScopedResults
<1>2. ASSUME NEW s \in Sources, IndexStep(s)
      PROVE  RowsTyped' /\ RowsFollow' /\ RestTyped' /\ CacheFollows'
  BY <1>0, <1>2, RowsOfSource, RestOfSource
<1>3. CASE \/ SyncCommits \/ SyncInvalidates \/ SearchPuts
           \/ \E scope \in Sources \cup {Unscoped} : SearchBegins(scope)
           \/ \E routed \in SUBSET Sources : SearchReads(routed)
  <2>1. RestTyped' /\ CacheFollows'
    BY <1>0, <1>3, SearchKeeps
  <2>2. RowsTyped' /\ RowsFollow'
    <3>1. ASSUME UNCHANGED <<document, fts, card, cardJob>> PROVE RowsTyped' /\ RowsFollow'
      BY <1>0, <3>1 DEF RowsTyped, RowsFollow
    <3>2. disk \in Contents
      BY <1>0 DEF RestTyped
    <3> QED
      BY <1>0, <1>3, <3>1, <3>2, RowsOfSync, ReadingKeeps
         DEF SyncInvalidates, SearchPuts, SearchBegins
  <2> QED
    BY <2>1, <2>2
<1> QED
  BY <1>1, <1>2, <1>3 DEF IndexNext, IndexStep

LEMMA IndexStarts == IndexInit => IndexTypeOK /\ IndexInv
<1> SUFFICES ASSUME IndexInit PROVE IndexTypeOK /\ IndexInv
  OBVIOUS
<1>1. IndexTypeOK
  <2>1. 0 \in Versions /\ (Sources # {} => 1 \in Nat)
    BY ZeroVersion DEF ZeroIsVersion
  <2>2. 1 \in Versions
    BY KnowledgeAssumption DEF Versions
  <2> QED
    BY <2>1, <2>2, NoneOfIndex DEF IndexInit, IndexTypeOK, Contents, Nothing, NoCard, NoJob
<1>2. IndexInv
  BY NoneOfIndex DEF IndexInit, IndexInv, EveryDocumentIsFound, ScopedResults, Nothing, NoCard
<1> QED
  BY <1>1, <1>2

LEMMA IndexFinds == IndexInv => EveryDocumentIsFound /\ LagIsFound /\ ScopedResults
BY DEF IndexInv, LagIsFound
-----------------------------------------------------------------------------
(* The agentic retrieval (AgenticRetrieval).  What was found is not what only a failed tool       *)
(* named, and the time is behind the overall timeout by what the round under way has taken.       *)

CcInv ==
    /\ Range(ccEvidence) \cap ccFailed = {}
    /\ ccPhase \in {"round", "ask", "decided", "tool"} => ccBad \in 0 .. 1 /\ ccReason = "none"
    /\ ccPhase = "tool" => ccTools < MaxToolCalls
    /\ ccPhase = "over" => ccReason # "crashed"
    /\ ServedIsFound /\ OvershootIsBounded
    /\ ccPhase = "ask" => ccTime < OverallTime + (ccProvider - 1) * CallTime
    /\ ccPhase \in {"decided", "tool"} => ccTime < OverallTime + CcProviders * CallTime

\* The products of the bounds, as numbers.
LEMMA CallTimes ==
    /\ \A p \in Nat : p * CallTime \in Nat /\ (p + 1) * CallTime = p * CallTime + CallTime
    /\ \A p \in 1 .. CcProviders :
          (p - 1) * CallTime \in Nat /\ p * CallTime \in Nat
          /\ p * CallTime = (p - 1) * CallTime + CallTime
          /\ p * CallTime <= CcProviders * CallTime
    /\ CcProviders * CallTime \in Nat
    /\ (CcProviders + 1) * CallTime = CcProviders * CallTime + CallTime
    /\ CallTime \in Nat \ {0} /\ OverallTime \in Nat \ {0} /\ 0 * CallTime = 0
<1>1. CallTime \in Nat \ {0} /\ OverallTime \in Nat \ {0} /\ CcProviders \in Nat \ {0}
  BY RetrievalAssumption
<1>2. \A p \in Nat : p * CallTime \in Nat /\ (p + 1) * CallTime = p * CallTime + CallTime
  BY <1>1
<1>3. ASSUME NEW p \in 1 .. CcProviders PROVE p * CallTime <= CcProviders * CallTime
  BY <1>1, <1>3
<1>4. ASSUME NEW p \in 1 .. CcProviders
      PROVE  (p - 1) * CallTime \in Nat /\ p * CallTime = (p - 1) * CallTime + CallTime
  <2>1. PICK q \in Nat : p = q + 1
    BY <1>1
  <2> QED
    BY <1>2, <2>1
<1> QED
  BY <1>1, <1>2, <1>3, <1>4

LEMMA CcBounds == /\ MaxRounds \in Nat /\ CcProviders \in Nat /\ CcProviders >= 1
                  /\ MaxToolCalls \in Nat /\ CallTime \in Nat /\ OverallTime \in Nat
BY RetrievalAssumption

\* The files a tool found, in some order.
LEMMA FoundInOrder ==
    ASSUME NEW S \in SUBSET CcFiles
    PROVE  SetToSeq(S) \in Seq(S)
<1>1. IsFiniteSet(S)
  BY RetrievalAssumption, FS_Subset
<1>2. Cardinality(S) \in Nat /\ ExistsBijection(1 .. Cardinality(S), S)
  BY <1>1, FS_CardinalityType
<1>3. \E f \in [1 .. Cardinality(S) -> S] : IsInjective(f)
  BY <1>2 DEF ExistsBijection, Bijection, Injection
<1>4. SetToSeq(S) \in [1 .. Cardinality(S) -> S]
  BY <1>3 DEF SetToSeq
<1> QED
  BY <1>2, <1>4

LEMMA EvidenceGrows ==
    ASSUME NEW e \in Seq(CcFiles), NEW S \in SUBSET CcFiles
    PROVE  /\ e \o SetToSeq(S) \in Seq(CcFiles)
           /\ Range(e \o SetToSeq(S)) \subseteq Range(e) \cup S
<1>1. SetToSeq(S) \in Seq(S) /\ SetToSeq(S) \in Seq(CcFiles)
  BY FoundInOrder
<1> QED
  BY <1>1 DEF Range

LEMMA CcStarts == CcInit => CcTypeOK /\ CcInv
<1> SUFFICES ASSUME CcInit PROVE CcTypeOK /\ CcInv
  OBVIOUS
<1>1. CcTypeOK
  BY RetrievalAssumption DEF CcInit, CcTypeOK
<1>2. ccTime = 0 /\ OvershootIsBounded
  BY CallTimes DEF CcInit, OvershootIsBounded
<1> QED
  BY <1>1, <1>2 DEF CcInit, CcInv, ServedIsFound, Range

LEMMA RoundKeeps ==
    ASSUME CcTypeOK, CcInv, StartRound \/ NoRoundLeft \/ Crashes
    PROVE  CcTypeOK' /\ CcInv'
<1>1. CcMin(CallTime, CcMax(1, OverallTime - ccTime)) \in 0 .. CallTime
  BY CallTimes DEF CcMin, CcMax, CcTypeOK
<1>2. CcTypeOK'
  <2>1. CASE StartRound
    <3>1. /\ ccRound' \in {ccRound, ccRound + 1} /\ ccRound < MaxRounds
          /\ ccProvider' \in {ccProvider, 1}
          /\ ccAllowed' \in 0 .. CallTime
          /\ ccPhase' \in {"over", "ask"} /\ ccReason' \in {"overall_timeout", ccReason}
          /\ ccTime' = ccTime /\ ccBad' = ccBad /\ ccTools' = ccTools
          /\ ccEvidence' = ccEvidence /\ ccFailed' = ccFailed /\ ccCited' = ccCited
      BY <1>1, <2>1 DEF StartRound, OverWith, ccFound, CcTypeOK
    <3> QED
      BY <3>1, CcBounds DEF CcTypeOK
  <2>2. CASE NoRoundLeft \/ Crashes
    BY <2>2 DEF CcTypeOK, NoRoundLeft, Crashes, OverWith, ccTurn, ccFound
  <2> QED
    BY <2>1, <2>2
<1>3. /\ ccTime' = ccTime /\ ccEvidence' = ccEvidence /\ ccFailed' = ccFailed
      /\ ccTools' = ccTools /\ ccBad' = ccBad
      /\ ccPhase' \in {"ask", "over", "index"}
      /\ ccPhase' = "ask" => ccTime < OverallTime /\ ccProvider' = 1 /\ ccReason' = ccReason
                             /\ ccPhase = "round"
      /\ ccPhase' = "over" => ccReason' # "crashed"
  BY CallTimes DEF StartRound, NoRoundLeft, Crashes, OverWith, ccTurn, ccFound, CcTypeOK
<1>4. ccPhase' = "ask" => ccTime' < OverallTime + (ccProvider' - 1) * CallTime
  BY <1>3, CallTimes DEF CcTypeOK
<1>5. OvershootIsBounded' /\ ServedIsFound'
  BY <1>3 DEF CcInv, OvershootIsBounded, ServedIsFound
<1> QED
  BY <1>2, <1>3, <1>4, <1>5 DEF CcInv

LEMMA ProviderKeeps ==
    ASSUME CcTypeOK, CcInv, NEW t \in 0 .. CallTime, ProviderFailsCc(t) \/ ProviderAnswersCc(t)
    PROVE  CcTypeOK' /\ CcInv'
<1>1. PICK q \in Nat : q = (ccProvider - 1) * CallTime
  BY CallTimes DEF CcTypeOK
<1>2. PICK z \in Nat : z = CcProviders * CallTime
  BY CallTimes
<1>3. /\ ccTime < OverallTime + q /\ q + CallTime <= z
      /\ ccProvider * CallTime = q + CallTime
      /\ (CcProviders + 1) * CallTime = z + CallTime
  BY <1>1, <1>2, CallTimes DEF CcTypeOK, CcInv, ProviderFailsCc, ProviderAnswersCc
<1>4. ccTime' \in Nat /\ ccTime' < OverallTime + q + CallTime
  BY <1>3, CallTimes DEF CcTypeOK, ProviderFailsCc, ProviderAnswersCc
<1>5. CcTypeOK'
  <2>1. /\ ccProvider' \in 1 .. CcProviders /\ ccRound' = ccRound /\ ccAllowed' = ccAllowed
        /\ ccPhase' \in {"over", "ask", "decided"}
        /\ ccReason' \in {"all_providers_failed", ccReason}
        /\ ccBad' = ccBad /\ ccTools' = ccTools
        /\ ccEvidence' = ccEvidence /\ ccFailed' = ccFailed /\ ccCited' = ccCited
    BY CcBounds
       DEF CcTypeOK, ProviderFailsCc, ProviderAnswersCc, OverWith, ccTurn, ccFound
  <2> QED
    BY <1>4, <2>1 DEF CcTypeOK
<1>6. /\ ccEvidence' = ccEvidence /\ ccFailed' = ccFailed
      /\ ccTools' = ccTools /\ ccBad' = ccBad
      /\ \/ ccPhase' = "ask" /\ ccProvider' = ccProvider + 1 /\ ccReason' = ccReason
         \/ ccPhase' = "over" /\ ccReason' # "crashed"
         \/ ccPhase' = "decided" /\ ccReason' = ccReason
      /\ ccPhase = "ask"
  BY DEF ProviderFailsCc, ProviderAnswersCc, OverWith, ccTurn, ccFound, CcTypeOK
<1>7. ccPhase' = "ask" => (ccProvider' - 1) * CallTime = q + CallTime
  BY <1>3, <1>6 DEF CcTypeOK
<1>8. OvershootIsBounded'
  BY <1>3, <1>4, CallTimes DEF OvershootIsBounded
<1>9. ccTime' < OverallTime + CcProviders * CallTime
  BY <1>2, <1>3, <1>4, CallTimes
<1>10. ccPhase' = "ask" => ccTime' < OverallTime + (ccProvider' - 1) * CallTime
  BY <1>4, <1>7, CallTimes
<1>11. ServedIsFound'
  BY <1>6 DEF ServedIsFound
<1> QED
  BY <1>5, <1>6, <1>8, <1>9, <1>10, <1>11 DEF CcInv

LEMMA DecisionKeeps ==
    ASSUME CcTypeOK, CcInv, NotJson \/ SaysDone \/ \E acts \in BOOLEAN : Decides(acts)
    PROVE  CcTypeOK' /\ CcInv'
<1>1. CcTypeOK'
  <2>1. /\ ccProvider' = ccProvider /\ ccRound' = ccRound /\ ccAllowed' = ccAllowed
        /\ ccPhase' \in {"over", "round", "tool"} /\ ccBad' \in 0 .. 2
        /\ ccReason' \in {"invalid_json", "none", "budget_exhausted", ccReason}
        /\ ccTime' = ccTime /\ ccTools' = ccTools
        /\ ccEvidence' = ccEvidence /\ ccFailed' = ccFailed /\ ccCited' = ccCited
    BY DEF CcTypeOK, CcInv, NotJson, SaysDone, Decides, OverWith, ccTurn, ccFound
  <2> QED
    BY <2>1 DEF CcTypeOK
<1>2. /\ ccTime' = ccTime /\ ccEvidence' = ccEvidence /\ ccFailed' = ccFailed
      /\ ccTools' = ccTools
      /\ ccPhase = "decided"
      /\ \/ ccPhase' = "over" /\ ccReason' # "crashed"
         \/ ccPhase' = "round" /\ ccReason' = ccReason /\ ccBad' \in 0 .. 1
         \/ ccPhase' = "tool" /\ ccReason' = ccReason /\ ccBad' \in 0 .. 1
            /\ ccTools < MaxToolCalls
  BY RetrievalAssumption
     DEF NotJson, SaysDone, Decides, OverWith, ccTurn, ccFound, CcTypeOK, CcInv
<1>3. OvershootIsBounded' /\ ServedIsFound'
  BY <1>2 DEF CcInv, OvershootIsBounded, ServedIsFound
<1> QED
  BY <1>1, <1>2, <1>3 DEF CcInv

LEMMA ToolKeeps ==
    ASSUME CcTypeOK, CcInv, NEW found \in SUBSET CcFiles, NEW error \in BOOLEAN,
           NEW t \in 0 .. CallTime, ToolRuns(found, error, t)
    PROVE  CcTypeOK' /\ CcInv'
<1>1. /\ ccEvidence \o SetToSeq(found) \in Seq(CcFiles)
      /\ Range(ccEvidence \o SetToSeq(found)) \subseteq Range(ccEvidence) \cup found
  BY EvidenceGrows DEF CcTypeOK
<1>2. ccTools < MaxToolCalls /\ ccTools + 1 \in 0 .. MaxToolCalls
      /\ ccTime + t \in Nat
  BY RetrievalAssumption, CallTimes DEF CcTypeOK, CcInv, ToolRuns
<1>3. CcTypeOK'
  BY <1>1, <1>2 DEF CcTypeOK, ToolRuns, ccTurn
<1>4. Range(ccEvidence') \cap ccFailed' = {}
  <2>1. CASE error
    BY <2>1 DEF CcInv, ToolRuns
  <2>2. CASE ~error
    BY <1>1, <2>2 DEF CcInv, ToolRuns
  <2> QED
    BY <2>1, <2>2
<1>5. OvershootIsBounded'
  <2>1. PICK z \in Nat : z = CcProviders * CallTime
    BY CallTimes
  <2>2. ccTime < OverallTime + z /\ ccTime' = ccTime + t
        /\ (CcProviders + 1) * CallTime = z + CallTime
    BY <2>1, CallTimes DEF CcInv, ToolRuns
  <2> QED
    BY <1>2, <2>2, CallTimes DEF OvershootIsBounded, CcTypeOK
<1>6. ccPhase' = "round" /\ ccBad' = ccBad /\ ccReason' = ccReason /\ ccPhase = "tool"
  BY DEF ToolRuns, ccTurn
<1> QED
  BY <1>3, <1>4, <1>5, <1>6 DEF CcInv, ServedIsFound

LEMMA ServeKeeps ==
    ASSUME CcTypeOK, CcInv, Serve
    PROVE  CcTypeOK' /\ CcInv'
<1>1. /\ ccTime' = ccTime /\ ccEvidence' = ccEvidence /\ ccFailed' = ccFailed
      /\ ccTools' = ccTools /\ ccBad' = ccBad /\ ccReason' = ccReason
      /\ ccRound' = ccRound /\ ccProvider' = ccProvider /\ ccAllowed' = ccAllowed
      /\ ccPhase' \in {"index", "served"} /\ ccPhase = "over"
  BY DEF Serve, ccTurn, ccFound
<1>2. ASSUME ccPhase' = "served"
      PROVE  /\ ccCited' \in Seq(CcFiles) /\ ccCited' # <<>>
             /\ Range(ccCited') \subseteq Range(ccEvidence)
             /\ ccReason \in {"none", "invalid_json", "budget_exhausted"}
  <2> DEFINE n == CcMin(TopK, Len(ccEvidence))
  <2>1. /\ ccEvidence \in Seq(CcFiles) /\ ccEvidence # <<>> /\ ccCited' = SubSeq(ccEvidence, 1, n)
        /\ ccReason \notin {"all_providers_failed", "overall_timeout", "crashed"}
    BY <1>2 DEF CcTypeOK, Serve, CcInv
  <2>2. n \in 1 .. Len(ccEvidence)
    BY <2>1, RetrievalAssumption DEF CcMin
  <2> HIDE DEF n
  <2>3. /\ SubSeq(ccEvidence, 1, n) \in Seq(CcFiles) /\ Len(SubSeq(ccEvidence, 1, n)) = n
        /\ \A i \in 1 .. n : SubSeq(ccEvidence, 1, n)[i] = ccEvidence[i]
    BY <2>1, <2>2
  <2>4. Range(ccCited') \subseteq Range(ccEvidence)
    BY <2>1, <2>2, <2>3 DEF Range
  <2> QED
    BY <2>1, <2>2, <2>3, <2>4 DEF CcTypeOK
<1>3. CcTypeOK'
  BY <1>1, <1>2 DEF CcTypeOK, Serve
<1>4. ServedIsFound'
  BY <1>1, <1>2 DEF ServedIsFound, CcInv
<1> QED
  BY <1>1, <1>3, <1>4 DEF CcInv, OvershootIsBounded

LEMMA CcKeeps == CcTypeOK /\ CcInv /\ [CcNext]_ccVars => CcTypeOK' /\ CcInv'
<1> SUFFICES ASSUME CcTypeOK, CcInv, [CcNext]_ccVars PROVE CcTypeOK' /\ CcInv'
  OBVIOUS
<1>1. CASE UNCHANGED ccVars
  BY <1>1 DEF ccVars, ccTurn, ccFound, CcTypeOK, CcInv, ServedIsFound, OvershootIsBounded
<1>2. CASE CcNext
  BY <1>2, RoundKeeps, ProviderKeeps, DecisionKeeps, ToolKeeps, ServeKeeps DEF CcNext
<1> QED
  BY <1>1, <1>2

LEMMA CcFinds == CcInv => ServedIsFound /\ OvershootIsBounded
BY DEF CcInv
-----------------------------------------------------------------------------
(* The benchmark (QaBenchmark).  Where the run stands says how far the artifact is behind, how    *)
(* many samples the judge still needs, and how many lost questions in a row there can be.           *)

Record == [synth : {"pass", "empty", "task_error", "timeout"},
           judge : {"pass", "fail", "skipped"}, completed : BOOLEAN]
Locals == [status : {"unknown", "completed", "failed", "timed_out", "infrastructure_error",
                     "runner_error"},
           synth : {"pass", "empty", "task_error", "timeout"},
           judge : {"pass", "fail", "skipped"}, completed : BOOLEAN, credit : BOOLEAN]
Calls == [samples : Nat, votes : Nat, minimax : BOOLEAN,
          codex : {"none", "hit", "miss", "failed"}, tries : Nat]
Tallies == [infra : Nat, bursts : Nat, seen : Nat, empty : Nat, streak : Nat]
Artifacts == [whole : BOOLEAN, status : {"none", "running", "completed"}, rows : Nat, abort : Aborts]

QaTyped ==
    /\ qaStep \in QaSteps /\ qaMode \in JudgeModes
    /\ qaCur \in Locals /\ qaJudge \in Calls /\ qaRecs \in Seq(Record) /\ qaCount \in Tallies
    /\ qaAbort \in Aborts /\ qaInfra \in BOOLEAN /\ qaDisk \in Artifacts
    /\ qaExit \in {"none", "0", "2"}

\* What is recorded of a question.
Kept(cur) == [f \in {"synth", "judge", "completed"} |-> cur[f]]

LEMMA KeptIs ==
    ASSUME NEW cur \in Locals
    PROVE /\ Kept(cur) \in Record /\ Kept(cur).synth = cur.synth
          /\ Kept(cur).judge = cur.judge /\ (Kept(cur).completed <=> cur.completed)
          /\ (InfraInvalid(Kept(cur)) <=> InfraInvalid(cur)) /\ (Valid(Kept(cur)) <=> Valid(cur))
<1>1. /\ Kept(cur).synth = cur.synth /\ Kept(cur).judge = cur.judge
      /\ Kept(cur).completed = cur.completed
  BY DEF Kept
<1>2. Kept(cur) \in Record
  BY DEF Kept, Record, Locals
<1> QED
  BY <1>1, <1>2 DEF InfraInvalid, Valid

\* What the steps make of the locals of a question.
LEMMA LocalsMove ==
    ASSUME NEW cur \in Locals
    PROVE /\ Fresh \in Locals
          /\ \A x \in {"infrastructure_error", "runner_error"} :
                [cur EXCEPT !.status = x, !.synth = "task_error"] \in Locals
          /\ [cur EXCEPT !.status = "timed_out", !.synth = "timeout"] \in Locals
          /\ \A x \in {"completed", "failed"} :
                [cur EXCEPT !.status = x, !.completed = TRUE] \in Locals
          /\ \A x \in {"pass", "empty", "task_error"} : [cur EXCEPT !.synth = x] \in Locals
          /\ [cur EXCEPT !.completed = TRUE] \in Locals
          /\ [cur EXCEPT !.judge = "fail"] \in Locals
          /\ \A c \in BOOLEAN : [cur EXCEPT !.judge = "pass", !.credit = c] \in Locals
BY DEF Locals, Fresh

\* What the smoke check counts, and when it lets the run go on.
LEMMA SmokeCounts ==
    ASSUME qaCount \in Tallies, NEW sel \in {"right", "empty", "cross"}
    PROVE /\ Smoked(sel) \in Tallies /\ SmokeAbort(sel, Smoked(sel)) \in Aborts
          /\ Smoked(sel).infra = qaCount.infra /\ Smoked(sel).bursts = qaCount.bursts
          /\ SmokeAbort(sel, Smoked(sel)) = "none" =>
                 \/ Smoked(sel).streak < StreakLimit
                 \/ Smoked(sel).streak = qaCount.streak
<1>0. /\ qaCount.seen + 1 \in Nat /\ qaCount.empty + 1 \in Nat /\ qaCount.streak + 1 \in Nat
      /\ 0 < StreakLimit
  BY QaAssumption DEF Tallies
<1>1. CASE sel = "right"
  <2>1. Smoked(sel) = [qaCount EXCEPT !.seen = @ + 1, !.streak = 0]
    BY <1>1 DEF Smoked, Tallies
  <2>2. /\ Smoked(sel) \in Tallies /\ Smoked(sel).infra = qaCount.infra
        /\ Smoked(sel).bursts = qaCount.bursts /\ Smoked(sel).streak = 0
    <3>1. [qaCount EXCEPT !.seen = @ + 1, !.streak = 0] \in Tallies
      BY <1>0 DEF Tallies
    <3> QED
      BY <2>1, <3>1 DEF Tallies
  <2> QED
    BY <1>0, <1>1, <2>2 DEF SmokeAbort, Aborts
<1>2. CASE sel = "cross"
  <2>1. Smoked(sel) = [qaCount EXCEPT !.seen = @ + 1]
    BY <1>2 DEF Smoked, Tallies
  <2>2. /\ Smoked(sel) \in Tallies /\ Smoked(sel).infra = qaCount.infra
        /\ Smoked(sel).bursts = qaCount.bursts
    BY <1>0, <2>1 DEF Tallies
  <2> QED
    BY <1>2, <2>2 DEF SmokeAbort, Aborts
<1>3. CASE sel = "empty"
  <2>1. Smoked(sel) = [qaCount EXCEPT !.seen = @ + 1, !.empty = @ + 1, !.streak = @ + 1]
    BY <1>3 DEF Smoked, Tallies
  <2>2. Smoked(sel) \in Tallies /\ Smoked(sel).infra = qaCount.infra
        /\ Smoked(sel).bursts = qaCount.bursts
    BY <1>0, <2>1 DEF Tallies
  <2> DEFINE c == Smoked(sel)
  <2>3. c.streak \in Nat
    BY <2>2 DEF Tallies
  <2> HIDE DEF c
  <2>4. SmokeAbort(sel, c) \in Aborts
    BY <1>3 DEF SmokeAbort, Aborts
  <2>5. SmokeAbort(sel, c) = "none" => ~(c.streak >= StreakLimit)
    BY <1>3 DEF SmokeAbort
  <2> QED
    BY <2>2, <2>3, <2>4, <2>5, QaAssumption DEF c
<1> QED
  BY <1>1, <1>2, <1>3

\* What the end of a task does.
LEMMA TaskEndsIs ==
    ASSUME QaTyped, TaskEnds
    PROVE /\ qaStep = "poll" /\ qaStep' \in {"judge", "record"} /\ qaCur' \in Locals
          /\ (qaCur'.credit <=> qaCur.credit) /\ qaCur'.completed
          /\ qaCount' \in Tallies /\ qaCount'.infra = qaCount.infra /\ qaCount'.bursts = qaCount.bursts
          /\ qaAbort' \in Aborts /\ qaInfra' \in BOOLEAN
          /\ qaAbort' = "none" => /\ qaAbort = "none"
                                 /\ \/ qaCount'.streak < StreakLimit
                                    \/ qaCount'.streak = qaCount.streak
          /\ UNCHANGED <<qaMode, qaJudge, qaRecs, qaDisk, qaExit>>
<1>1. PICK status \in {"completed", "failed"}, answered \in BOOLEAN,
           sel \in (IF Row \in Sourced THEN {"right", "empty", "cross"} ELSE {"any"}) :
     LET cur == [qaCur EXCEPT !.status = status, !.completed = TRUE]
         c == IF sel = "any" THEN qaCount ELSE Smoked(sel)
         why == SmokeAbort(sel, c)
     IN /\ qaCount' = c
        /\ \/ /\ why # "none"
              /\ Raised(cur, "infrastructure_error") /\ qaAbort' = why
           \/ /\ why = "none" /\ answered
              /\ qaCur' = [cur EXCEPT !.synth = "pass"]
              /\ qaStep' = "judge" /\ UNCHANGED <<qaInfra, qaAbort>>
           \/ /\ why = "none" /\ ~answered
              /\ qaCur' = [cur EXCEPT !.synth = IF status = "completed" THEN "empty"
                                                                       ELSE "task_error"]
              /\ qaStep' = "record" /\ UNCHANGED <<qaInfra, qaAbort>>
  BY DEF TaskEnds
<1> DEFINE cur == [qaCur EXCEPT !.status = status, !.completed = TRUE]
           c == IF sel = "any" THEN qaCount ELSE Smoked(sel)
           why == SmokeAbort(sel, c)
<1>0. qaCur \in Locals /\ qaCount \in Tallies
  BY DEF QaTyped
<1>2. cur \in Locals /\ (cur.credit <=> qaCur.credit) /\ cur.completed
  <2>1. cur \in Locals
    BY <1>0, LocalsMove
  <2> QED
    BY <1>0, <2>1 DEF Locals
<1>3. /\ c \in Tallies /\ why \in Aborts
      /\ c.infra = qaCount.infra /\ c.bursts = qaCount.bursts
      /\ why = "none" => c.streak < StreakLimit \/ c.streak = qaCount.streak
  <2>1. CASE sel = "any"
    BY <1>0, <2>1 DEF SmokeAbort, Aborts
  <2>2. CASE sel \in {"right", "empty", "cross"}
    BY <1>0, <2>2, SmokeCounts
  <2> QED
    BY <2>1, <2>2
<1> HIDE DEF cur, c, why
<1>4. /\ qaCount' = c
      /\ \/ why # "none" /\ Raised(cur, "infrastructure_error") /\ qaAbort' = why
         \/ /\ \E x \in {"pass", "empty", "task_error"} : qaCur' = [cur EXCEPT !.synth = x]
            /\ why = "none" /\ qaStep' \in {"judge", "record"} /\ UNCHANGED <<qaInfra, qaAbort>>
  BY <1>1 DEF cur, c, why
<1>5. CASE why # "none" /\ Raised(cur, "infrastructure_error") /\ qaAbort' = why
  <2>1. qaCur' = [cur EXCEPT !.status = "infrastructure_error", !.synth = "task_error"]
    BY <1>5 DEF Raised
  <2>2. qaCur' \in Locals /\ (qaCur'.credit <=> cur.credit) /\ (qaCur'.completed <=> cur.completed)
    <3>1. qaCur' \in Locals
      BY <1>2, <2>1, LocalsMove
    <3> QED
      BY <1>2, <2>1, <3>1 DEF Locals
  <2> QED
    BY <1>2, <1>3, <1>4, <1>5, <2>2 DEF TaskEnds, Raised
<1>6. ASSUME NEW x \in {"pass", "empty", "task_error"}, qaCur' = [cur EXCEPT !.synth = x],
             why = "none", qaStep' \in {"judge", "record"}, UNCHANGED <<qaInfra, qaAbort>>
      PROVE /\ qaCur' \in Locals /\ (qaCur'.credit <=> qaCur.credit) /\ qaCur'.completed
  <2>1. qaCur' \in Locals /\ (qaCur'.credit <=> cur.credit) /\ (qaCur'.completed <=> cur.completed)
    <3>1. qaCur' \in Locals
      BY <1>2, <1>6, LocalsMove
    <3> QED
      BY <1>2, <1>6, <3>1 DEF Locals
  <2> QED
    BY <1>2, <2>1
<1> QED
  BY <1>3, <1>4, <1>5, <1>6 DEF TaskEnds, QaTyped

\* The counters after a question was recorded.
LEMMA CountsKept ==
    ASSUME QaTyped, Recorded
    PROVE LET lost == IF InfraInvalid(qaCur) THEN qaCount.infra + 1 ELSE 0
              bursts == qaCount.bursts + (IF Burst(lost) THEN 1 ELSE 0)
          IN /\ qaCount' \in Tallies /\ qaCount'.bursts = bursts
             /\ qaCount'.infra = IF Burst(lost) /\ ~PauseOn THEN 0 ELSE lost
             /\ qaCount'.streak = qaCount.streak /\ lost \in Nat /\ bursts \in Nat
<1> DEFINE lost == IF InfraInvalid(qaCur) THEN qaCount.infra + 1 ELSE 0
           bursts == qaCount.bursts + (IF Burst(lost) THEN 1 ELSE 0)
           infra == IF Burst(lost) /\ ~PauseOn THEN 0 ELSE lost
<1>1. qaCount \in Tallies
  BY DEF QaTyped
<1>2. lost \in Nat
  BY <1>1 DEF Tallies
<1> HIDE DEF lost
<1>3. bursts \in Nat /\ infra \in Nat
  BY <1>1, <1>2 DEF Tallies
<1>4. qaCount' = [qaCount EXCEPT !.infra = infra, !.bursts = bursts]
  BY DEF Recorded, lost
<1> HIDE DEF bursts, infra
<1>5. qaCount' \in Tallies /\ qaCount'.bursts = bursts /\ qaCount'.infra = infra
      /\ qaCount'.streak = qaCount.streak
  BY <1>1, <1>3, <1>4 DEF Tallies
<1> QED
  BY <1>2, <1>3, <1>5 DEF lost, bursts, infra

\* Every step of the run keeps these types.
LEMMA QaTypedKept == QaTyped /\ [QaNext]_qaVars => QaTyped'
<1> SUFFICES ASSUME QaTyped, [QaNext]_qaVars PROVE QaTyped'
  OBVIOUS
<1>0. /\ qaCur \in Locals /\ qaJudge \in Calls /\ qaRecs \in Seq(Record) /\ qaCount \in Tallies
      /\ qaAbort \in Aborts /\ qaDisk \in Artifacts /\ NoCalls \in Calls /\ Opened \in Artifacts
      /\ \A x \in {"running", "completed"} : Written(x) \in Artifacts
  BY DEF QaTyped, NoCalls, Calls, Opened, Written, Artifacts, Aborts
<1>1. CASE Preflight \/ Reach
  BY <1>1 DEF Preflight, Reach, QaTyped, QaSteps
<1>2. CASE Submit
  <2>1. Fresh \in Locals
    BY <1>0, LocalsMove
  <2>2. [Fresh EXCEPT !.status = "infrastructure_error", !.synth = "task_error"] \in Locals
    BY <2>1, LocalsMove
  <2> QED
    BY <1>0, <1>2, <2>1, <2>2 DEF Submit, Raised, QaTyped, QaSteps
<1>3. CASE PollFails \/ PollTimesOut
  BY <1>0, <1>3, LocalsMove DEF PollFails, PollTimesOut, Raised, QaTyped, QaSteps
<1>4. CASE TaskEnds
  BY <1>4, TaskEndsIs DEF QaTyped, QaSteps
<1>5. CASE ReadFails
  <2>1. [qaCur EXCEPT !.completed = TRUE] \in Locals
    BY <1>0, LocalsMove
  <2> QED
    BY <1>0, <1>5, <2>1, LocalsMove DEF ReadFails, Raised, QaTyped, QaSteps
<1>6. ASSUME NEW hit \in BOOLEAN, Sampled(hit)
      PROVE qaJudge' \in Calls /\ qaCur' \in Locals /\ qaStep' \in QaSteps
  <2> DEFINE v == qaJudge.votes + (IF hit THEN 1 ELSE 0)
             enough == v > Votes \div 2
  <2>0. v \in Nat /\ qaJudge.samples + 1 \in Nat /\ enough \in BOOLEAN
    BY <1>0 DEF Calls
  <2>9. \/ /\ qaJudge' = [qaJudge EXCEPT !.samples = @ + 1, !.votes = v, !.tries = 0]
           /\ UNCHANGED qaCur
        \/ /\ qaJudge' = [qaJudge EXCEPT !.samples = @ + 1, !.votes = v]
           /\ qaCur' = [qaCur EXCEPT !.judge = "pass", !.credit = enough]
    BY <1>6 DEF Sampled, JudgePasses
  <2> HIDE DEF v, enough
  <2>1. qaJudge' \in Calls
    <3>1. [qaJudge EXCEPT !.samples = @ + 1, !.votes = v, !.tries = 0] \in Calls
      BY <1>0, <2>0 DEF Calls
    <3>2. [qaJudge EXCEPT !.samples = @ + 1, !.votes = v] \in Calls
      BY <1>0, <2>0 DEF Calls
    <3> QED
      BY <2>9, <3>1, <3>2
  <2>2. UNCHANGED qaCur \/ \E x \in BOOLEAN : qaCur' = [qaCur EXCEPT !.judge = "pass", !.credit = x]
    BY <2>0, <2>9
  <2>3. qaStep' \in {"judge", "record"}
    BY <1>6 DEF Sampled, JudgePasses
  <2> QED
    BY <1>0, <2>1, <2>2, <2>3, LocalsMove DEF QaSteps
<1>7. ASSUME NEW x \in BOOLEAN, JudgePasses(x) PROVE qaCur' \in Locals /\ qaStep' \in QaSteps
  BY <1>0, <1>7, LocalsMove DEF JudgePasses, QaSteps
<1>8. ASSUME JudgeFails PROVE qaCur' \in Locals /\ qaStep' \in QaSteps
  BY <1>0, <1>8, LocalsMove DEF JudgeFails, QaSteps
<1>9. CASE RuleJudges
  BY <1>7, <1>9 DEF RuleJudges, QaTyped
<1>10. CASE ModelJudges
  BY <1>6, <1>7, <1>8, <1>10 DEF ModelJudges, QaTyped
<1>11. CASE MiniMaxJudges
  <2>1. \A hit \in BOOLEAN : [qaJudge EXCEPT !.minimax = hit] \in Calls
    BY <1>0 DEF Calls
  <2> QED
    BY <1>0, <1>8, <1>11, <2>1 DEF MiniMaxJudges, QaTyped, QaSteps
<1>12. CASE CodexJudges
  <2>1. \A x \in {"hit", "miss", "failed"} : [qaJudge EXCEPT !.codex = x] \in Calls
    BY <1>0 DEF Calls
  <2>2. \A hit \in BOOLEAN : (hit /\ qaJudge.minimax) \in BOOLEAN
    OBVIOUS
  <2>3. qaJudge' \in Calls /\ qaCur' \in Locals /\ qaStep' \in QaSteps
    BY <1>6, <1>7, <1>8, <1>12, <2>1, <2>2 DEF CodexJudges
  <2> QED
    BY <1>12, <2>3 DEF CodexJudges, QaTyped
<1>13. CASE CodexIsLimited
  <2>1. [qaJudge EXCEPT !.tries = 1] \in Calls
    BY <1>0 DEF Calls
  <2> QED
    BY <1>13, <2>1 DEF CodexIsLimited, QaTyped
<1>14. CASE Recorded
  <2>1. qaRecs' \in Seq(Record)
    BY <1>0, <1>14, KeptIs DEF Recorded, Kept
  <2>2. qaCount' \in Tallies
    BY <1>14, CountsKept
  <2> QED
    BY <1>0, <1>14, <2>1, <2>2, LocalsMove DEF Recorded, QaTyped, QaSteps, Aborts
<1>15. CASE Paused
  <2>1. qaCount' \in Tallies
    BY <1>0, <1>15 DEF Paused, Tallies
  <2> QED
    BY <1>0, <1>15, <2>1 DEF Paused, QaTyped, QaSteps, Aborts
<1>16. CASE OpensArtifact \/ WritesArtifact
  BY <1>0, <1>16 DEF OpensArtifact, WritesArtifact, QaTyped, QaSteps
<1>17. CASE QaFinish
  BY <1>0, <1>17 DEF QaFinish, QaTyped, QaSteps
<1>18. CASE Killed
  BY <1>0, <1>18, LocalsMove DEF Killed, QaTyped, QaSteps
<1>19. CASE UNCHANGED qaVars
  BY <1>19 DEF qaVars, QaTyped
<1> QED
  BY <1>1, <1>2, <1>3, <1>4, <1>5, <1>9, <1>10, <1>11, <1>12, <1>13, <1>14, <1>15, <1>16, <1>17,
     <1>18, <1>19 DEF QaNext, QaRuns

\* The judge needs another sample while it judges, and the credit of the models is agreed.
JudgeInv ==
    /\ qaStep = "poll" => qaJudge = NoCalls
    /\ qaStep = "judge" => qaJudge.samples < Votes
    /\ qaStep = "codex" => qaMode = "hybrid_v2"
    /\ qaCur.credit => qaStep = "record"
    /\ CreditIsAgreed

\* The artifact is behind by the question that was recorded and not written.
ArtifactInv ==
    /\ qaStep \in {"preflight", "reach"} =>
           qaDisk.whole /\ Len(qaRecs) = 0 /\ qaDisk.rows = 0 /\ qaDisk.status # "completed"
    /\ qaStep \in {"ask", "poll", "judge", "codex", "record"} =>
           qaDisk.whole /\ qaDisk.rows = Len(qaRecs) /\ qaDisk.status # "completed"
    /\ qaStep \in {"pause", "open"} =>
           qaDisk.whole /\ qaDisk.rows + 1 = Len(qaRecs) /\ qaDisk.status # "completed"
    /\ qaStep = "write" => ~qaDisk.whole /\ qaDisk.status # "completed"
    /\ qaStep = "finish" => \/ qaDisk = Written("completed")
                            \/ qaDisk.status # "completed" /\ (qaDisk.whole => qaDisk.rows = Len(qaRecs))
    /\ qaStep = "over" => qaDisk = Written("completed")
    /\ qaStep = "killed" /\ qaDisk.whole => Len(qaRecs) - qaDisk.rows \in {0, 1}
    /\ qaExit # "none" => qaStep = "over"

\* What a run that ends without a complaint has behind it.
CleanInv ==
    /\ qaCur.synth = "pass" => qaCur.completed
    /\ \A i \in DOMAIN qaRecs : qaRecs[i].synth = "pass" => qaRecs[i].completed
    /\ qaCount.bursts > 0 => \E i \in DOMAIN qaRecs : InfraInvalid(qaRecs[i])
    /\ qaStep \in {"preflight", "reach", "ask", "poll"} => qaAbort = "none"
    /\ qaAbort = "none" => qaCount.streak < StreakLimit
    /\ qaStep \in {"finish", "over"} /\ qaAbort = "none" /\ ~qaInfra => Len(qaRecs) = Rows
    /\ qaExit = "0" => /\ qaAbort = "none" /\ ~qaInfra
                       /\ \A i \in DOMAIN qaRecs : Valid(qaRecs[i])

\* What a sample does.
LEMMA SampleAgrees ==
    ASSUME QaTyped, JudgeInv, NEW hit \in BOOLEAN, Sampled(hit), UNCHANGED qaMode,
           qaStep = "judge", qaMode \in {"single", "codex", "hybrid"}
    PROVE JudgeInv'
<1>1. /\ qaCur \in Locals /\ qaJudge \in Calls /\ Votes \in Nat /\ Votes' = Votes
      /\ qaJudge.samples < Votes /\ ~qaCur.credit
  BY QaAssumption DEF QaTyped, Votes, JudgeInv
<1>2. qaJudge.samples \in Nat /\ qaJudge.votes \in Nat
  BY <1>1 DEF Calls
<1>3. CASE qaJudge.samples + 1 < Votes
  <2>1. qaStep' = "judge" /\ qaCur' = qaCur /\ qaJudge'.samples = qaJudge.samples + 1
    BY <1>1, <1>3, <1>2 DEF Sampled, Calls
  <2> QED
    BY <1>1, <1>3, <2>1 DEF JudgeInv, CreditIsAgreed
<1>4. CASE ~(qaJudge.samples + 1 < Votes)
  <2> DEFINE v == qaJudge.votes + (IF hit THEN 1 ELSE 0)
  <2>1. /\ qaStep' = "record" /\ qaJudge'.samples = qaJudge.samples + 1 /\ qaJudge'.votes = v
        /\ qaCur'.judge = "pass" /\ (qaCur'.credit <=> v > Votes \div 2) /\ v \in Nat
    <3> DEFINE enough == v > Votes \div 2
    <3>1. /\ qaJudge' = [qaJudge EXCEPT !.samples = @ + 1, !.votes = v] /\ qaStep' = "record"
          /\ qaCur' = [qaCur EXCEPT !.judge = "pass", !.credit = enough]
      BY <1>4 DEF Sampled, JudgePasses
    <3>2. v \in Nat
      BY <1>2
    <3> HIDE DEF v, enough
    <3>3. qaJudge'.samples = qaJudge.samples + 1 /\ qaJudge'.votes = v
      BY <1>1, <3>1 DEF Calls
    <3>4. qaCur'.judge = "pass" /\ (qaCur'.credit <=> enough)
      BY <1>1, <3>1 DEF Locals
    <3> QED
      BY <3>1, <3>2, <3>3, <3>4 DEF enough
  <2> HIDE DEF v
  <2>2. qaJudge'.samples = Votes
    BY <1>1, <1>2, <1>4, <2>1
  <2>3. v > Votes \div 2 => 2 * v > Votes
    BY <1>1, <2>1
  <2> QED
    BY <1>1, <2>1, <2>2, <2>3 DEF JudgeInv, CreditIsAgreed
<1> QED
  BY <1>3, <1>4

LEMMA JudgeKept == QaTyped /\ JudgeInv /\ [QaNext]_qaVars => JudgeInv'
<1> SUFFICES ASSUME QaTyped, JudgeInv, [QaNext]_qaVars PROVE JudgeInv'
  OBVIOUS
<1>0. /\ qaCur \in Locals /\ qaJudge \in Calls /\ Votes \in Nat /\ Votes > 0 /\ NoCalls.samples = 0
      /\ ~Fresh.credit
  BY QaAssumption DEF QaTyped, Votes, NoCalls, Fresh
<1>1. CASE Preflight \/ Reach \/ OpensArtifact \/ WritesArtifact \/ QaFinish \/ Paused
           \/ UNCHANGED qaVars
  BY <1>1 DEF Preflight, Reach, OpensArtifact, WritesArtifact, QaFinish, Paused, qaVars, JudgeInv,
              CreditIsAgreed, Votes
<1>2. CASE Submit \/ Recorded \/ Killed
  BY <1>0, <1>2 DEF Submit, Raised, Recorded, Killed, JudgeInv, CreditIsAgreed, Fresh
<1>3. CASE PollFails \/ PollTimesOut \/ ReadFails
  BY <1>0, <1>3 DEF PollFails, PollTimesOut, ReadFails, Raised, JudgeInv, CreditIsAgreed, Locals
<1>4. CASE TaskEnds
  <2>1. qaStep = "poll" /\ UNCHANGED <<qaJudge, qaMode>> /\ qaStep' \in {"judge", "record"}
        /\ (qaCur'.credit <=> qaCur.credit)
    BY <1>4, TaskEndsIs
  <2> QED
    BY <1>0, <2>1 DEF JudgeInv, CreditIsAgreed, Votes
<1>5. CASE RuleJudges
  BY <1>0, <1>5 DEF RuleJudges, JudgePasses, JudgeInv, CreditIsAgreed, Locals
<1>6. CASE ModelJudges
  <2>1. qaStep = "judge" /\ qaMode \in {"single", "hybrid"} /\ UNCHANGED qaMode /\ ~qaCur.credit
    BY <1>6 DEF ModelJudges, JudgeInv
  <2>2. CASE \E hit \in BOOLEAN : Sampled(hit)
    BY <2>1, <2>2, SampleAgrees
  <2>3. CASE JudgePasses(FALSE) \/ JudgeFails
    BY <1>0, <2>1, <2>3 DEF JudgePasses, JudgeFails, JudgeInv, CreditIsAgreed, Locals
  <2> QED
    BY <1>6, <2>2, <2>3 DEF ModelJudges
<1>7. CASE MiniMaxJudges
  BY <1>0, <1>7 DEF MiniMaxJudges, JudgeFails, JudgeInv, CreditIsAgreed, Locals
<1>8. CASE CodexJudges
  <2>1. UNCHANGED qaMode /\ ~qaCur.credit /\ (qaMode = "codex" => qaStep = "judge")
        /\ (qaMode # "codex" => qaMode = "hybrid_v2")
    BY <1>8 DEF CodexJudges, AsksCodex, JudgeInv
  <2>2. CASE qaMode = "codex" /\ \E hit \in BOOLEAN : Sampled(hit)
    BY <2>1, <2>2, SampleAgrees
  <2>3. CASE qaMode = "codex" /\ JudgeFails
    BY <1>0, <2>1, <2>3 DEF JudgeFails, JudgeInv, CreditIsAgreed, Locals
  <2>4. ASSUME qaMode # "codex", NEW hit \in BOOLEAN,
               qaJudge' = [qaJudge EXCEPT !.codex = IF hit THEN "hit" ELSE "miss"],
               JudgePasses(hit /\ qaJudge.minimax)
        PROVE JudgeInv'
    <3>1. (qaJudge'.minimax <=> qaJudge.minimax) /\ (hit => qaJudge'.codex = "hit")
      BY <1>0, <2>4 DEF Calls
    <3>2. /\ qaStep' = "record" /\ qaCur'.judge = "pass"
          /\ (qaCur'.credit <=> hit /\ qaJudge.minimax)
      BY <1>0, <2>4 DEF JudgePasses, Locals
    <3> QED
      BY <2>1, <2>4, <3>1, <3>2 DEF JudgeInv, CreditIsAgreed
  <2>5. CASE qaMode # "codex" /\ JudgePasses(FALSE)
    BY <1>0, <2>1, <2>5 DEF JudgePasses, JudgeInv, CreditIsAgreed, Locals
  <2> QED
    BY <1>8, <2>2, <2>3, <2>4, <2>5 DEF CodexJudges
<1>9. CASE CodexIsLimited
  <2>1. qaJudge'.samples = qaJudge.samples /\ qaStep \in {"judge", "codex"}
        /\ UNCHANGED <<qaStep, qaMode, qaCur>>
    BY <1>0, <1>9 DEF CodexIsLimited, AsksCodex, Calls
  <2> QED
    BY <2>1 DEF JudgeInv, CreditIsAgreed, Votes
<1> QED
  BY <1>1, <1>2, <1>3, <1>4, <1>5, <1>6, <1>7, <1>8, <1>9 DEF QaNext, QaRuns

LEMMA ArtifactKept == QaTyped /\ ArtifactInv /\ [QaNext]_qaVars => ArtifactInv'
<1> SUFFICES ASSUME QaTyped, ArtifactInv, [QaNext]_qaVars PROVE ArtifactInv'
  OBVIOUS
<1>0. qaDisk \in Artifacts /\ qaDisk.rows \in Nat /\ Len(qaRecs) \in Nat
  BY DEF QaTyped, Artifacts
<1>1. CASE Preflight \/ Reach
  BY <1>1 DEF Preflight, Reach, ArtifactInv
<1>2. CASE Submit \/ PollFails \/ PollTimesOut \/ ReadFails \/ TaskEnds \/ RuleJudges
           \/ ModelJudges \/ MiniMaxJudges \/ CodexJudges \/ CodexIsLimited
  <2>1. /\ qaStep \in {"ask", "poll", "judge", "codex", "record"}
        /\ qaStep' \in {"ask", "poll", "judge", "codex", "record"}
        /\ UNCHANGED <<qaRecs, qaDisk, qaExit>>
    <3>1. CASE Submit \/ PollFails \/ PollTimesOut \/ ReadFails \/ CodexIsLimited
      BY <3>1 DEF Submit, PollFails, PollTimesOut, ReadFails, CodexIsLimited, Raised, AsksCodex
    <3>2. CASE TaskEnds
      BY <3>2, TaskEndsIs
    <3>3. CASE RuleJudges \/ ModelJudges \/ MiniMaxJudges \/ CodexJudges
      BY <3>3 DEF RuleJudges, ModelJudges, MiniMaxJudges, CodexJudges, AsksCodex, Sampled,
                  JudgePasses, JudgeFails
    <3> QED
      BY <1>2, <3>1, <3>2, <3>3
  <2> QED
    BY <2>1 DEF ArtifactInv
<1>3. CASE Recorded
  <2>1. /\ qaStep = "record" /\ qaStep' \in {"pause", "open"} /\ UNCHANGED <<qaDisk, qaExit>>
        /\ Len(qaRecs') = Len(qaRecs) + 1
    BY <1>0, <1>3 DEF Recorded, QaTyped
  <2> QED
    BY <1>0, <2>1 DEF ArtifactInv
<1>4. CASE Paused
  BY <1>4 DEF Paused, ArtifactInv
<1>5. CASE OpensArtifact
  BY <1>5 DEF OpensArtifact, Opened, ArtifactInv
<1>6. CASE WritesArtifact
  <2>1. /\ qaDisk'.whole /\ qaDisk'.rows = Len(qaRecs) /\ qaDisk'.status = "running"
        /\ qaStep' \in {"finish", "ask"} /\ qaStep = "write" /\ UNCHANGED <<qaRecs, qaExit>>
    BY <1>6 DEF WritesArtifact, Written
  <2> QED
    BY <2>1 DEF ArtifactInv
<1>7. CASE QaFinish
  <2>0. qaStep = "finish" /\ UNCHANGED <<qaRecs, qaAbort>>
    BY <1>7 DEF QaFinish
  <2>1. CASE qaDisk.status = "completed"
    <3>1. qaStep' = "over" /\ qaDisk' = qaDisk
      BY <1>7, <2>1 DEF QaFinish
    <3> QED
      BY <2>0, <2>1, <3>1 DEF ArtifactInv, Written
  <2>2. CASE qaDisk.status # "completed"
    <3>1. qaStep' = "finish" /\ (qaDisk' = Opened \/ qaDisk' = Written("completed")) /\ UNCHANGED qaExit
      BY <1>7, <2>0, <2>2 DEF QaFinish
    <3> QED
      BY <2>0, <2>2, <3>1 DEF ArtifactInv, Written, Opened
  <2> QED
    BY <2>1, <2>2
<1>8. CASE Killed
  <2>1. /\ qaStep \in QaSteps /\ qaStep \notin {"over", "killed"} /\ qaStep' = "killed"
        /\ UNCHANGED <<qaRecs, qaDisk, qaExit>>
    BY <1>8 DEF Killed, QaTyped
  <2>2. qaDisk = Written("completed") => qaDisk.rows = Len(qaRecs)
    BY DEF Written
  <2>3. qaDisk.whole => Len(qaRecs) - qaDisk.rows \in {0, 1}
    BY <1>0, <2>1, <2>2 DEF ArtifactInv, QaSteps
  <2>4. qaExit = "none"
    BY <2>1 DEF ArtifactInv
  <2> QED
    BY <2>1, <2>3, <2>4 DEF ArtifactInv
<1>9. CASE UNCHANGED qaVars
  BY <1>9 DEF qaVars, ArtifactInv, Written
<1> QED
  BY <1>1, <1>2, <1>3, <1>4, <1>5, <1>6, <1>7, <1>8, <1>9 DEF QaNext, QaRuns

LEMMA CleanKept == QaTyped /\ ArtifactInv /\ CleanInv /\ [QaNext]_qaVars => CleanInv'
<1> SUFFICES ASSUME QaTyped, ArtifactInv, CleanInv, [QaNext]_qaVars PROVE CleanInv'
  OBVIOUS
<1>0. /\ qaCur \in Locals /\ qaRecs \in Seq(Record) /\ qaCount \in Tallies
      /\ Fresh.synth # "pass" /\ qaExit \in {"none", "0", "2"}
      /\ qaStep # "over" => qaExit = "none"
  BY DEF QaTyped, Fresh, ArtifactInv
<1>1. CASE Preflight \/ Reach
  BY <1>0, <1>1 DEF Preflight, Reach, CleanInv
<1>2. CASE Submit
  BY <1>0, <1>2 DEF Submit, Raised, CleanInv, Fresh
<1>3. CASE PollFails \/ PollTimesOut
  BY <1>0, <1>3 DEF PollFails, PollTimesOut, Raised, CleanInv, Locals
<1>4. CASE TaskEnds
  BY <1>0, <1>4, TaskEndsIs DEF CleanInv
<1>5. CASE ReadFails
  BY <1>0, <1>5 DEF ReadFails, Raised, CleanInv, Locals
<1>6. CASE RuleJudges \/ ModelJudges \/ MiniMaxJudges \/ CodexJudges \/ CodexIsLimited
  <2>1. /\ UNCHANGED <<qaRecs, qaCount, qaAbort, qaInfra, qaExit>>
        /\ qaStep \in {"judge", "codex"} /\ qaStep' \in {"judge", "codex", "record"}
        /\ \/ UNCHANGED qaCur
           \/ \E c : qaCur' = [qaCur EXCEPT !.judge = "pass", !.credit = c]
           \/ qaCur' = [qaCur EXCEPT !.judge = "fail"]
    BY <1>6 DEF RuleJudges, ModelJudges, MiniMaxJudges, CodexJudges, CodexIsLimited, AsksCodex,
                Sampled, JudgePasses, JudgeFails
  <2>2. qaCur'.synth = qaCur.synth /\ (qaCur'.completed <=> qaCur.completed)
    BY <1>0, <2>1 DEF Locals
  <2> QED
    BY <1>0, <2>1, <2>2 DEF CleanInv
<1>7. CASE Recorded
  <2>1. /\ qaStep = "record" /\ qaStep' \in {"pause", "open"} /\ qaCur' = Fresh
        /\ qaRecs' = Append(qaRecs, Kept(qaCur)) /\ UNCHANGED <<qaInfra, qaExit>>
        /\ qaAbort' = "none" => qaAbort = "none"
    BY <1>7 DEF Recorded, Kept
  <2>2. /\ qaCount'.streak = qaCount.streak
        /\ InfraInvalid(qaCur) \/ qaCount'.bursts = qaCount.bursts
    BY <1>0, <1>7, CountsKept DEF Burst, Tallies
  <2>3. /\ DOMAIN qaRecs' = 1..(Len(qaRecs) + 1) /\ DOMAIN qaRecs = 1..Len(qaRecs)
        /\ \A i \in DOMAIN qaRecs : qaRecs'[i] = qaRecs[i]
        /\ qaRecs'[Len(qaRecs) + 1] = Kept(qaCur) /\ Len(qaRecs) \in Nat
    BY <1>0, <2>1, KeptIs
  <2>4. /\ Kept(qaCur).synth = qaCur.synth /\ (Kept(qaCur).completed <=> qaCur.completed)
        /\ InfraInvalid(Kept(qaCur)) <=> InfraInvalid(qaCur)
    BY <1>0, KeptIs
  <2>5. \A i \in DOMAIN qaRecs' : i \in DOMAIN qaRecs \/ i = Len(qaRecs) + 1
    BY <2>3
  <2>6. DOMAIN qaRecs \subseteq DOMAIN qaRecs' /\ Len(qaRecs) + 1 \in DOMAIN qaRecs'
    BY <2>3
  <2>7. \A i \in DOMAIN qaRecs' : qaRecs'[i].synth = "pass" => qaRecs'[i].completed
    BY <2>3, <2>4, <2>5 DEF CleanInv
  <2>8. qaCount'.bursts > 0 => \E i \in DOMAIN qaRecs' : InfraInvalid(qaRecs'[i])
    <3>1. CASE InfraInvalid(qaCur)
      BY <2>3, <2>4, <2>6, <3>1
    <3>2. CASE qaCount'.bursts = qaCount.bursts
      BY <2>3, <2>6, <3>2 DEF CleanInv
    <3> QED
      BY <2>2, <3>1, <3>2
  <2> QED
    BY <1>0, <2>1, <2>2, <2>7, <2>8 DEF CleanInv
<1>8. CASE Paused
  <2>1. qaCount'.bursts = qaCount.bursts /\ qaCount'.streak = qaCount.streak
    BY <1>0, <1>8 DEF Paused, Tallies
  <2> QED
    BY <1>0, <1>8, <2>1 DEF Paused, CleanInv
<1>9. CASE OpensArtifact
  BY <1>0, <1>9 DEF OpensArtifact, CleanInv
<1>10. CASE WritesArtifact
  BY <1>0, <1>10 DEF WritesArtifact, CleanInv
<1>11. CASE QaFinish
  BY <1>0, <1>11 DEF QaFinish, CleanInv
<1>12. CASE Killed
  BY <1>0, <1>12 DEF Killed, CleanInv
<1>13. CASE UNCHANGED qaVars
  BY <1>13 DEF qaVars, CleanInv
<1> QED
  BY <1>1, <1>2, <1>3, <1>4, <1>5, <1>6, <1>7, <1>8, <1>9, <1>10, <1>11, <1>12, <1>13
     DEF QaNext, QaRuns

\* How many lost questions in a row there can be, before the pause of a burst and after it.
Lost(k) == \A i \in (Len(qaRecs) - k + 1) .. Len(qaRecs) : InfraInvalid(qaRecs[i])

TailInv ==
    PauseOn /\ qaAbort = "none" =>
        /\ qaCount.bursts <= Backoffs
        /\ qaStep \notin {"pause", "killed"} =>
              /\ qaCount.infra <= BurstThreshold - 1
              /\ \A k \in 0..Len(qaRecs) :
                    Lost(k) => k <= qaCount.bursts * BurstThreshold + qaCount.infra
        /\ qaStep = "pause" =>
              \A k \in 0..Len(qaRecs) : Lost(k) => k <= qaCount.bursts * BurstThreshold

\* A lost tail with one question more is one that was lost and this question.
LEMMA LostGrows ==
    ASSUME QaTyped, qaRecs' = Append(qaRecs, Kept(qaCur)), NEW k \in 0..Len(qaRecs'), Lost(k)'
    PROVE \/ k = 0
          \/ /\ InfraInvalid(qaCur) /\ k - 1 \in 0..Len(qaRecs)
             /\ Lost(k - 1)
<1> SUFFICES ASSUME k # 0 PROVE /\ InfraInvalid(qaCur) /\ k - 1 \in 0..Len(qaRecs) /\ Lost(k - 1)
  OBVIOUS
<1>0. qaRecs \in Seq(Record) /\ qaCur \in Locals /\ Kept(qaCur) \in Record /\ Len(qaRecs) \in Nat
  BY KeptIs DEF QaTyped
<1>1. /\ Len(qaRecs') = Len(qaRecs) + 1 /\ qaRecs'[Len(qaRecs) + 1] = Kept(qaCur)
      /\ \A i \in 1..Len(qaRecs) : qaRecs'[i] = qaRecs[i]
  BY <1>0
<1>2. k \in 1..(Len(qaRecs) + 1)
  BY <1>0, <1>1
<1>3. \A i \in (Len(qaRecs) + 2 - k)..(Len(qaRecs) + 1) : InfraInvalid(qaRecs'[i])
  <2>1. Len(qaRecs') - k + 1 = Len(qaRecs) + 2 - k
    BY <1>0, <1>1, <1>2
  <2> QED
    BY <1>1, <2>1 DEF Lost
<1>4. InfraInvalid(qaCur)
  <2>1. Len(qaRecs) + 1 \in (Len(qaRecs) + 2 - k)..(Len(qaRecs) + 1)
    BY <1>0, <1>2
  <2> QED
    BY <1>0, <1>1, <1>3, <2>1, KeptIs
<1>5. Lost(k - 1)
  <2> SUFFICES ASSUME NEW i \in (Len(qaRecs) - (k - 1) + 1) .. Len(qaRecs)
               PROVE InfraInvalid(qaRecs[i])
    BY DEF Lost
  <2>1. i \in (Len(qaRecs) + 2 - k)..(Len(qaRecs) + 1) /\ i \in 1..Len(qaRecs)
    BY <1>0, <1>2
  <2> QED
    BY <1>1, <1>3, <2>1
<1> QED
  BY <1>0, <1>2, <1>4, <1>5

LEMMA TailKept == QaTyped /\ TailInv /\ [QaNext]_qaVars => TailInv'
<1> SUFFICES ASSUME QaTyped, TailInv, [QaNext]_qaVars PROVE TailInv'
  OBVIOUS
<1>0. /\ qaCount \in Tallies /\ qaCount.infra \in Nat /\ qaCount.bursts \in Nat
      /\ qaRecs \in Seq(Record) /\ BurstThreshold \in Nat \ {0} /\ Backoffs \in Nat /\ PauseOn \in BOOLEAN
  BY QaAssumption DEF QaTyped, Tallies
<1>1. ASSUME qaAbort' = "none" => qaAbort = "none", UNCHANGED qaRecs,
             qaCount'.bursts = qaCount.bursts, qaCount'.infra = qaCount.infra,
             qaStep # "pause", qaStep' # "pause", qaStep # "killed"
      PROVE TailInv'
  BY <1>1 DEF TailInv, Lost
<1>2. CASE Preflight \/ Reach \/ OpensArtifact \/ WritesArtifact \/ QaFinish
  <2>1. /\ UNCHANGED <<qaAbort, qaRecs, qaCount>>
        /\ qaStep \notin {"pause", "killed"} /\ qaStep' # "pause"
    BY <1>2 DEF Preflight, Reach, OpensArtifact, WritesArtifact, QaFinish
  <2> QED
    BY <1>1, <2>1
<1>3. CASE Submit \/ PollFails \/ PollTimesOut \/ ReadFails \/ CodexIsLimited
  <2>1. /\ UNCHANGED <<qaAbort, qaRecs, qaCount>>
        /\ qaStep \notin {"pause", "killed"} /\ qaStep' # "pause"
    BY <1>3 DEF Submit, PollFails, PollTimesOut, ReadFails, CodexIsLimited, Raised, AsksCodex
  <2> QED
    BY <1>1, <2>1
<1>4. CASE TaskEnds
  BY <1>1, <1>4, TaskEndsIs
<1>5. CASE RuleJudges \/ ModelJudges \/ MiniMaxJudges \/ CodexJudges
  <2>1. /\ UNCHANGED <<qaAbort, qaRecs, qaCount>>
        /\ qaStep \notin {"pause", "killed"} /\ qaStep' # "pause"
    BY <1>5 DEF RuleJudges, ModelJudges, MiniMaxJudges, CodexJudges, AsksCodex, Sampled,
                JudgePasses, JudgeFails
  <2> QED
    BY <1>1, <2>1
<1>6. CASE Recorded
  <2> DEFINE lost == IF InfraInvalid(qaCur) THEN qaCount.infra + 1 ELSE 0
             bursts == qaCount.bursts + (IF Burst(lost) THEN 1 ELSE 0)
  <2>1. /\ qaStep = "record" /\ qaRecs' = Append(qaRecs, Kept(qaCur))
        /\ qaAbort' = IF Burst(lost) /\ PauseOn /\ bursts > Backoffs THEN "burst_exceeded" ELSE qaAbort
        /\ qaStep' = IF Burst(lost) /\ PauseOn /\ ~(bursts > Backoffs) THEN "pause" ELSE "open"
    BY <1>0, <1>6, CountsKept DEF Recorded, Kept
  <2>2. /\ qaCount'.bursts = bursts /\ lost \in Nat /\ bursts \in Nat
        /\ PauseOn => qaCount'.infra = lost
    BY <1>6, CountsKept
  <2>3. lost = IF InfraInvalid(qaCur) THEN qaCount.infra + 1 ELSE 0
    OBVIOUS
  <2>4. bursts = IF Burst(lost) THEN qaCount.bursts + 1 ELSE qaCount.bursts
    BY <1>0
  <2> HIDE DEF lost, bursts
  <2> SUFFICES ASSUME PauseOn, qaAbort' = "none" PROVE TailInv'
    BY DEF TailInv
  <2>5. /\ qaAbort = "none" /\ ~(Burst(lost) /\ bursts > Backoffs)
        /\ qaStep' = IF Burst(lost) THEN "pause" ELSE "open"
    BY <2>1
  <2>6. /\ qaCount.bursts <= Backoffs /\ qaCount.infra <= BurstThreshold - 1
        /\ \A k \in 0..Len(qaRecs) : Lost(k) => k <= qaCount.bursts * BurstThreshold + qaCount.infra
    BY <2>1, <2>5 DEF TailInv
  <2>7. PICK bt \in Nat : bt = qaCount.bursts * BurstThreshold
    BY <1>0
  <2>8. (qaCount.bursts + 1) * BurstThreshold = bt + BurstThreshold
    BY <1>0, <2>7
  <2>9. \A k \in 0..Len(qaRecs') : Lost(k)' => k <= bt + lost
    <3> SUFFICES ASSUME NEW k \in 0..Len(qaRecs'), Lost(k)' PROVE k <= bt + lost
      OBVIOUS
    <3>1. CASE k = 0
      BY <2>2, <2>7, <3>1
    <3>2. CASE InfraInvalid(qaCur) /\ k - 1 \in 0..Len(qaRecs) /\ Lost(k - 1)
      <4>1. k - 1 <= bt + qaCount.infra
        BY <2>6, <2>7, <3>2
      <4> QED
        <5>1. lost = qaCount.infra + 1 /\ k \in Int /\ bt \in Nat /\ qaCount.infra \in Nat
          BY <1>0, <2>3, <2>7, <3>2
        <5> QED
          BY <4>1, <5>1
    <3> QED
      BY <2>1, <3>1, <3>2, LostGrows
  <2>10. Burst(lost) => lost >= BurstThreshold /\ InfraInvalid(qaCur)
    BY DEF Burst
  <2>11. ~Burst(lost) => lost <= BurstThreshold - 1
    BY <1>0, <2>2, <2>3 DEF Burst
  <2>12. CASE Burst(lost)
    <3>1. lost <= BurstThreshold /\ bursts = qaCount.bursts + 1 /\ bursts <= Backoffs
      BY <1>0, <2>2, <2>3, <2>4, <2>5, <2>6, <2>10, <2>12
    <3>2. bursts * BurstThreshold = bt + BurstThreshold
      BY <2>8, <3>1
    <3>3. \A k \in 0..Len(qaRecs') : Lost(k)' => k <= bursts * BurstThreshold
      <4> SUFFICES ASSUME NEW k \in 0..Len(qaRecs'), Lost(k)' PROVE k <= bursts * BurstThreshold
        OBVIOUS
      <4>1. k \in Int /\ k <= bt + lost
        BY <2>9
      <4>2. k <= bt + BurstThreshold
        <5>1. lost \in Nat /\ bt \in Nat /\ BurstThreshold \in Nat /\ lost <= BurstThreshold
          BY <1>0, <2>2, <2>7, <3>1
        <5> QED
          BY <4>1, <5>1
      <4> QED
        BY <3>2, <4>2
    <3> QED
      BY <2>2, <2>5, <2>12, <3>1, <3>3 DEF TailInv
  <2>13. CASE ~Burst(lost)
    BY <1>0, <2>2, <2>4, <2>5, <2>6, <2>7, <2>9, <2>11, <2>13 DEF TailInv
  <2> QED
    BY <2>12, <2>13
<1>7. CASE Paused
  <2>1. /\ qaCount'.bursts = qaCount.bursts /\ qaCount'.infra = 0 /\ qaStep = "pause" /\ qaStep' = "open"
        /\ UNCHANGED qaRecs /\ (qaAbort' = "none" => qaAbort = "none")
    BY <1>0, <1>7 DEF Paused, Tallies
  <2>2. \A k \in 0..Len(qaRecs) : Lost(k)' <=> Lost(k)
    BY <2>1 DEF Lost
  <2> QED
    BY <1>0, <2>1, <2>2 DEF TailInv
<1>8. CASE Killed
  BY <1>8 DEF Killed, TailInv
<1>9. CASE UNCHANGED qaVars
  BY <1>9 DEF qaVars, TailInv, Lost
<1> QED
  BY <1>2, <1>3, <1>4, <1>5, <1>6, <1>7, <1>8, <1>9 DEF QaNext, QaRuns

\* A run that begins has nothing behind it.
LEMMA QaStarts == QaInit => QaTyped /\ JudgeInv /\ ArtifactInv /\ CleanInv /\ TailInv
<1> SUFFICES ASSUME QaInit PROVE QaTyped /\ JudgeInv /\ ArtifactInv /\ CleanInv /\ TailInv
  OBVIOUS
<1>1. QaTyped
  <2>1. qaCur \in Locals /\ qaJudge \in Calls /\ qaCount \in Tallies /\ qaRecs \in Seq(Record)
    BY DEF QaInit, Locals, Fresh, Calls, NoCalls, Tallies
  <2>2. qaDisk \in Artifacts /\ qaAbort \in Aborts
    BY DEF QaInit, Aborts, Artifacts
  <2> QED
    BY <2>1, <2>2 DEF QaInit, QaTyped, QaSteps
<1>2. JudgeInv
  BY DEF QaInit, JudgeInv, Fresh, CreditIsAgreed
<1>3. ArtifactInv
  BY DEF QaInit, ArtifactInv
<1>4. CleanInv
  BY QaAssumption DEF QaInit, CleanInv, Fresh
<1>5. TailInv
  BY QaAssumption DEF QaInit, TailInv
<1> QED
  BY <1>1, <1>2, <1>3, <1>4, <1>5

LEMMA ScoresAlways == QaInit /\ [][QaNext]_qaVars => []ScoresHold
<1>1. QaTyped /\ JudgeInv /\ ArtifactInv /\ CleanInv /\ TailInv => ScoresHold
  <2> SUFFICES ASSUME QaTyped, JudgeInv, ArtifactInv, CleanInv, TailInv PROVE ScoresHold
    OBVIOUS
  <2>0. /\ Len(qaRecs) \in Nat /\ qaCount.bursts \in Nat /\ qaCount.infra \in Nat
        /\ BurstThreshold \in Nat /\ qaDisk.rows \in Nat /\ qaStep \in QaSteps
    BY QaAssumption DEF QaTyped, Tallies, Artifacts
  <2>1. CleanExit
    <3> SUFFICES ASSUME qaExit = "0"
                 PROVE /\ Len(qaRecs) = Rows
                       /\ \A i \in DOMAIN qaRecs : Valid(qaRecs[i]) /\ qaRecs[i].completed
                       /\ qaCount.bursts = 0 /\ qaCount.streak < StreakLimit
                       /\ qaDisk = [whole |-> TRUE, status |-> "completed", rows |-> Rows,
                                    abort |-> "none"]
      BY DEF CleanExit
    <3>1. qaStep = "over" /\ qaAbort = "none" /\ ~qaInfra /\ \A i \in DOMAIN qaRecs : Valid(qaRecs[i])
      BY DEF ArtifactInv, CleanInv
    <3>2. Len(qaRecs) = Rows /\ qaCount.streak < StreakLimit /\ qaDisk = Written("completed")
      BY <3>1 DEF ArtifactInv, CleanInv
    <3>3. qaCount.bursts = 0
      BY <2>0, <3>1 DEF CleanInv, InfraInvalid
    <3> QED
      BY <3>1, <3>2, <3>3 DEF CleanInv, Valid, Written
  <2>2. BurstsArePaused
    <3> SUFFICES ASSUME PauseOn, qaStep \in {"ask", "poll"}, qaAbort = "none"
                 PROVE /\ \A k \in LostTail :
                              k <= qaCount.bursts * BurstThreshold + (BurstThreshold - 1)
                       /\ qaCount.bursts <= Backoffs
      BY DEF BurstsArePaused, CleanInv
    <3>1. qaCount.bursts <= Backoffs /\ qaCount.infra <= BurstThreshold - 1
      BY DEF TailInv
    <3>2. \A k \in LostTail : k \in 0..Len(qaRecs) /\ Lost(k)
      BY DEF LostTail, Lost
    <3>3. qaCount.bursts * BurstThreshold \in Nat
      BY <2>0
    <3>4. \A k \in LostTail : k <= qaCount.bursts * BurstThreshold + qaCount.infra
      BY <3>2 DEF TailInv
    <3> QED
      BY <2>0, <3>1, <3>2, <3>3, <3>4
  <2>3. ArtifactKeepsUp
    <3>1. qaDisk = Written("completed") => /\ qaDisk.whole /\ qaDisk.rows = Len(qaRecs)
                                           /\ qaDisk.status = "completed" /\ qaDisk.abort = qaAbort
      BY DEF Written
    <3>2. qaDisk.whole => Len(qaRecs) - qaDisk.rows \in {0, 1}
      BY <2>0, <3>1 DEF ArtifactInv, QaSteps
    <3>3. /\ ~qaDisk.whole => qaStep \in {"write", "finish", "killed"}
          /\ qaDisk.status = "completed" => qaStep \in {"finish", "over", "killed"}
          /\ qaExit # "none" => qaDisk.status = "completed" /\ qaDisk.abort = qaAbort
      BY <2>0, <3>1 DEF ArtifactInv, QaSteps
    <3> QED
      BY <3>2, <3>3 DEF ArtifactKeepsUp
  <2> QED
    BY <2>1, <2>2, <2>3 DEF ScoresHold, JudgeInv
<1> QED
  BY <1>1, QaStarts, QaTypedKept, JudgeKept, ArtifactKept, CleanKept, TailKept, PTL

\* A published score holds: exit code 0 stands for a valid score of every question, the credit of
\* models is agreed, bursts of lost questions are paused, and the artifact is at most one behind.
THEOREM ScoresCorrect == QaSpec => []ScoresHold
BY ScoresAlways, PTL DEF QaSpec
\* The locals of a question follow where the run stands with it.
CurFits ==
    /\ qaStep \in {"judge", "codex"} => qaCur.synth = "pass"
    /\ qaStep = "record" => (qaCur.synth = "pass" <=> qaCur.judge # "skipped")
    /\ qaStep \notin {"judge", "codex", "record"} => qaCur.synth # "pass" /\ qaCur.judge = "skipped"

\* There is room for the question that is asked, and each counts once at most.
WithinRows ==
    /\ Len(qaRecs) <= Rows
    /\ qaStep \in {"preflight", "reach", "ask", "poll", "judge", "codex", "record"} => Len(qaRecs) < Rows
    /\ qaCount.infra <= Len(qaRecs) /\ qaCount.bursts <= Len(qaRecs)
    /\ qaCount.empty <= qaCount.seen /\ qaCount.streak <= qaCount.seen /\ qaCount.seen <= Rows
    /\ qaStep \in {"judge", "codex", "record"} => qaCount.seen <= Len(qaRecs) + 1
    /\ qaStep \notin {"judge", "codex", "record", "finish", "over", "killed"} => qaCount.seen <= Len(qaRecs)

\* No sample is taken that was not asked for, and each has one vote.
WithinSamples == qaJudge.votes <= qaJudge.samples /\ qaJudge.samples <= Samples

\* What the end of a task makes of the locals and the counters.
LEMMA TaskEndsBounds ==
    ASSUME QaTyped, TaskEnds, CurFits, WithinRows
    PROVE /\ CurFits'
          /\ qaCount'.empty <= qaCount'.seen /\ qaCount'.streak <= qaCount'.seen
          /\ qaCount'.seen <= qaCount.seen + 1 /\ qaCount'.seen \in Nat
<1>1. PICK status \in {"completed", "failed"}, answered \in BOOLEAN,
           sel \in (IF Row \in Sourced THEN {"right", "empty", "cross"} ELSE {"any"}) :
     LET cur == [qaCur EXCEPT !.status = status, !.completed = TRUE]
         c == IF sel = "any" THEN qaCount ELSE Smoked(sel)
         why == SmokeAbort(sel, c)
     IN /\ qaCount' = c
        /\ \/ /\ why # "none"
              /\ Raised(cur, "infrastructure_error") /\ qaAbort' = why
           \/ /\ why = "none" /\ answered
              /\ qaCur' = [cur EXCEPT !.synth = "pass"]
              /\ qaStep' = "judge" /\ UNCHANGED <<qaInfra, qaAbort>>
           \/ /\ why = "none" /\ ~answered
              /\ qaCur' = [cur EXCEPT !.synth = IF status = "completed" THEN "empty"
                                                                       ELSE "task_error"]
              /\ qaStep' = "record" /\ UNCHANGED <<qaInfra, qaAbort>>
  BY DEF TaskEnds
<1>0. qaCur \in Locals /\ qaCount \in Tallies /\ qaStep = "poll" /\ qaCur.judge = "skipped"
  BY DEF QaTyped, TaskEnds, CurFits
<1>c. /\ qaCount.seen \in Nat /\ qaCount.empty \in Nat /\ qaCount.streak \in Nat
      /\ qaCount.empty <= qaCount.seen /\ qaCount.streak <= qaCount.seen
  BY <1>0 DEF Tallies, WithinRows
<1>2. CurFits'
  <2> DEFINE cur == [qaCur EXCEPT !.status = status, !.completed = TRUE]
  <2>1. cur \in Locals /\ cur.judge = "skipped"
    <3>1. cur \in Locals
      BY <1>0, LocalsMove
    <3> QED
      BY <1>0, <3>1 DEF Locals
  <2>2. \/ Raised(cur, "infrastructure_error")
        \/ qaCur' = [cur EXCEPT !.synth = "pass"] /\ qaStep' = "judge"
        \/ \E x \in {"empty", "task_error"} : qaCur' = [cur EXCEPT !.synth = x] /\ qaStep' = "record"
    BY <1>1
  <2> HIDE DEF cur
  <2>3. CASE Raised(cur, "infrastructure_error")
    BY <2>1, <2>3 DEF Raised, Locals, CurFits
  <2>4. CASE qaCur' = [cur EXCEPT !.synth = "pass"] /\ qaStep' = "judge"
    BY <2>1, <2>4 DEF Locals, CurFits
  <2>5. ASSUME NEW x \in {"empty", "task_error"}, qaCur' = [cur EXCEPT !.synth = x], qaStep' = "record"
        PROVE CurFits'
    BY <2>1, <2>5 DEF Locals, CurFits
  <2> QED
    BY <2>2, <2>3, <2>4, <2>5
<1>3. CASE qaCount' = qaCount
  BY <1>2, <1>3, <1>c
<1>4. CASE sel # "any" /\ qaCount' = Smoked(sel)
  <2>0. /\ sel \in {"right", "empty", "cross"}
        /\ qaCount.seen + 1 \in Nat /\ qaCount.empty + 1 \in Nat /\ qaCount.streak + 1 \in Nat
    BY <1>0, <1>4 DEF Tallies
  <2>1. \/ qaCount' = [qaCount EXCEPT !.seen = @ + 1, !.streak = 0]
        \/ qaCount' = [qaCount EXCEPT !.seen = @ + 1]
        \/ qaCount' = [qaCount EXCEPT !.seen = @ + 1, !.empty = @ + 1, !.streak = @ + 1]
    BY <1>0, <1>4, <2>0 DEF Smoked, Tallies
  <2>2. /\ qaCount'.seen = qaCount.seen + 1
        /\ qaCount'.empty \in {qaCount.empty, qaCount.empty + 1}
        /\ qaCount'.streak \in {0, qaCount.streak, qaCount.streak + 1}
    BY <1>0, <2>1 DEF Tallies
  <2> QED
    BY <1>2, <1>c, <2>2
<1> QED
  BY <1>1, <1>2, <1>3, <1>4

\* A sample is one of those asked for.
LEMMA SampleFits ==
    ASSUME QaTyped, JudgeInv, WithinSamples, NEW hit \in BOOLEAN, Sampled(hit), qaStep = "judge"
    PROVE WithinSamples' /\ qaStep' \in {"judge", "record"}
          /\ (qaStep' = "judge" => qaCur' = qaCur)
          /\ (qaStep' = "record" => \E x \in BOOLEAN : qaCur' = [qaCur EXCEPT !.judge = "pass", !.credit = x])
<1> DEFINE v == qaJudge.votes + (IF hit THEN 1 ELSE 0)
           enough == v > Votes \div 2
<1>1. /\ qaJudge \in Calls /\ Votes \in Nat /\ Votes <= Samples /\ Samples \in Nat
      /\ qaJudge.samples < Votes /\ qaJudge.samples \in Nat /\ qaJudge.votes \in Nat
  BY QaAssumption DEF QaTyped, Votes, JudgeInv, Calls
<1>2. v \in Nat /\ v <= qaJudge.samples + 1 /\ enough \in BOOLEAN
  BY <1>1 DEF WithinSamples
<1>3. \/ /\ qaJudge' = [qaJudge EXCEPT !.samples = @ + 1, !.votes = v, !.tries = 0]
         /\ qaStep' = "judge" /\ UNCHANGED qaCur
      \/ /\ qaJudge' = [qaJudge EXCEPT !.samples = @ + 1, !.votes = v]
         /\ qaStep' = "record" /\ qaCur' = [qaCur EXCEPT !.judge = "pass", !.credit = enough]
  BY DEF Sampled, JudgePasses
<1> HIDE DEF v, enough
<1>4. qaJudge'.samples = qaJudge.samples + 1 /\ qaJudge'.votes = v
  BY <1>1, <1>3 DEF Calls
<1>5. WithinSamples'
  BY <1>1, <1>2, <1>4 DEF WithinSamples
<1> QED
  BY <1>2, <1>3, <1>5

LEMMA BoundsKept ==
    QaTyped /\ JudgeInv /\ CurFits /\ WithinRows /\ WithinSamples /\ [QaNext]_qaVars
        => CurFits' /\ WithinRows' /\ WithinSamples'
<1> SUFFICES ASSUME QaTyped, JudgeInv, CurFits, WithinRows, WithinSamples, [QaNext]_qaVars
             PROVE CurFits' /\ WithinRows' /\ WithinSamples'
  OBVIOUS
<1>0. /\ qaCur \in Locals /\ qaJudge \in Calls /\ Len(qaRecs) \in Nat /\ qaCount \in Tallies
      /\ qaCount.seen \in Nat /\ Rows \in Nat /\ Samples \in Nat
  BY QaAssumption DEF QaTyped, Tallies
<1>f. /\ Fresh.synth = "task_error" /\ Fresh.judge = "skipped" /\ Fresh \in Locals
      /\ NoCalls.votes = 0 /\ NoCalls.samples = 0
  BY DEF Fresh, NoCalls, Locals
<1>1. CASE Preflight \/ Reach
  BY <1>1 DEF Preflight, Reach, CurFits, WithinRows, WithinSamples
<1>2. CASE Submit
  <2>1. qaStep = "ask" /\ qaStep' \in {"poll", "record"} /\ UNCHANGED <<qaRecs, qaCount>>
    BY <1>2 DEF Submit, Raised
  <2>2. WithinRows'
    BY <1>0, <2>1 DEF WithinRows
  <2>3. CurFits'
    BY <1>2, <1>f DEF Submit, Raised, CurFits, Locals
  <2>4. WithinSamples'
    BY <1>0, <1>2, <1>f DEF Submit, WithinSamples
  <2> QED
    BY <2>2, <2>3, <2>4
<1>3. CASE PollFails \/ PollTimesOut \/ ReadFails
  <2>1. qaStep = "poll" /\ qaStep' = "record" /\ UNCHANGED <<qaRecs, qaCount, qaJudge>>
    BY <1>3 DEF PollFails, PollTimesOut, ReadFails, Raised
  <2>2. WithinRows' /\ WithinSamples'
    BY <1>0, <2>1 DEF WithinRows, WithinSamples
  <2>3. qaCur'.judge = "skipped" /\ qaCur'.synth \in {"task_error", "timeout"}
    BY <1>0, <1>3, <2>1 DEF PollFails, PollTimesOut, ReadFails, Raised, CurFits, Locals
  <2> QED
    BY <2>1, <2>2, <2>3 DEF CurFits
<1>4. CASE TaskEnds
  <2>1. /\ qaStep = "poll" /\ qaStep' \in {"judge", "record"} /\ UNCHANGED <<qaJudge, qaRecs>>
        /\ qaCount'.infra = qaCount.infra /\ qaCount'.bursts = qaCount.bursts
    BY <1>4, TaskEndsIs
  <2>2. /\ CurFits'
        /\ qaCount'.empty <= qaCount'.seen /\ qaCount'.streak <= qaCount'.seen
        /\ qaCount'.seen <= qaCount.seen + 1 /\ qaCount'.seen \in Nat
    BY <1>4, TaskEndsBounds
  <2> QED
    BY <1>0, <2>1, <2>2 DEF WithinRows, WithinSamples
<1>5. ASSUME qaStep \in {"judge", "codex"}, UNCHANGED <<qaRecs, qaCount>>, WithinSamples',
             \/ qaStep' \in {"judge", "codex"} /\ UNCHANGED qaCur
             \/ qaStep' = "record" /\ qaCur' = [qaCur EXCEPT !.judge = "fail"]
             \/ qaStep' = "record" /\ \E x \in BOOLEAN :
                    qaCur' = [qaCur EXCEPT !.judge = "pass", !.credit = x]
      PROVE CurFits' /\ WithinRows' /\ WithinSamples'
  <2>1. WithinRows'
    BY <1>0, <1>5 DEF WithinRows
  <2>2. CurFits'
    BY <1>0, <1>5 DEF CurFits, Locals
  <2> QED
    BY <1>5, <2>1, <2>2
<1>6. CASE RuleJudges \/ ModelJudges
  <2>1. qaStep = "judge" /\ UNCHANGED <<qaRecs, qaCount>>
    BY <1>6 DEF RuleJudges, ModelJudges
  <2>2. CASE \E hit \in BOOLEAN : Sampled(hit)
    BY <2>1, <2>2, <1>5, SampleFits
  <2>3. CASE (JudgePasses(FALSE) \/ JudgeFails) /\ UNCHANGED qaJudge
    BY <2>1, <2>3, <1>5 DEF JudgePasses, JudgeFails, WithinSamples
  <2> QED
    BY <1>6, <2>2, <2>3 DEF RuleJudges, ModelJudges
<1>7. CASE MiniMaxJudges
  <2>1. qaStep = "judge" /\ UNCHANGED <<qaRecs, qaCount>>
    BY <1>7 DEF MiniMaxJudges
  <2>2. qaJudge'.samples = qaJudge.samples /\ qaJudge'.votes = qaJudge.votes
    BY <1>0, <1>7 DEF MiniMaxJudges, Calls
  <2>3. WithinSamples'
    BY <2>2 DEF WithinSamples
  <2> QED
    BY <1>5, <1>7, <2>1, <2>3 DEF MiniMaxJudges, JudgeFails
<1>8. CASE CodexJudges
  <2>1. qaStep \in {"judge", "codex"} /\ UNCHANGED <<qaRecs, qaCount>>
        /\ (qaMode = "codex" => qaStep = "judge")
    BY <1>8 DEF CodexJudges, AsksCodex, JudgeInv
  <2>2. CASE qaMode = "codex" /\ \E hit \in BOOLEAN : Sampled(hit)
    BY <2>1, <2>2, <1>5, SampleFits
  <2>3. ASSUME NEW a \in {"hit", "miss", "failed"}, qaJudge' = [qaJudge EXCEPT !.codex = a],
               JudgeFails \/ \E x \in BOOLEAN : JudgePasses(x)
        PROVE CurFits' /\ WithinRows' /\ WithinSamples'
    <3>1. qaJudge'.samples = qaJudge.samples /\ qaJudge'.votes = qaJudge.votes
      BY <1>0, <2>3 DEF Calls
    <3>2. WithinSamples'
      BY <3>1 DEF WithinSamples
    <3>3. CASE JudgeFails
      BY <1>5, <2>1, <3>2, <3>3 DEF JudgeFails
    <3>4. CASE \E x \in BOOLEAN : JudgePasses(x)
      BY <1>5, <2>1, <3>2, <3>4 DEF JudgePasses
    <3> QED
      BY <2>3, <3>3, <3>4
  <2>4. \A hit \in BOOLEAN : (hit /\ qaJudge.minimax) \in BOOLEAN
    OBVIOUS
  <2>5. \/ qaMode = "codex" /\ \E hit \in BOOLEAN : Sampled(hit)
        \/ \E a \in {"hit", "miss", "failed"} :
               /\ qaJudge' = [qaJudge EXCEPT !.codex = a]
               /\ JudgeFails \/ \E x \in BOOLEAN : JudgePasses(x)
    BY <1>8, <2>4 DEF CodexJudges
  <2> QED
    BY <2>2, <2>3, <2>5
<1>9. CASE CodexIsLimited
  <2>1. qaJudge'.samples = qaJudge.samples /\ qaJudge'.votes = qaJudge.votes
        /\ UNCHANGED <<qaStep, qaCur, qaRecs, qaCount>>
    BY <1>0, <1>9 DEF CodexIsLimited, Calls
  <2> QED
    BY <2>1 DEF CurFits, WithinRows, WithinSamples
<1>10. CASE Recorded
  <2> DEFINE lost == IF InfraInvalid(qaCur) THEN qaCount.infra + 1 ELSE 0
             bursts == qaCount.bursts + (IF Burst(lost) THEN 1 ELSE 0)
  <2>1. /\ qaCount'.bursts = bursts /\ qaCount'.infra = IF Burst(lost) /\ ~PauseOn THEN 0 ELSE lost
        /\ lost \in Nat /\ bursts \in Nat
    BY <1>10, CountsKept
  <2>2. qaCount'.seen = qaCount.seen /\ qaCount'.empty = qaCount.empty
        /\ qaCount'.streak = qaCount.streak
    <3> DEFINE x == IF Burst(lost) /\ ~PauseOn THEN 0 ELSE lost
    <3>1. qaCount' = [qaCount EXCEPT !.infra = x, !.bursts = bursts]
      BY <1>10 DEF Recorded
    <3> HIDE DEF x, lost, bursts
    <3> QED
      BY <1>0, <3>1 DEF Tallies
  <2>3. Len(qaRecs') = Len(qaRecs) + 1
    BY <1>0, <1>10, KeptIs DEF Recorded, Kept, QaTyped
  <2>4. qaStep = "record" /\ qaStep' \in {"pause", "open"} /\ qaCur' = Fresh /\ qaJudge' = NoCalls
    BY <1>10 DEF Recorded
  <2>5. lost <= Len(qaRecs) + 1 /\ bursts <= Len(qaRecs) + 1
    BY <1>0 DEF WithinRows, Tallies
  <2> HIDE DEF lost, bursts
  <2>6. WithinRows'
    BY <1>0, <2>1, <2>2, <2>3, <2>4, <2>5 DEF WithinRows
  <2> QED
    BY <1>0, <1>f, <2>4, <2>6 DEF CurFits, WithinSamples
<1>11. CASE Paused
  <2>1. qaCount' = [qaCount EXCEPT !.infra = 0] /\ qaStep = "pause" /\ qaStep' = "open"
        /\ UNCHANGED <<qaCur, qaJudge, qaRecs>>
    BY <1>11 DEF Paused
  <2>2. qaCount'.infra = 0 /\ qaCount'.bursts = qaCount.bursts /\ qaCount'.seen = qaCount.seen
        /\ qaCount'.empty = qaCount.empty /\ qaCount'.streak = qaCount.streak
    BY <1>0, <2>1 DEF Tallies
  <2> QED
    BY <1>0, <2>1, <2>2 DEF CurFits, WithinRows, WithinSamples
<1>12. CASE OpensArtifact \/ WritesArtifact \/ QaFinish
  <2>1. UNCHANGED <<qaCur, qaJudge, qaRecs, qaCount>>
        /\ qaStep \in {"open", "write", "finish"} /\ qaStep' \in {"write", "ask", "finish", "over"}
        /\ (qaStep' = "write" => qaStep = "open")
        /\ (qaStep' = "ask" => qaStep = "write" /\ Len(qaRecs) # Rows)
    BY <1>12 DEF OpensArtifact, WritesArtifact, QaFinish
  <2> QED
    BY <1>0, <2>1 DEF CurFits, WithinRows, WithinSamples
<1>13. CASE Killed
  <2>1. qaCur' = Fresh /\ qaJudge' = NoCalls /\ qaStep' = "killed" /\ UNCHANGED <<qaRecs, qaCount>>
    BY <1>13 DEF Killed
  <2> QED
    BY <1>0, <1>f, <2>1 DEF CurFits, WithinRows, WithinSamples
<1>14. CASE UNCHANGED qaVars
  BY <1>14 DEF qaVars, CurFits, WithinRows, WithinSamples
<1> QED
  BY <1>1, <1>2, <1>3, <1>4, <1>6, <1>7, <1>8, <1>9, <1>10, <1>11, <1>12, <1>13, <1>14
     DEF QaNext, QaRuns

LEMMA BoundsStart == QaInit => CurFits /\ WithinRows /\ WithinSamples
BY QaAssumption DEF QaInit, CurFits, WithinRows, WithinSamples, Fresh, NoCalls

LEMMA BoundsHold == QaTyped /\ CurFits /\ WithinRows /\ WithinSamples => QaTypeOK
<1> SUFFICES ASSUME QaTyped, CurFits, WithinRows, WithinSamples PROVE QaTypeOK
  OBVIOUS
<1>0. /\ Rows \in Nat /\ Samples \in Nat /\ Len(qaRecs) \in Nat /\ qaCount \in Tallies
      /\ qaCur \in Locals /\ qaJudge \in Calls
  BY QaAssumption DEF QaTyped
<1>1. \A k \in DOMAIN qaCount : qaCount[k] \in 0 .. Rows
  <2>1. DOMAIN qaCount = {"infra", "bursts", "seen", "empty", "streak"}
    BY <1>0 DEF Tallies
  <2>2. /\ qaCount.infra \in Nat /\ qaCount.bursts \in Nat /\ qaCount.seen \in Nat
        /\ qaCount.empty \in Nat /\ qaCount.streak \in Nat
    BY <1>0 DEF Tallies
  <2> QED
    BY <1>0, <2>1, <2>2 DEF WithinRows
<1>2. qaJudge.samples \in 0 .. Samples /\ qaJudge.votes \in 0 .. qaJudge.samples
  BY <1>0 DEF Calls, WithinSamples
<1>3. \A i \in DOMAIN qaRecs : qaRecs[i] \in Record
  BY DEF QaTyped
<1>4. qaCur.synth = "pass" <=> qaStep \in {"judge", "codex"} \/ qaCur.judge # "skipped"
  BY DEF CurFits
<1> QED
  BY <1>0, <1>1, <1>2, <1>3, <1>4 DEF QaTyped, QaTypeOK, WithinRows, Locals, Record

-----------------------------------------------------------------------------
(* The services together (MCServices).  They share no variable and a step is one of a single     *)
(* component, so that what each component keeps alone it keeps among the others.                   *)

LEMMA ServicesBegin ==
    ServicesInit => /\ Init /\ McpInit /\ BoxInit /\ StreamInit /\ ChatInit /\ CcInit /\ RegInit
                    /\ IndexInit /\ MemInit /\ PrInit /\ QaInit
BY DEF ServicesInit

\* A step of the services is for each component one of its own, or leaves it where it is.
LEMMA ServicesGo ==
    [ServicesNext]_servicesVars =>
        /\ [Next]_vars /\ [McpNext]_mcpVars /\ [BoxNext]_boxVars /\ [StreamNext]_streamVars
        /\ [ChatNext]_chatVars /\ [CcNext]_ccVars /\ [RegNext]_regVars /\ [IndexNext]_indexVars
        /\ [MemNext]_memVars /\ [PrStep]_prVars /\ [QaNext]_qaVars
<1>1. CASE UNCHANGED servicesVars
  BY <1>1 DEF servicesVars
<1>2. CASE ServicesNext
  BY <1>2 DEF ServicesNext, OthersStay
<1> QED
  BY <1>1, <1>2

\* A behaviour of the services is one of each component.
LEMMA ServicesAreComponents ==
    ServicesSpec =>
        /\ Init /\ [][Next]_vars
        /\ McpInit /\ [][McpNext]_mcpVars
        /\ BoxInit /\ [][BoxNext]_boxVars
        /\ StreamInit /\ [][StreamNext]_streamVars
        /\ ChatInit /\ [][ChatNext]_chatVars
        /\ CcInit /\ [][CcNext]_ccVars
        /\ RegInit /\ [][RegNext]_regVars
        /\ IndexInit /\ [][IndexNext]_indexVars
        /\ MemInit /\ [][MemNext]_memVars
        /\ PrInit /\ [][PrStep]_prVars
        /\ QaInit /\ [][QaNext]_qaVars
BY ServicesBegin, ServicesGo, PTL DEF ServicesSpec

\* Every component keeps its types: the counters of the pool and the benchmark within what the
\* jobs and questions allow, the phases of calls, connections and turns, the rows of the tables.
THEOREM ServicesTypesCorrect == ServicesSpec => []ServicesTypeOK
<1>1. ServicesSpec => [](TypeOK /\ RegTypeOK)
  BY ServicesAreComponents, PoolTypeCorrect, RegTypeAlways, PTL DEF Spec
<1>2. ServicesSpec => []McpTypeOK
  BY ServicesAreComponents, McpTypeAlways, PTL
<1>3. ServicesSpec => []BoxTypeOK
  BY ServicesAreComponents, BoxTypeStarts, BoxTypeKept, PTL
<1>4. ServicesSpec => [](StreamTypeOK /\ ChatTypeOK)
  BY ServicesAreComponents, StreamTypeStarts, StreamTypeKept, ChatTypeStarts, ChatTypeKept, PTL
<1>5. ServicesSpec => [](CcTypeOK /\ IndexTypeOK)
  BY ServicesAreComponents, CcStarts, CcKeeps, IndexStarts, IndexKeeps, PTL
<1>6. ServicesSpec => [](MemTypeOK /\ PrTypeOK)
  BY ServicesAreComponents, MemStarts, MemKeeps, PrStarts, PrKeeps, PrTypesHold, PTL
<1>7. ServicesSpec => []QaTypeOK
  BY ServicesAreComponents, QaStarts, QaTypedKept, JudgeKept, BoundsStart, BoundsKept, BoundsHold, PTL
<1> QED
  BY <1>1, <1>2, <1>3, <1>4, <1>5, <1>6, <1>7, PTL DEF ServicesTypeOK

\* A search of the index finds every document that is there, in the source it is asked about, an
\* agentic search answers from what a tool found, and goes past its deadline by one call at most.
THEOREM SearchesCorrect == ServicesSpec => []SearchesFind
<1>1. IndexInv /\ CcInv => SearchesFind
  BY IndexFinds, CcFinds DEF SearchesFind
<1> QED
  BY <1>1, ServicesAreComponents, CcStarts, CcKeeps, IndexStarts, IndexKeeps, PTL

\* Memories are promoted with the task they come from, the last to write the evidence for a playbook
\* has seen all of it, and the draft of a task that was blocked is none.
THEOREM LessonsCorrect == ServicesSpec => []LessonsAreEarned
<1>1. MemInv /\ PrTyped /\ PrInv => LessonsAreEarned
  BY MemIsSound, EvidenceHolds DEF LessonsAreEarned
<1> QED
  BY <1>1, ServicesAreComponents, MemStarts, MemKeeps, PrStarts, PrKeeps, PTL

\* What no step takes back: nothing is sent after stop, a resumed sandbox is its snapshot, the cursor
\* of a stream passes over late events alone, a request leaves the records of other names as they
\* are, and a memory that other tasks can use stays so.
THEOREM NothingTakenBack == ServicesSpec => NothingIsTakenBack
<1>1. ServicesSpec => McpStopIsFinal /\ ResumeRestores
  BY ServicesAreComponents, McpStopAlways, ResumeAlways, PTL
<1>2. ServicesSpec => SkipsOnlyLate /\ OthersAreKept
  BY ServicesAreComponents, SkipsAlways, OthersAlways, PTL
<1>3. ServicesSpec => SettledStays
  BY ServicesAreComponents, MemStarts, MemKeeps, MemStays, PTL DEF SettledStays
<1> QED
  BY <1>1, <1>2, <1>3, PTL DEF NothingIsTakenBack
=============================================================================
