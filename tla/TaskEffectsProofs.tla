-------------------------- MODULE TaskEffectsProofs --------------------------
(***************************************************************************)
(* What a task does outside, for every plan, every number of retries,      *)
(* approvals and rows, every number of process deaths and lost commits.    *)
(*                                                                         *)
(*  - Grants: a guarded tool acts under a grant.  An approval is an        *)
(*    argument of the pass, is copied into the call and from there into    *)
(*    the effect, while operators, rollbacks and lost commits change the   *)
(*    approvals: Granted says that whatever approval the pass, a call past *)
(*    its gate or an effect carries was granted.                           *)
(*  - Completion: Carried says what acted behind the place of the pass.    *)
(*  - Types, rows included.                                                *)
(*  - Records: Recorded says what the row of the call under way knows of   *)
(*    it, and that effects of other calls have their finished rows.        *)
(*  - Rollback: PatchesInOrder says that the rows of patches are in the    *)
(*    order of their commits and that each holds the tree before it,       *)
(*    Undoing that the newest row left to undo is at HEAD.                 *)
(*  - Counts: Counted bounds what an approval has paid for by the places   *)
(*    of the plan behind the pass.                                         *)
(*                                                                         *)
(* The argument about the gateway is made once for each, by the kinds of   *)
(* step it takes, and the pass is then taken action by action.             *)
(***************************************************************************)
EXTENDS TaskEffects, NaturalsInduction, FiniteSetTheorems, WellFoundedInduction, TLAPS

-----------------------------------------------------------------------------
(* Types.  The rows are left out: no grant depends on them. *)

RollbackTyped ==
    /\ DOMAIN rb = {"phase", "todo", "ok", "quiet", "seen"}
    /\ rb = [x \in DOMAIN rb |-> rb[x]]
    /\ rb.seen \subseteq Approvals

Typed ==
    /\ gate \in [Approvals -> GateStatuses]
    /\ call \in Call
    /\ effects \in Seq(Effect)
    /\ plan \in Plans /\ pos \in Nat \ {0}
    /\ appr \in Approvals \cup {None}
    /\ RollbackTyped

\* The calls of a plan are tools of the gateway.
LEMMA PlanFacts ==
    ASSUME Typed
    PROVE /\ Len(plan.tools) \in Nat
          /\ pos <= Len(plan.tools) => plan.tools[pos] \in Tools
<1>1. plan.tools \in Seq(Tools)
  BY EffectsAssumption DEF Typed
<1> QED
  BY <1>1 DEF Typed

-----------------------------------------------------------------------------
(* Approvals. *)

\* A rollback that withdraws a grant does not undo that an operator gave it.
Grants == {"granted", "withdrawn"}
InForce(a) == a = None \/ (a \in Approvals /\ gate[a] \in Grants)

\* A call past its gate carries an approval in force, and one where its tool needs one.
CallPermitted ==
    call.phase \notin {"none", "gated"} => InForce(call.appr) /\ Permitted(call.tool, call.appr)

EffectsPermitted ==
    \A k \in DOMAIN effects :
        InForce(effects[k].appr) /\ Permitted(effects[k].tool, effects[k].appr)

Granted == InForce(appr) /\ CallPermitted /\ EffectsPermitted

\* What was granted stays so.
GateGrows ==
    /\ gate' \in [Approvals -> GateStatuses]
    /\ \A a \in Approvals : gate[a] \in Grants => gate'[a] \in Grants

\* A commit and a loss touch only approvals that were flushed.
LEMMA GateMoves ==
    ASSUME gate \in [Approvals -> GateStatuses]
    PROVE /\ gate' = gate => GateGrows
          /\ gate' = CommitGate => GateGrows
          /\ gate' = DropGate => GateGrows
          /\ \A a \in Approvals :
                gate[a] = "unused" /\ gate' = [CommitGate EXCEPT ![a] = "flushed"] => GateGrows
<1>1. gate' = gate => GateGrows
  BY DEF GateGrows
<1>2. gate' = CommitGate => GateGrows
  BY DEF GateGrows, Grants, CommitGate, GateStatuses
<1>3. gate' = DropGate => GateGrows
  BY DEF GateGrows, Grants, DropGate, GateStatuses
<1>4. ASSUME NEW a \in Approvals, gate[a] = "unused", gate' = [CommitGate EXCEPT ![a] = "flushed"]
      PROVE GateGrows
  BY <1>4 DEF GateGrows, Grants, CommitGate, GateStatuses
<1> QED
  BY <1>1, <1>2, <1>3, <1>4

\* What is in force stays in force while the approvals grow.
StillInForce(a) == a = None \/ (a \in Approvals /\ gate'[a] \in Grants)

LEMMA StaysInForce ==
    ASSUME GateGrows
    PROVE \A a : InForce(a) => StillInForce(a)
BY DEF GateGrows, InForce, StillInForce

LEMMA EffectsStay ==
    ASSUME EffectsPermitted, GateGrows, UNCHANGED effects
    PROVE EffectsPermitted'
BY StaysInForce DEF EffectsPermitted, Permitted, InForce, StillInForce

-----------------------------------------------------------------------------
(* A step of the gateway: the call keeps its tool and its approval, and what it does outside is *)
(* done in their name.                                                                          *)

ItsEffect == [tool |-> call.tool, row |-> call.row, appr |-> call.appr]

CallGoesOn ==
    /\ call' \in Call /\ call'.tool = call.tool /\ call'.appr = call.appr
    /\ call.phase \notin {"none", "gated"} /\ call'.phase \notin {"none", "gated"}
    /\ effects' = effects \/ effects' = Append(effects, ItsEffect)
    /\ GateGrows

\* The fields of a call are typed, and so are those a step of the gateway writes.
LEMMA CallFacts ==
    ASSUME call \in Call
    PROVE /\ call = [x \in DOMAIN call |-> call[x]]
          /\ DOMAIN call = {"phase", "row", "tool", "appr", "attempt", "retryable", "timedOut"}
          /\ call.attempt + 1 \in Nat
          /\ \A t \in Tools : FirstPhase(t) \in {"lookup", "post"}
BY DEF Call, FirstPhase

LEMMA PhaseMoves ==
    ASSUME call \in Call, NEW ph \in Phases
    PROVE /\ [call EXCEPT !.phase = ph] \in Call
          /\ [call EXCEPT !.phase = ph].phase = ph
          /\ [call EXCEPT !.phase = ph].tool = call.tool
          /\ [call EXCEPT !.phase = ph].appr = call.appr
BY DEF Call

LEMMA RaisedType ==
    ASSUME call \in Call, NEW r \in BOOLEAN, NEW t \in BOOLEAN
    PROVE /\ Raised(r, t) \in Call /\ Raised(r, t).phase = "failed"
          /\ Raised(r, t).tool = call.tool /\ Raised(r, t).appr = call.appr
BY DEF Call, Raised, Phases

LEMMA NextAttemptType ==
    ASSUME call \in Call
    PROVE /\ NextAttempt \in Call /\ NextAttempt.phase \in {"lookup", "post"}
          /\ NextAttempt.tool = call.tool /\ NextAttempt.appr = call.appr
          /\ [NextAttempt EXCEPT !.row = 0] \in Call
          /\ [NextAttempt EXCEPT !.row = 0].phase \in {"lookup", "post"}
          /\ [NextAttempt EXCEPT !.row = 0].tool = call.tool
          /\ [NextAttempt EXCEPT !.row = 0].appr = call.appr
<1>1. FirstPhase(call.tool) \in {"lookup", "post"} /\ FirstPhase(call.tool) \in Phases
  BY DEF FirstPhase, Phases
<1>2. call.attempt + 1 \in Nat
  BY DEF Call
<1>3. /\ NextAttempt \in Call /\ NextAttempt.phase = FirstPhase(call.tool)
      /\ NextAttempt.tool = call.tool /\ NextAttempt.appr = call.appr
  BY <1>1, <1>2 DEF Call, NextAttempt
<1>4. ASSUME NEW c \in Call
      PROVE /\ [c EXCEPT !.row = 0] \in Call /\ [c EXCEPT !.row = 0].phase = c.phase
            /\ [c EXCEPT !.row = 0].tool = c.tool /\ [c EXCEPT !.row = 0].appr = c.appr
  BY DEF Call
<1> QED
  BY <1>1, <1>3, <1>4

LEMMA GatewayGoesOn ==
    ASSUME Typed, GatewayStep \/ RetryUnsaved
    PROVE CallGoesOn
<1> USE DEF Typed, CallGoesOn
<1>t. {"post", "failed", "confirm", "returned", "raised", "lookup"} \subseteq Phases
  BY DEF Phases
<1>1. CASE LookupAnswered
  BY <1>1, <1>t, PhaseMoves, GateMoves DEF LookupAnswered
<1>2. CASE \E b, o \in BOOLEAN : LookupFailed(b, o)
  BY <1>2, RaisedType, GateMoves DEF LookupFailed
<1>3. CASE PostAnswered
  <2>1. effects' = Append(effects, ItsEffect) /\ gate' = gate /\ call.phase = "post"
    BY <1>3 DEF PostAnswered, CarriedOut, ItsEffect
  <2>2. call' = [call EXCEPT !.phase = "confirm"] \/ call' = [call EXCEPT !.phase = "returned"]
    BY <1>3 DEF PostAnswered, Succeeded
  <2> QED
    BY <2>1, <2>2, <1>t, PhaseMoves, GateMoves
<1>4. CASE ConfirmAnswered
  BY <1>4, <1>t, PhaseMoves, GateMoves DEF ConfirmAnswered, Succeeded
<1>5. CASE \E r \in BOOLEAN : PostRefused(r)
  BY <1>5, RaisedType, GateMoves DEF PostRefused
<1>6. CASE \E b, o \in BOOLEAN : PostLost(b, o)
  BY <1>6, RaisedType, GateMoves DEF PostLost, CarriedOut, ItsEffect
<1>7. CASE Retry
  BY <1>7, NextAttemptType, GateMoves DEF Retry
<1>8. CASE RetryUnsaved
  BY <1>8, NextAttemptType, GateMoves DEF RetryUnsaved, RollBack
<1>9. CASE GiveUp
  BY <1>9, <1>t, PhaseMoves, GateMoves DEF GiveUp
<1> QED
  BY <1>1, <1>2, <1>3, <1>4, <1>5, <1>6, <1>7, <1>8, <1>9 DEF GatewayStep

\* The effect of a call is the last one, and all others are as they were.
LEMMA EffectAdded ==
    ASSUME Typed, call.phase \notin {"none", "gated"}, CallPermitted, EffectsPermitted, GateGrows,
           effects' = Append(effects, ItsEffect)
    PROVE effects' \in Seq(Effect) /\ EffectsPermitted'
<1>1. ItsEffect \in Effect
  BY DEF ItsEffect, Effect, Typed, Call
<1>2. effects' \in Seq(Effect)
  BY <1>1 DEF Typed
<1>3. DOMAIN effects' = DOMAIN effects \cup {Len(effects) + 1}
  BY <1>1 DEF Typed
<1>4. \A k \in DOMAIN effects : effects'[k] = effects[k]
  BY <1>1 DEF Typed
<1>5. effects'[Len(effects) + 1] = ItsEffect
  BY <1>1 DEF Typed
<1>6. ItsEffect.tool = call.tool /\ ItsEffect.appr = call.appr
  BY DEF ItsEffect
<1>7. ASSUME NEW k \in DOMAIN effects'
      PROVE StillInForce(effects'[k].appr) /\ Permitted(effects'[k].tool, effects'[k].appr)
  <2>1. CASE k \in DOMAIN effects
    BY <2>1, <1>4, StaysInForce DEF EffectsPermitted
  <2>2. CASE k = Len(effects) + 1
    BY <2>2, <1>5, <1>6, StaysInForce DEF CallPermitted
  <2> QED
    BY <1>3, <1>7, <2>1, <2>2
<1> QED
  BY <1>2, <1>7 DEF EffectsPermitted, Permitted, InForce, StillInForce

\* So a step of the gateway keeps both invariants, the rest of the task being left alone.
LEMMA GatewayKeeps ==
    ASSUME Typed, Granted, CallGoesOn, UNCHANGED <<plan, pos, appr, rb>>
    PROVE Typed' /\ Granted'
<1>1. InForce(appr)'
  BY StaysInForce DEF Granted, CallGoesOn, InForce, StillInForce
<1>2. CallPermitted'
  <2>1. InForce(call.appr) /\ Permitted(call.tool, call.appr)
    BY DEF Granted, CallPermitted, CallGoesOn
  <2>2. StillInForce(call'.appr) /\ Permitted(call'.tool, call'.appr)
    BY <2>1, StaysInForce DEF CallGoesOn
  <2> QED
    BY <2>2 DEF CallPermitted, Permitted, InForce, StillInForce
<1>3. effects' \in Seq(Effect) /\ EffectsPermitted'
  BY EffectAdded, EffectsStay DEF CallGoesOn, Granted, Typed
<1> QED
  BY <1>1, <1>2, <1>3 DEF Typed, Granted, CallGoesOn, GateGrows, RollbackTyped

-----------------------------------------------------------------------------
(* The start of a call. *)

OpenedAt(t, a, i, ph) == [Opened(t, a, i) EXCEPT !.phase = ph]

LEMMA OpenedType ==
    ASSUME NEW t \in Tools, NEW a \in Approvals \cup {None}, NEW i \in Rows, NEW ph \in Phases
    PROVE /\ OpenedAt(t, a, i, ph) \in Call
          /\ OpenedAt(t, a, i, ph).tool = t /\ OpenedAt(t, a, i, ph).appr = a
          /\ OpenedAt(t, a, i, ph).phase = ph
<1>1. NoCall \in Call
  BY DEF NoCall, Call, Phases, Tools
<1>2. Opened(t, a, i) \in Call /\ Opened(t, a, i).tool = t /\ Opened(t, a, i).appr = a
  BY <1>1 DEF Opened, Call
<1>3. ASSUME NEW c \in Call
      PROVE /\ [c EXCEPT !.phase = ph] \in Call /\ [c EXCEPT !.phase = ph].phase = ph
            /\ [c EXCEPT !.phase = ph].tool = c.tool /\ [c EXCEPT !.phase = ph].appr = c.appr
  BY DEF Call
<1> QED
  BY <1>2, <1>3 DEF OpenedAt

CallIsOpened(t, a) ==
    /\ call' \in Call /\ call'.phase \in {"lookup", "post", "gated"} /\ call'.tool = t
    /\ call'.phase # "gated" => call'.appr = a /\ Permitted(t, a)
    /\ GateGrows /\ UNCHANGED effects

\* A row that waits for an approval is resumed only under one, so no call slips past governance.
LEMMA OpensCall ==
    ASSUME Typed, NEW t \in Tools, NEW a \in Approvals \cup {None}, OpenCall(t, a)
    PROVE CallIsOpened(t, a)
<1>p. FirstPhase(t) \in {"lookup", "post"} /\ FirstPhase(t) \in Phases /\ "gated" \in Phases
  BY DEF FirstPhase, Phases
<1>1. CASE ResumeCall(t, a)
  <2>1. PICK i \in Rows : a # None /\ call' = OpenedAt(t, a, i, FirstPhase(t))
    BY <1>1 DEF ResumeCall, Resumable, OpenedAt
  <2>2. gate' = CommitGate /\ effects' = effects
    BY <1>1 DEF ResumeCall
  <2>3. Permitted(t, a)
    BY <2>1 DEF Permitted
  <2>4. call' \in Call /\ call'.tool = t /\ call'.appr = a /\ call'.phase = FirstPhase(t)
    BY <2>1, <1>p, OpenedType
  <2> QED
    BY <2>2, <2>3, <2>4, <1>p, GateMoves DEF CallIsOpened, Typed
<1>2. CASE NewCall(t, a)
  <2>1. PICK i \in Rows : call' = OpenedAt(t, a, i, FirstPhase(t))
    BY <1>2 DEF NewCall, OpenedAt
  <2>2. gate' = CommitGate /\ effects' = effects /\ Permitted(t, a)
    BY <1>2 DEF NewCall
  <2>4. call' \in Call /\ call'.tool = t /\ call'.appr = a /\ call'.phase = FirstPhase(t)
    BY <2>1, <1>p, OpenedType
  <2> QED
    BY <2>2, <2>4, <1>p, GateMoves DEF CallIsOpened, Typed
<1>3. CASE GatedCall(t)
  <2>1. PICK i \in Rows, b \in Approvals :
           /\ call' = OpenedAt(t, b, i, "gated") /\ gate[b] = "unused"
           /\ gate' = [CommitGate EXCEPT ![b] = "flushed"]
    BY <1>3 DEF GatedCall, Fresh, OpenedAt
  <2>2. effects' = effects
    BY <1>3 DEF GatedCall, Fresh
  <2>3. call' \in Call /\ call'.tool = t /\ call'.phase = "gated"
    BY <2>1, <1>p, OpenedType
  <2> QED
    BY <2>1, <2>2, <2>3, GateMoves DEF CallIsOpened, Typed
<1> QED
  BY <1>1, <1>2, <1>3 DEF OpenCall

-----------------------------------------------------------------------------
(* The steps of the task. *)

\* A step that does nothing outside, moves the approvals only by a commit or a loss, and leaves
\* the call or ends it.
QuietStep ==
    /\ GateGrows /\ UNCHANGED <<effects, plan>>
    /\ call' = call \/ call' = NoCall
    /\ pos' \in Nat \ {0}
    /\ appr' = appr \/ appr' = None
    /\ RollbackTyped'

LEMMA QuietKeeps ==
    ASSUME Typed, Granted, QuietStep
    PROVE Typed' /\ Granted'
<1>1. NoCall \in Call /\ NoCall.phase = "none"
  BY DEF NoCall, Call, Phases, Tools
<1>2. InForce(appr)'
  <2>1. InForce(appr) /\ InForce(None)
    BY DEF Granted, InForce
  <2> QED
    BY <2>1, StaysInForce DEF QuietStep, InForce, StillInForce
<1>3. CallPermitted'
  <2>1. CASE call' = NoCall
    BY <2>1, <1>1 DEF CallPermitted
  <2>2. CASE call' = call
    BY <2>2, StaysInForce
       DEF CallPermitted, Granted, QuietStep, Permitted, InForce, StillInForce
  <2> QED
    BY <2>1, <2>2 DEF QuietStep
<1>4. EffectsPermitted'
  BY EffectsStay DEF Granted, QuietStep
<1>5. Typed'
  BY <1>1 DEF Typed, QuietStep, GateGrows
<1> QED
  BY <1>2, <1>3, <1>4, <1>5 DEF Granted, QuietStep

\* Steps that do not touch the rollback.
LEMMA QuietAside ==
    ASSUME Typed, Granted, UNCHANGED rb, GateGrows
    PROVE RollbackTyped'
BY DEF Typed, RollbackTyped

LEMMA PipelineKeeps ==
    ASSUME Typed, Granted, PipelineStep
    PROVE Typed' /\ Granted'
<1>1. CASE Begin
  BY <1>1, GateMoves, QuietAside, QuietKeeps DEF Begin, Commit, QuietStep, Typed
<1>2. CASE SkipDone
  BY <1>2, GateMoves, QuietAside, QuietKeeps DEF SkipDone, gatewayVars, QuietStep, Typed
<1>3. CASE StartCall
  <2>1. plan.tools[pos] \in Tools
    BY <1>3, PlanFacts DEF StartCall, More
  <2>2. CallIsOpened(plan.tools[pos], appr) /\ UNCHANGED <<plan, pos, appr, rb>>
    BY <1>3, <2>1, OpensCall DEF StartCall, Typed
  <2>3. GateGrows /\ UNCHANGED effects
    BY <2>2 DEF CallIsOpened
  <2>4. InForce(appr)'
    BY <2>2, <2>3, StaysInForce DEF Granted, InForce, StillInForce
  <2>5. CallPermitted'
    BY <2>2, <2>4 DEF CallIsOpened, CallPermitted, Permitted, InForce
  <2>6. EffectsPermitted' /\ RollbackTyped'
    BY <2>2, <2>3, EffectsStay, QuietAside DEF Granted
  <2> QED
    BY <2>2, <2>3, <2>4, <2>5, <2>6 DEF Typed, Granted, CallIsOpened, GateGrows
<1>4. CASE InCall
  BY <1>4, GatewayGoesOn, GatewayKeeps DEF InCall, taskVars
<1>5. CASE CallReturned
  BY <1>5, GateMoves, QuietAside, QuietKeeps DEF CallReturned, Advance, Commit, QuietStep, Typed
<1>6. CASE CallReturnedUnsaved
  BY <1>6, GateMoves, QuietAside, QuietKeeps
     DEF CallReturnedUnsaved, Advance, RollBack, QuietStep, Typed
<1>7. CASE RetryLosesCommit
  BY <1>7, GatewayGoesOn, GatewayKeeps DEF RetryLosesCommit, taskVars
<1>8. CASE CallRaised
  BY <1>8, GateMoves, QuietAside, QuietKeeps DEF CallRaised, Commit, QuietStep, Typed
<1>9. CASE Pause
  BY <1>9, GateMoves, QuietAside, QuietKeeps DEF Pause, Commit, QuietStep, Typed
<1>10. CASE PauseUnsaved
  BY <1>10, GateMoves, QuietAside, QuietKeeps DEF PauseUnsaved, RollBack, QuietStep, Typed
<1>11. CASE \E s \in Statuses : Finish(s)
  BY <1>11, GateMoves, QuietAside, QuietKeeps DEF Finish, Commit, QuietStep, Typed
<1> QED
  BY <1>1, <1>2, <1>3, <1>4, <1>5, <1>6, <1>7, <1>8, <1>9, <1>10, <1>11 DEF PipelineStep

\* So does a decision, of an operator or of a rollback.
LEMMA DecisionKeeps ==
    ASSUME Typed, Granted, GateGrows, UNCHANGED <<call, effects, plan, pos>>,
           appr' \in Approvals \cup {None}, InForce(appr)', RollbackTyped'
    PROVE Typed' /\ Granted'
<1>1. \A a : InForce(a) => StillInForce(a)
  BY DEF GateGrows, InForce, StillInForce
<1>2. CallPermitted' /\ EffectsPermitted'
  BY <1>1 DEF Granted, CallPermitted, EffectsPermitted, Permitted, InForce, StillInForce
<1> QED
  BY <1>2 DEF Typed, Granted, GateGrows

LEMMA OthersKeep ==
    ASSUME Typed, Granted,
           \/ \E a \in Approvals : Grant(a) \/ Reject(a)
           \/ FailStale \/ CrashAndResume
           \/ BeginRollback \/ (\E ok \in BOOLEAN : Inverted(ok)) \/ EndRollback
    PROVE Typed' /\ Granted'
<1>1. ASSUME NEW a \in Approvals, Grant(a) PROVE Typed' /\ Granted'
  <2>1. GateGrows /\ UNCHANGED <<call, effects, plan, pos>> /\ appr' = a
    BY <1>1 DEF Grant, GateGrows, Grants, Typed, GateStatuses
  <2>2. gate'[a] = "granted"
    BY <1>1 DEF Grant, Typed
  <2>3. RollbackTyped'
    BY <1>1 DEF Grant, Typed, RollbackTyped
  <2> QED
    BY <2>1, <2>2, <2>3, DecisionKeeps DEF InForce, Grants
<1>2. ASSUME NEW a \in Approvals, Reject(a) PROVE Typed' /\ Granted'
  <2>1. GateGrows /\ UNCHANGED <<call, effects, plan, pos, rb, appr>>
    BY <1>2 DEF Reject, GateGrows, Grants, Typed, GateStatuses
  <2>2. InForce(appr)'
    BY <2>1 DEF Granted, InForce, GateGrows
  <2> QED
    BY <2>1, <2>2, DecisionKeeps DEF Typed, RollbackTyped
<1>3. CASE FailStale
  BY <1>3, GateMoves, QuietAside, QuietKeeps DEF FailStale, gatewayVars, QuietStep, Typed
<1>4. CASE CrashAndResume
  <2>1. /\ gate' = DropGate /\ call' = NoCall /\ UNCHANGED <<effects, plan, pos>>
        /\ appr' = None \/ appr' = appr
        /\ rb' = IF rb.phase = "run" THEN NoRollback ELSE rb
    BY <1>4 DEF CrashAndResume
  <2>2. GateGrows
    BY <2>1, GateMoves DEF Typed
  <2>3. CASE rb' = rb
    BY <2>1, <2>2, <2>3, QuietAside, QuietKeeps DEF QuietStep, Typed
  <2>4. CASE rb' = NoRollback
    <3>1. RollbackTyped'
      BY <2>4 DEF RollbackTyped, NoRollback
    <3> QED
      BY <2>1, <2>2, <3>1, QuietKeeps DEF QuietStep, Typed
  <2> QED
    BY <2>1, <2>3, <2>4
<1>5. CASE BeginRollback
  <2>1. /\ UNCHANGED <<gate, call, effects, plan, pos, appr>>
        /\ RollbackTyped'
    BY <1>5 DEF BeginRollback, gatewayVars, taskVars, RollbackTyped
  <2> QED
    BY <2>1, GateMoves, QuietKeeps DEF QuietStep, Typed
<1>6. ASSUME NEW ok \in BOOLEAN, Inverted(ok) PROVE Typed' /\ Granted'
  <2>1. UNCHANGED <<gate, call, effects, plan, pos, appr>>
    BY <1>6 DEF Inverted, taskVars
  <2>2. RollbackTyped'
    BY <1>6 DEF Inverted, Typed, RollbackTyped
  <2> QED
    BY <2>1, <2>2, GateMoves, QuietKeeps DEF QuietStep, Typed
<1>7. CASE EndRollback
  <2>1. UNCHANGED <<call, effects, plan, pos, appr>>
    BY <1>7 DEF EndRollback
  <2>2. RollbackTyped'
    BY <1>7 DEF EndRollback, Typed, RollbackTyped
  <2>3. GateGrows
    <3>1. gate' = [a \in Approvals |->
                      IF a \notin rb.seen THEN gate[a]
                      ELSE IF gate[a] \in Grants THEN "withdrawn" ELSE "cancelled"]
      BY <1>7 DEF EndRollback, WasGranted, Grants
    <3>2. gate \in [Approvals -> GateStatuses]
      BY DEF Typed
    <3> QED
      BY <3>1, <3>2 DEF GateGrows, Grants, GateStatuses
  <2>4. InForce(appr)'
    BY <2>1, <2>3 DEF Granted, InForce, GateGrows
  <2> QED
    BY <2>1, <2>2, <2>3, <2>4, DecisionKeeps DEF Typed
<1> QED
  BY <1>1, <1>2, <1>3, <1>4, <1>5, <1>6, <1>7

-----------------------------------------------------------------------------
\* At first no call is open and nothing was done.
LEMMA GrantsBegin == Init => Typed /\ Granted
<1> SUFFICES ASSUME Init PROVE Typed /\ Granted
  OBVIOUS
<1>1. call = NoCall /\ NoCall \in Call /\ NoCall.phase = "none"
  BY DEF Init, GatewayInit, NoCall, Call, Phases, Tools
<1>2. gate \in [Approvals -> GateStatuses]
  BY DEF Init, GateStatuses
<1>3. effects = <<>> /\ appr = None /\ pos = 1 /\ rb = NoRollback /\ plan \in Plans
  BY DEF Init, GatewayInit
<1>4. RollbackTyped
  BY <1>3 DEF RollbackTyped, NoRollback
<1> QED
  BY <1>1, <1>2, <1>3, <1>4
     DEF Typed, Granted, CallPermitted, EffectsPermitted, InForce

\* Both invariants hold of every behaviour.
THEOREM GrantsHold == Spec => [](Typed /\ Granted)
<1>1. Init => Typed /\ Granted
  BY GrantsBegin
<1>2. Typed /\ Granted /\ [Next]_vars => Typed' /\ Granted'
  <2> SUFFICES ASSUME Typed, Granted, [Next]_vars PROVE Typed' /\ Granted'
    OBVIOUS
  <2>1. CASE Next
    BY <2>1, PipelineKeeps, OthersKeep DEF Next
  <2>2. CASE UNCHANGED vars
    BY <2>2, GateMoves, QuietAside, QuietKeeps DEF vars, gatewayVars, taskVars, QuietStep, Typed
  <2> QED
    BY <2>1, <2>2
<1> QED
  BY <1>1, <1>2, PTL DEF Spec

\* What a guarded tool did outside was done under an approval that an operator granted.
THEOREM GuardedCorrect == Spec => []GuardedNeedsGrant
<1>1. Typed /\ Granted => GuardedNeedsGrant
  BY DEF Granted, EffectsPermitted, InForce, Grants, Permitted, WasGranted,
         GuardedNeedsGrant
<1> QED
  BY <1>1, GrantsHold, PTL

-----------------------------------------------------------------------------
(* A plan that is COMPLETED was carried out.  Every pass begins with the first call, so what   *)
(* must be known in its middle is that the calls behind it acted, that a call which is over    *)
(* acted too, and that pipeline_state remembers no call that did not.                          *)

Acted(t) == \E k \in DOMAIN effects : effects[k].tool = t
StillActed(t) == \E k \in DOMAIN effects' : effects'[k].tool = t

Settled(k) == (plan.tools[k] = Comment /\ excused) \/ Acted(plan.tools[k])
StillSettled(k) == (plan.tools[k] = Comment /\ excused') \/ StillActed(plan.tools[k])

Calls == DOMAIN plan.tools

PassIsDone == pc \in {"step", "calling"} => \A k \in Calls : k < pos => Settled(k)

CallIsOfPlan ==
    pc = "calling" =>
        /\ pos \in Calls /\ call.tool = plan.tools[pos]
        /\ call.phase \in {"confirm", "returned"} => Acted(call.tool)

RememberedIsDone == \A k \in done \cap Calls : Acted(plan.tools[k])

CompletedIsDone ==
    status = "completed" /\ plan.scenario # "muted" => \A k \in Calls : Settled(k)

Carried == PassIsDone /\ CallIsOfPlan /\ RememberedIsDone /\ CompletedIsDone

\* Effects are never taken back, and a call that goes on to its end has had one.
LEMMA EffectsGrow ==
    ASSUME Typed, CallGoesOn
    PROVE /\ \A t : Acted(t) => StillActed(t)
          /\ effects' = Append(effects, ItsEffect) => StillActed(call.tool)
<1>1. CASE effects' = effects
  <2>1. ItsEffect \in Effect
    BY DEF ItsEffect, Effect, Typed, Call
  <2>2. Len(effects) \in Nat /\ Len(Append(effects, ItsEffect)) = Len(effects) + 1
    BY <2>1 DEF Typed
  <2> QED
    BY <1>1, <2>2 DEF Acted, StillActed
<1>2. CASE effects' = Append(effects, ItsEffect)
  <2>1. ItsEffect \in Effect /\ ItsEffect.tool = call.tool
    BY DEF ItsEffect, Effect, Typed, Call
  <2>2. DOMAIN effects' = DOMAIN effects \cup {Len(effects) + 1}
    BY <1>2, <2>1 DEF Typed
  <2>3. \A k \in DOMAIN effects : effects'[k] = effects[k]
    BY <1>2, <2>1 DEF Typed
  <2>4. effects'[Len(effects) + 1] = ItsEffect
    BY <1>2, <2>1 DEF Typed
  <2> QED
    BY <2>1, <2>2, <2>3, <2>4 DEF Acted, StillActed
<1> QED
  BY <1>1, <1>2 DEF CallGoesOn

LEMMA EndsWithEffect ==
    ASSUME Typed, GatewayStep \/ RetryUnsaved, call'.phase \in {"confirm", "returned"}
    PROVE call.phase = "confirm" \/ effects' = Append(effects, ItsEffect)
<1>1. \A r, t \in BOOLEAN : Raised(r, t).phase = "failed"
  BY RaisedType DEF Typed
<1>2. \A ph \in Phases : [call EXCEPT !.phase = ph].phase = ph
  BY PhaseMoves DEF Typed
<1>3. /\ NextAttempt.phase \in {"lookup", "post"}
      /\ [NextAttempt EXCEPT !.row = 0].phase \in {"lookup", "post"}
  BY NextAttemptType DEF Typed
<1>4. ~LookupAnswered /\ ~GiveUp
  BY <1>2 DEF LookupAnswered, GiveUp, Phases
<1>5. \A b, o \in BOOLEAN : ~LookupFailed(b, o) /\ ~PostLost(b, o) /\ ~PostRefused(b)
  BY <1>1 DEF LookupFailed, PostLost, PostRefused
<1>6. ~Retry /\ ~RetryUnsaved
  BY <1>3 DEF Retry, RetryUnsaved
<1>7. PostAnswered \/ ConfirmAnswered
  BY <1>4, <1>5, <1>6 DEF GatewayStep
<1> QED
  BY <1>7 DEF PostAnswered, ConfirmAnswered, CarriedOut, ItsEffect

\* What was settled stays settled while effects only grow and an excuse is not withdrawn.
LEMMA StaysSettled ==
    ASSUME excused => excused', \A t : Acted(t) => StillActed(t)
    PROVE \A k : Settled(k) => StillSettled(k)
BY DEF Settled, StillSettled

LEMMA SettledNext ==
    ASSUME UNCHANGED plan
    PROVE Calls' = Calls /\ \A k : StillSettled(k) <=> Settled(k)'
BY DEF Calls, Settled, StillSettled, Acted, StillActed

\* Steps that leave effects, plan and memory alone.
LEMMA CarriedStays ==
    ASSUME Carried, UNCHANGED <<effects, plan>>, done' \subseteq done, excused => excused',
           PassIsDone', CallIsOfPlan', status' = "completed" => CompletedIsDone'
    PROVE Carried'
BY DEF Carried, RememberedIsDone, CompletedIsDone, Calls, Acted

LEMMA GatewayCarries ==
    ASSUME Typed, Carried, pc = "calling", GatewayStep \/ RetryUnsaved,
           UNCHANGED <<taskVars>>
    PROVE Carried'
<1>1. CallGoesOn
  BY GatewayGoesOn
<1>2. (\A t : Acted(t) => StillActed(t)) /\ UNCHANGED <<plan, status, pc, pos, done, excused>>
  BY <1>1, EffectsGrow DEF taskVars
<1>3. call'.phase \in {"confirm", "returned"} => StillActed(call.tool)
  BY <1>1, <1>2, EndsWithEffect, EffectsGrow DEF Carried, CallIsOfPlan
<1>4. \A k \in Calls : Settled(k) => StillSettled(k)
  BY <1>2, StaysSettled
<1>5. PassIsDone'
  BY <1>2, <1>4, SettledNext DEF Carried, PassIsDone
<1>6. CallIsOfPlan'
  BY <1>1, <1>2, <1>3 DEF Carried, CallIsOfPlan, CallGoesOn, Calls, Acted, StillActed
<1>7. RememberedIsDone'
  BY <1>2 DEF Carried, RememberedIsDone, Calls, Acted, StillActed
<1>8. CompletedIsDone'
  BY <1>2, <1>4, SettledNext DEF Carried, CompletedIsDone
<1> QED
  BY <1>5, <1>6, <1>7, <1>8 DEF Carried

LEMMA PipelineCarries ==
    ASSUME Typed, Carried, PipelineStep
    PROVE Carried'
<1>c. /\ Len(plan.tools) \in Nat /\ Calls = 1..Len(plan.tools) /\ pos \in Nat \ {0}
      /\ plan.scenario = "writeback" => \A k \in 1..(Len(plan.tools) - 1) : plan.tools[k] = Comment
  <2>1. plan.tools \in Seq(Tools) /\ plan \in Plans
    BY EffectsAssumption DEF Typed
  <2> QED
    BY <2>1, EffectsAssumption DEF Typed, Calls
<1>1. CASE Begin
  BY <1>1, <1>c, CarriedStays DEF Begin, PassIsDone, CallIsOfPlan, Calls
<1>2. CASE SkipDone
  <2>1. /\ pos \in done /\ pos' = pos + 1 /\ pc = "step"
        /\ UNCHANGED <<effects, plan, done, excused, status, pc>>
    BY <1>2 DEF SkipDone, Remembered, gatewayVars
  <2>2. Calls' = Calls /\ \A k \in Calls : Settled(k) => Settled(k)'
    BY <2>1 DEF Calls, Settled, Acted
  <2>3. PassIsDone'
    BY <2>1, <2>2, <1>c DEF Carried, PassIsDone, RememberedIsDone, Settled
  <2> QED
    BY <2>1, <2>3, CarriedStays DEF CallIsOfPlan, Carried, CompletedIsDone, Calls, Settled, Acted
<1>3. CASE StartCall
  <2>1. /\ pos \in Calls /\ pc = "step" /\ OpenCall(plan.tools[pos], appr)
        /\ UNCHANGED <<plan, done, excused, status, pos>>
    BY <1>3, <1>c DEF StartCall, More
  <2>2. CallIsOpened(plan.tools[pos], appr)
    BY <2>1, <1>c, PlanFacts, OpensCall DEF Typed
  <2>3. UNCHANGED effects /\ CallIsOfPlan'
    BY <2>1, <2>2 DEF CallIsOpened, CallIsOfPlan, Calls
  <2>4. PassIsDone' /\ CompletedIsDone'
    BY <2>1, <2>3 DEF Carried, PassIsDone, CompletedIsDone, Calls, Settled, Acted
  <2> QED
    BY <2>1, <2>3, <2>4, CarriedStays
<1>4. CASE InCall
  BY <1>4, GatewayCarries DEF InCall
<1>5. CASE CallReturned \/ CallReturnedUnsaved
  <2>1. /\ pc = "calling" /\ call.phase = "returned" /\ pc' = "step" /\ pos' = pos + 1
        /\ done' \subseteq done \cup {pos} /\ UNCHANGED <<effects, plan, excused, status>>
    BY <1>5 DEF CallReturned, CallReturnedUnsaved, Advance
  <2>2. pos \in Calls /\ Acted(plan.tools[pos])
    BY <2>1 DEF Carried, CallIsOfPlan
  <2>3. Calls' = Calls /\ \A k \in Calls : Settled(k) => Settled(k)'
    BY <2>1 DEF Calls, Settled, Acted
  <2>4. PassIsDone'
    BY <2>1, <2>2, <2>3, <1>c DEF Carried, PassIsDone, Settled
  <2>5. RememberedIsDone'
    BY <2>1, <2>2 DEF Carried, RememberedIsDone, Calls, Acted
  <2> QED
    BY <2>1, <2>3, <2>4, <2>5 DEF Carried, CallIsOfPlan, CompletedIsDone
<1>6. CASE RetryLosesCommit
  BY <1>6, GatewayCarries DEF RetryLosesCommit
<1>7. CASE CallRaised
  <2>1. pc = "calling" /\ UNCHANGED <<effects, plan, done>>
    BY <1>7 DEF CallRaised
  <2>2. CASE plan.scenario = "writeback" /\ pos < Len(plan.tools)
    <3>1. excused' = TRUE /\ pos' = pos + 1 /\ pc' = "step" /\ status' = status
      BY <1>7, <2>2 DEF CallRaised
    <3>2. plan.tools[pos] = Comment
      BY <2>2, <1>c
    <3>3. Calls' = Calls /\ \A k \in Calls : Settled(k) \/ k = pos => Settled(k)'
      BY <2>1, <3>1, <3>2 DEF Calls, Settled, Acted
    <3>4. PassIsDone'
      BY <2>1, <3>1, <3>3, <1>c DEF Carried, PassIsDone
    <3> QED
      BY <2>1, <3>1, <3>3, <3>4, CarriedStays DEF CallIsOfPlan, CompletedIsDone, Carried
  <2>3. CASE ~(plan.scenario = "writeback" /\ pos < Len(plan.tools))
    <3>1. status' = "failed" /\ pc' = "idle" /\ UNCHANGED <<pos, excused>>
      BY <1>7, <2>3 DEF CallRaised
    <3> QED
      BY <2>1, <3>1, CarriedStays DEF PassIsDone, CallIsOfPlan
  <2> QED
    BY <2>2, <2>3
<1>8. CASE Pause \/ PauseUnsaved
  <2>1. /\ UNCHANGED <<effects, plan, done, excused>> /\ pc' = "idle"
        /\ status' = "awaiting_approval" \/ status' = status
    BY <1>8 DEF Pause, PauseUnsaved
  <2>2. status' = "completed" => CompletedIsDone'
    BY <2>1 DEF Carried, CompletedIsDone, Calls, Settled, Acted
  <2> QED
    BY <2>1, <2>2, CarriedStays DEF PassIsDone, CallIsOfPlan
<1>9. CASE \E s \in Statuses : Finish(s)
  <2>1. /\ UNCHANGED <<effects, plan, done, excused>> /\ pc' = "idle" /\ pc = "step"
        /\ plan.scenario = "muted" \/ pos > Len(plan.tools)
    BY <1>9, <1>c DEF Finish, More
  <2>2. plan.scenario # "muted" => \A k \in Calls : Settled(k)
    BY <2>1, <1>c DEF Carried, PassIsDone
  <2>3. CompletedIsDone'
    BY <2>1, <2>2 DEF CompletedIsDone, Calls, Settled, Acted
  <2> QED
    BY <2>1, <2>3, CarriedStays DEF PassIsDone, CallIsOfPlan
<1> QED
  BY <1>1, <1>2, <1>3, <1>4, <1>5, <1>6, <1>7, <1>8, <1>9 DEF PipelineStep

\* Operators, watchdog, deaths and rollbacks move the pass only to its start or its end.
LEMMA OthersCarry ==
    ASSUME Carried,
           \/ \E a \in Approvals : Grant(a) \/ Reject(a)
           \/ FailStale \/ CrashAndResume
           \/ BeginRollback \/ (\E ok \in BOOLEAN : Inverted(ok)) \/ EndRollback
    PROVE Carried'
<1>1. UNCHANGED <<effects, plan, excused, pos>> /\ done' \subseteq done
  BY DEF Grant, Reject, FailStale, CrashAndResume, BeginRollback, Inverted, EndRollback,
         CleansSandbox, gatewayVars, taskVars
<1>2. pc' \in {"idle", "begin"} \/ UNCHANGED <<pc, call>>
  BY DEF Grant, Reject, FailStale, CrashAndResume, BeginRollback, Inverted, EndRollback,
         gatewayVars, taskVars
<1>3. status' # "completed" \/ status' = status
  BY DEF Grant, Reject, FailStale, CrashAndResume, BeginRollback, Inverted, EndRollback,
         gatewayVars, taskVars
<1>4. PassIsDone' /\ CallIsOfPlan'
  BY <1>1, <1>2 DEF Carried, PassIsDone, CallIsOfPlan, Calls, Settled, Acted
<1>5. status' = "completed" => CompletedIsDone'
  BY <1>1, <1>3 DEF Carried, CompletedIsDone, Calls, Settled, Acted
<1> QED
  BY <1>1, <1>4, <1>5, CarriedStays

LEMMA StepCarries ==
    ASSUME Typed, Carried, [Next]_vars
    PROVE Carried'
<1>1. CASE Next
  BY <1>1, PipelineCarries, OthersCarry DEF Next
<1>2. CASE UNCHANGED vars
  BY <1>2 DEF vars, gatewayVars, taskVars, Carried, PassIsDone, CallIsOfPlan, RememberedIsDone,
              CompletedIsDone, Calls, Settled, Acted
<1> QED
  BY <1>1, <1>2

\* COMPLETED means that every call of the plan acted, whatever was retried, resumed, remembered
\* or begun again, except a comment that failed before a transition.
THEOREM CompletedCorrect == Spec => []CompletedMeansDone
<1>1. Init => Carried
  BY DEF Init, Carried, PassIsDone, CallIsOfPlan, RememberedIsDone, CompletedIsDone
<1>2. Typed /\ Carried /\ [Next]_vars => Carried'
  BY StepCarries
<1>3. Carried => CompletedMeansDone
  BY DEF Carried, CompletedIsDone, Calls, Settled, Acted, Made, CompletedMeansDone
<1>4. (Typed /\ Granted) => Typed
  OBVIOUS
<1> QED
  BY <1>1, <1>2, <1>3, <1>4, GrantsHold, PTL DEF Spec

-----------------------------------------------------------------------------
(* What a step of the gateway does to rows, call and world: it passes on, it writes a success,  *)
(* it gives up, or it tries again.                                                              *)

SameCall ==
    /\ call' \in Call /\ call'.row = call.row /\ call'.tool = call.tool /\ call'.appr = call.appr

Passes ==
    /\ SameCall /\ call'.attempt = call.attempt
    /\ call.phase \in {"lookup", "post", "confirm"}
    /\ call'.phase \in {"post", "confirm", "failed"}
    /\ call'.phase = "post" => effects' = effects /\ call.phase = "lookup"
    /\ UNCHANGED <<row, kept, gate, tree>>
    /\ \/ effects' = effects
       \/ effects' = Append(effects, ItsEffect) /\ call.phase = "post" /\ call.tool # Patch

RowSucceeded ==
    [row EXCEPT ![call.row] = [@ EXCEPT !.status = "SUCCEEDED", !.attempts = call.attempt,
                                        !.inverse = InverseAction(call.tool), !.before = tree]]

Succeeds ==
    /\ SameCall /\ call'.attempt = call.attempt
    /\ call.phase \in {"post", "confirm"} /\ call'.phase = "returned"
    /\ UNCHANGED <<kept, gate>>
    /\ row' = IF call.row = 0 THEN row ELSE RowSucceeded
    /\ \/ call.phase = "confirm" /\ UNCHANGED <<effects, tree>>
       \/ call.phase = "post" /\ CarriedOut

GivesUp ==
    /\ SameCall /\ call'.attempt = call.attempt
    /\ call.phase = "failed" /\ call'.phase = "raised"
    /\ UNCHANGED <<kept, gate, effects, tree>>
    /\ \E s \in {"FAILED", "TIMED_OUT"} : row' = Written(row, call.row, s, call.attempt)

TriesAgain ==
    /\ SameCall /\ call'.attempt = call.attempt + 1 /\ call.attempt < Attempts(call.tool)
    /\ call.phase = "failed" /\ call'.phase \in {"lookup", "post"}
    /\ UNCHANGED <<effects, tree>>

Retries ==
    /\ TriesAgain
    /\ row' = Written(row, call.row, "RUNNING", call.attempt) /\ kept' = row'
    /\ gate' = CommitGate

LEMMA PhaseMoves2 ==
    ASSUME call \in Call, NEW ph \in Phases, call' = [call EXCEPT !.phase = ph]
    PROVE SameCall /\ call'.attempt = call.attempt /\ call'.phase = ph
BY DEF Call, SameCall

LEMMA RaisedMoves ==
    ASSUME call \in Call, NEW r \in BOOLEAN, NEW t \in BOOLEAN, call' = Raised(r, t)
    PROVE SameCall /\ call'.attempt = call.attempt /\ call'.phase = "failed"
BY DEF Call, Raised, Phases, SameCall

LEMMA NextAttemptMoves ==
    ASSUME call \in Call
    PROVE /\ NextAttempt.row = call.row /\ NextAttempt.attempt = call.attempt + 1
          /\ [NextAttempt EXCEPT !.row = 0].attempt = call.attempt + 1
<1>1. call.attempt + 1 \in Nat /\ FirstPhase(call.tool) \in Phases
  BY DEF Call, FirstPhase, Phases
<1>2. DOMAIN call = {"phase", "row", "tool", "appr", "attempt", "retryable", "timedOut"}
  BY DEF Call
<1>3. /\ NextAttempt.row = call.row /\ NextAttempt.attempt = call.attempt + 1
      /\ DOMAIN NextAttempt = DOMAIN call
  BY <1>2 DEF NextAttempt
<1> QED
  BY <1>2, <1>3

LEMMA GatewayKinds ==
    ASSUME Typed, GatewayStep
    PROVE Passes \/ Succeeds \/ GivesUp \/ Retries
<1> USE DEF Typed
<1>t. {"post", "failed", "confirm", "returned", "raised", "lookup"} \subseteq Phases
  BY DEF Phases
<1>1. CASE LookupAnswered
  BY <1>1, <1>t, PhaseMoves2 DEF LookupAnswered, Passes
<1>2. CASE \E b, o \in BOOLEAN : LookupFailed(b, o)
  BY <1>2, RaisedMoves DEF LookupFailed, Passes
<1>3. CASE PostAnswered /\ call.tool = Transition
  <2>1. call' = [call EXCEPT !.phase = "confirm"] /\ UNCHANGED <<row, kept, gate>>
    BY <1>3 DEF PostAnswered
  <2>2. call.phase = "post" /\ effects' = Append(effects, ItsEffect) /\ tree' = tree
    BY <1>3 DEF PostAnswered, CarriedOut, ItsEffect, Transition, Patch
  <2>3. call.tool # Patch
    BY <1>3 DEF Transition, Patch
  <2> QED
    BY <2>1, <2>2, <2>3, <1>t, PhaseMoves2 DEF Passes
<1>4. CASE PostAnswered /\ call.tool # Transition
  <2>1. call' = [call EXCEPT !.phase = "returned"]
    BY <1>4 DEF PostAnswered, Succeeded
  <2>2. row' = IF call.row = 0 THEN row ELSE RowSucceeded
    BY <1>4 DEF PostAnswered, Succeeded, RowSucceeded
  <2> QED
    BY <1>4, <2>1, <2>2, <1>t, PhaseMoves2 DEF PostAnswered, Succeeds
<1>5. CASE ConfirmAnswered
  <2>1. call' = [call EXCEPT !.phase = "returned"]
    BY <1>5 DEF ConfirmAnswered, Succeeded
  <2>2. row' = IF call.row = 0 THEN row ELSE RowSucceeded
    BY <1>5 DEF ConfirmAnswered, Succeeded, RowSucceeded
  <2> QED
    BY <1>5, <2>1, <2>2, <1>t, PhaseMoves2 DEF ConfirmAnswered, Succeeds
<1>6. CASE \E r \in BOOLEAN : PostRefused(r)
  BY <1>6, RaisedMoves DEF PostRefused, Passes
<1>7. ASSUME NEW b \in BOOLEAN, NEW o \in BOOLEAN, PostLost(b, o) PROVE Passes
  <2>1. SameCall /\ call'.attempt = call.attempt /\ call'.phase = "failed"
    BY <1>7, RaisedMoves DEF PostLost
  <2>2. tree' = tree /\ (effects' = effects \/ effects' = Append(effects, ItsEffect))
    BY <1>7 DEF PostLost, CarriedOut, ItsEffect
  <2> QED
    BY <1>7, <2>1, <2>2 DEF PostLost, Passes
<1>8. CASE Retry
  BY <1>8, NextAttemptType, NextAttemptMoves DEF Retry, Again, Retries, TriesAgain, SameCall
<1>9. CASE GiveUp
  <2>1. row' = Written(row, call.row, IF call.timedOut THEN "TIMED_OUT" ELSE "FAILED",
                       call.attempt)
    BY <1>9 DEF GiveUp
  <2>2. \E s \in {"FAILED", "TIMED_OUT"} : row' = Written(row, call.row, s, call.attempt)
    BY <2>1
  <2>3. /\ call' = [call EXCEPT !.phase = "raised"] /\ call.phase = "failed"
        /\ UNCHANGED <<kept, gate, effects, tree>>
    BY <1>9 DEF GiveUp
  <2> QED
    BY <2>2, <2>3, <1>t, PhaseMoves2 DEF GivesUp
<1> QED
  BY <1>1, <1>2, <1>3, <1>4, <1>5, <1>6, <1>7, <1>8, <1>9 DEF GatewayStep

\* The row a call writes to gets its status and keeps the rest, and other rows are left alone.
Rewritten(r, w, i, s) ==
    /\ w \in [Rows -> Row]
    /\ \A j \in Rows \ {i} : w[j] = r[j]
    /\ i \in Rows =>
          /\ w[i].status = s /\ w[i].tool = r[i].tool /\ w[i].appr = r[i].appr
          /\ w[i].inverse = r[i].inverse /\ w[i].before = r[i].before

LEMMA WrittenRow ==
    ASSUME NEW r \in [Rows -> Row], NEW i \in Rows \cup {0}, NEW s \in RowStatuses, NEW n \in Nat
    PROVE Rewritten(r, Written(r, i, s, n), i, s)
<1>0. 0 \notin Rows
  BY DEF Rows
<1>1. CASE i = 0
  BY <1>0, <1>1 DEF Written, Rewritten
<1>2. CASE i \in Rows
  <2> DEFINE x == [r[i] EXCEPT !.status = s, !.attempts = n]
  <2>1. r[i] \in Row
    BY <1>2
  <2>2. /\ x \in Row /\ x.status = s /\ x.tool = r[i].tool /\ x.appr = r[i].appr
        /\ x.inverse = r[i].inverse /\ x.before = r[i].before
    BY <2>1 DEF Row
  <2>3. Written(r, i, s, n) = [r EXCEPT ![i] = x]
    BY <1>0, <1>2 DEF Written
  <2> HIDE DEF x
  <2> QED
    BY <1>2, <2>2, <2>3 DEF Rewritten
<1> QED
  BY <1>1, <1>2

LEMMA SucceededRow ==
    ASSUME row \in [Rows -> Row], tree \in Seq(Rows), call \in Call, call.row \in Rows
    PROVE /\ RowSucceeded \in [Rows -> Row]
          /\ \A j \in Rows \ {call.row} : RowSucceeded[j] = row[j]
          /\ RowSucceeded[call.row].status = "SUCCEEDED"
          /\ RowSucceeded[call.row].tool = row[call.row].tool
          /\ RowSucceeded[call.row].appr = row[call.row].appr
          /\ RowSucceeded[call.row].inverse = InverseAction(call.tool)
          /\ RowSucceeded[call.row].before = tree
<1> DEFINE v == InverseAction(call.tool)
           n == call.attempt
           i == call.row
           x == [row[i] EXCEPT !.status = "SUCCEEDED", !.attempts = n, !.inverse = v,
                               !.before = tree]
<1>1. v \in {"none", "git_revert", "placeholder"} /\ n \in Nat /\ row[i] \in Row
  <2>1. call.tool \in Tools /\ n \in Nat
    BY DEF Call
  <2> QED
    BY <2>1 DEF InverseAction, Tools, Comment, Transition, Request, Patch
<1>2. RowSucceeded = [row EXCEPT ![i] = x]
  BY DEF RowSucceeded
<1> HIDE DEF v, n, i
<1>3. /\ x \in Row /\ x.status = "SUCCEEDED" /\ x.tool = row[i].tool /\ x.appr = row[i].appr
      /\ x.inverse = v /\ x.before = tree
  BY <1>1 DEF Row, RowStatuses
<1>4. i \in Rows
  BY DEF i
<1> HIDE DEF x
<1>5. /\ RowSucceeded \in [Rows -> Row] /\ \A j \in Rows \ {i} : RowSucceeded[j] = row[j]
      /\ RowSucceeded[i] = x
  BY <1>2, <1>3, <1>4
<1> QED
  BY <1>3, <1>5 DEF v, i

-----------------------------------------------------------------------------
\* Numbers have a first.
LEMMA HasFirst ==
    ASSUME NEW T, T \subseteq Nat, T # {}
    PROVE \E i \in T : \A j \in T : i <= j
<1>0. T \subseteq Nat /\ T # {}
  OBVIOUS
<1>1. PICK x \in T : \A y \in T : ~(<<y, x>> \in OpToRel(<, Nat))
  <2> DEFINE R == OpToRel(<, Nat)
  <2>1. IsWellFoundedOn(R, Nat)
    BY NatLessThanWellFounded
  <2> HIDE DEF R
  <2>2. \E x \in T : \A y \in T : ~(<<y, x>> \in R)
    BY <2>1, WFMin
  <2> QED
    BY <2>2 DEF R
<1>2. \A y \in T : ~(y < x)
  BY <1>0, <1>1 DEF OpToRel
<1> QED
  BY <1>0, <1>2

\* A set of rows has a newest and an oldest.
LEMMA NewestIsLast ==
    ASSUME NEW S, S \subseteq Rows, S # {}
    PROVE /\ Newest(S) \in S /\ \A j \in S : j <= Newest(S)
          /\ \E i \in S : \A j \in S : i <= j
<1>0. MaxRows \in Nat /\ S \subseteq Nat /\ \A i \in S : i <= MaxRows
  BY GatewayAssumption DEF Rows
<1> DEFINE T == {n \in Nat : MaxRows - n \in S}
<1>1. \A i \in S : MaxRows - i \in T
  BY <1>0
<1>2. T \subseteq Nat /\ T # {} /\ \A n \in T : MaxRows - n \in S
  BY <1>1
<1> HIDE DEF T
<1>3. PICK x \in T : \A y \in T : x <= y
  BY <1>2, HasFirst
<1>4. \A j \in S : j <= MaxRows - x
  <2> SUFFICES ASSUME NEW j \in S PROVE j <= MaxRows - x
    OBVIOUS
  <2>1. x <= MaxRows - j /\ j \in Nat /\ x \in Nat
    BY <1>0, <1>1, <1>2, <1>3
  <2> QED
    BY <2>1, <1>0
<1>5. MaxRows - x \in S
  BY <1>2
<1>6. Newest(S) \in S /\ \A j \in S : j <= Newest(S)
  BY <1>4, <1>5 DEF Newest
<1>7. \E i \in S : \A j \in S : i <= j
  BY <1>0, HasFirst
<1> QED
  BY <1>6, <1>7

-----------------------------------------------------------------------------
(* All types. *)

RowsTyped == row \in [Rows -> Row] /\ kept \in [Rows -> Row] /\ tree \in Seq(Rows)

RollbackFields ==
    /\ rb.phase \in {"none", "run", "done"} /\ rb.ok \in BOOLEAN /\ rb.quiet \in BOOLEAN
    /\ rb.todo \subseteq Rows /\ rb.seen \subseteq Approvals

TaskTyped ==
    /\ status \in Statuses /\ ckpt \in {"review_pre", "awaiting_approval", "review_post"}
    /\ pc \in {"idle", "begin", "step", "calling"}
    /\ done \subseteq Nat /\ excused \in BOOLEAN
    /\ crashes \in Nat /\ losses \in Nat

AllTyped == Typed /\ RowsTyped /\ RollbackFields /\ TaskTyped

LEMMA GatewayRows ==
    ASSUME Typed, RowsTyped, GatewayStep \/ RetryUnsaved
    PROVE RowsTyped'
<1> USE DEF RowsTyped
<1>c. call \in Call /\ call.row \in Rows \cup {0} /\ call.attempt \in Nat
  BY DEF Typed, Call
<1>1. CASE Passes
  BY <1>1 DEF Passes
<1>2. CASE Succeeds
  <2>1. row' \in [Rows -> Row]
    BY <1>2, <1>c, SucceededRow DEF Succeeds
  <2>2. tree' \in Seq(Rows)
    <3>1. call.row # 0 => Append(tree, call.row) \in Seq(Rows)
      BY <1>c
    <3>2. tree' = tree \/ (call.row # 0 /\ tree' = Append(tree, call.row))
      BY <1>2 DEF Succeeds, CarriedOut, Patched
    <3> QED
      BY <3>1, <3>2
  <2> QED
    BY <1>2, <2>1, <2>2 DEF Succeeds
<1>3. CASE GivesUp
  <2>1. PICK s \in {"FAILED", "TIMED_OUT"} : row' = Written(row, call.row, s, call.attempt)
    BY <1>3 DEF GivesUp
  <2>2. s \in RowStatuses
    BY DEF RowStatuses
  <2>3. row' \in [Rows -> Row]
    BY <2>1, <2>2, <1>c, WrittenRow DEF Rewritten
  <2> QED
    BY <1>3, <2>3 DEF GivesUp
<1>4. CASE Retries
  <2>1. "RUNNING" \in RowStatuses
    BY DEF RowStatuses
  <2>2. row' \in [Rows -> Row]
    BY <1>4, <2>1, <1>c, WrittenRow DEF Rewritten, Retries
  <2> QED
    BY <1>4, <2>2 DEF Retries, TriesAgain
<1>5. CASE RetryUnsaved
  BY <1>5 DEF RetryUnsaved, RollBack
<1> QED
  BY <1>1, <1>2, <1>3, <1>4, <1>5, GatewayKinds

\* A call takes a row that waited for its approval, or one that is new.
NewRow(t, a, s) == [NoRow EXCEPT !.tool = t, !.appr = a, !.status = s]

LEMMA NewRowType ==
    ASSUME NEW t \in Tools, NEW a \in Approvals \cup {None}, NEW s \in RowStatuses
    PROVE /\ NewRow(t, a, s) \in Row
          /\ NewRow(t, a, s).tool = t /\ NewRow(t, a, s).appr = a
          /\ NewRow(t, a, s).status = s
          /\ NewRow(t, a, s).inverse = "none" /\ NewRow(t, a, s).before = <<>>
<1>1. NoRow \in Row /\ NoRow.inverse = "none" /\ NoRow.before = <<>>
  <2>1. Request \in Tools /\ "absent" \in RowStatuses /\ <<>> \in Seq(Rows) /\ 0 \in Nat
    BY DEF Tools, RowStatuses
  <2> QED
    BY <2>1 DEF NoRow, Row
<1>2. ASSUME NEW r \in Row
      PROVE LET x == [r EXCEPT !.tool = t, !.appr = a, !.status = s]
            IN /\ x \in Row /\ x.tool = t /\ x.appr = a /\ x.status = s
               /\ x.inverse = r.inverse /\ x.before = r.before
  BY DEF Row
<1> QED
  BY <1>1, <1>2 DEF NewRow

LEMMA OpenedRow ==
    ASSUME NEW t \in Tools, NEW a \in Approvals \cup {None}, NEW i \in Rows, NEW ph \in Phases
    PROVE OpenedAt(t, a, i, ph).row = i /\ OpenedAt(t, a, i, ph).attempt = 1
BY DEF OpenedAt, Opened, NoCall

Resumes(t, a) ==
    \E i \in Rows :
        /\ row[i].status = "PENDING_APPROVAL" /\ row[i].appr = a /\ row[i].tool = t /\ a # None
        /\ row' = [row EXCEPT ![i].status = "RUNNING"]
        /\ call' = OpenedAt(t, a, i, FirstPhase(t)) /\ gate' = CommitGate

Starts(t, a) ==
    \E i \in Rows :
        /\ \A j \in Rows : ~Resumable(t, a, j)
        /\ FreeRow(i)
        /\ row' = [row EXCEPT ![i] = NewRow(t, a, "RUNNING")]
        /\ call' = OpenedAt(t, a, i, FirstPhase(t)) /\ gate' = CommitGate

Asks(t) ==
    \E i \in Rows, b \in Approvals :
        /\ FreeRow(i) /\ gate[b] = "unused"
        /\ row' = [row EXCEPT ![i] = NewRow(t, b, "PENDING_APPROVAL")]
        /\ call' = OpenedAt(t, b, i, "gated")
        /\ gate' = [CommitGate EXCEPT ![b] = "flushed"]

LEMMA OpenKinds ==
    ASSUME NEW t, NEW a, OpenCall(t, a)
    PROVE /\ kept' = row /\ UNCHANGED <<effects, tree>>
          /\ Resumes(t, a) \/ Starts(t, a) \/ (a = None /\ Asks(t))
<1>1. CASE ResumeCall(t, a)
  BY <1>1 DEF ResumeCall, Resumes, Resumable, OpenedAt
<1>2. CASE NewCall(t, a)
  BY <1>2 DEF NewCall, Starts, OpenedAt, NewRow
<1>3. CASE a = None /\ GatedCall(t)
  BY <1>3 DEF GatedCall, Asks, Fresh, OpenedAt, NewRow
<1> QED
  BY <1>1, <1>2, <1>3 DEF OpenCall

LEMMA OpenRows ==
    ASSUME RowsTyped, NEW t \in Tools, NEW a \in Approvals \cup {None}, OpenCall(t, a)
    PROVE RowsTyped'
<1> USE DEF RowsTyped
<1>0. {"RUNNING", "PENDING_APPROVAL"} \subseteq RowStatuses
  BY DEF RowStatuses
<1>1. kept' = row /\ tree' = tree
  BY OpenKinds
<1>2. CASE Resumes(t, a)
  <2>1. PICK i \in Rows : row' = [row EXCEPT ![i].status = "RUNNING"]
    BY <1>2 DEF Resumes
  <2>2. [row[i] EXCEPT !.status = "RUNNING"] \in Row
    BY <1>0 DEF Row
  <2> QED
    BY <1>1, <2>1, <2>2
<1>3. CASE Starts(t, a)
  <2>1. PICK i \in Rows : row' = [row EXCEPT ![i] = NewRow(t, a, "RUNNING")]
    BY <1>3 DEF Starts
  <2>2. NewRow(t, a, "RUNNING") \in Row
    BY <1>0, NewRowType
  <2> QED
    BY <1>1, <2>1, <2>2
<1>4. CASE Asks(t)
  <2>1. PICK i \in Rows, b \in Approvals :
           row' = [row EXCEPT ![i] = NewRow(t, b, "PENDING_APPROVAL")]
    BY <1>4 DEF Asks
  <2>2. NewRow(t, b, "PENDING_APPROVAL") \in Row
    BY <1>0, NewRowType
  <2> QED
    BY <1>1, <2>1, <2>2
<1> QED
  BY <1>2, <1>3, <1>4, OpenKinds

LEMMA RowsStay ==
    ASSUME RowsTyped, row' \in {row, kept}, kept' \in {row, kept}, UNCHANGED tree
    PROVE RowsTyped'
BY DEF RowsTyped

LEMMA PipelineTypes ==
    ASSUME AllTyped, PipelineStep
    PROVE RowsTyped' /\ RollbackFields' /\ TaskTyped'
<1> USE DEF AllTyped
<1>f. UNCHANGED rb => RollbackFields'
  BY DEF RollbackFields
<1>p. pos \in Nat
  BY DEF Typed
<1>1. CASE Begin
  BY <1>1, <1>f, RowsStay DEF Begin, Commit, TaskTyped, Statuses
<1>2. CASE SkipDone
  BY <1>2, <1>f, RowsStay DEF SkipDone, gatewayVars, TaskTyped
<1>3. CASE StartCall
  <2>1. plan.tools[pos] \in Tools
    BY <1>3, PlanFacts DEF StartCall, More
  <2>2. RowsTyped'
    BY <1>3, <2>1, OpenRows DEF StartCall, Typed
  <2> QED
    BY <1>3, <2>2, <1>f DEF StartCall, TaskTyped
<1>4. CASE InCall
  BY <1>4, <1>f, GatewayRows DEF InCall, taskVars, TaskTyped
<1>5. CASE CallReturned
  BY <1>5, <1>f, <1>p, RowsStay DEF CallReturned, Advance, Commit, TaskTyped
<1>6. CASE CallReturnedUnsaved
  BY <1>6, <1>f, <1>p, RowsStay DEF CallReturnedUnsaved, Advance, RollBack, TaskTyped
<1>7. CASE RetryLosesCommit
  BY <1>7, <1>f, GatewayRows DEF RetryLosesCommit, taskVars, TaskTyped
<1>8. CASE CallRaised
  BY <1>8, <1>f, RowsStay DEF CallRaised, Commit, TaskTyped, Statuses
<1>9. CASE Pause
  BY <1>9, <1>f, RowsStay DEF Pause, Commit, TaskTyped, Statuses
<1>10. CASE PauseUnsaved
  BY <1>10, <1>f, RowsStay DEF PauseUnsaved, RollBack, TaskTyped
<1>11. CASE \E s \in Statuses : Finish(s)
  BY <1>11, <1>f, RowsStay DEF Finish, Commit, TaskTyped
<1> QED
  BY <1>1, <1>2, <1>3, <1>4, <1>5, <1>6, <1>7, <1>8, <1>9, <1>10, <1>11 DEF PipelineStep

LEMMA OthersType ==
    ASSUME AllTyped,
           \/ \E a \in Approvals : Grant(a) \/ Reject(a)
           \/ FailStale \/ CrashAndResume
           \/ BeginRollback \/ (\E ok \in BOOLEAN : Inverted(ok)) \/ EndRollback
    PROVE RowsTyped' /\ RollbackFields' /\ TaskTyped'
<1> USE DEF AllTyped
<1>f. UNCHANGED rb => RollbackFields'
  BY DEF RollbackFields
<1>d. DOMAIN rb = {"phase", "todo", "ok", "quiet", "seen"}
  BY DEF Typed, RollbackTyped
<1>1. ASSUME NEW a \in Approvals, Grant(a) PROVE RowsTyped' /\ RollbackFields' /\ TaskTyped'
  <2>1. rb' = [rb EXCEPT !.quiet = rb.quiet /\ rb.phase # "run"]
    BY <1>1 DEF Grant
  <2> DEFINE q == rb.quiet /\ rb.phase # "run"
  <2>2. q \in BOOLEAN /\ rb' = [rb EXCEPT !.quiet = q]
    BY <2>1 DEF RollbackFields
  <2> HIDE DEF q
  <2>3. RollbackFields'
    BY <2>2, <1>d DEF RollbackFields
  <2> QED
    BY <1>1, <2>3, RowsStay DEF Grant, TaskTyped
<1>2. ASSUME NEW a \in Approvals, Reject(a) PROVE RowsTyped' /\ RollbackFields' /\ TaskTyped'
  BY <1>2, <1>f, RowsStay DEF Reject, TaskTyped, Statuses
<1>3. CASE FailStale
  BY <1>3, <1>f, RowsStay DEF FailStale, gatewayVars, TaskTyped, Statuses
<1>4. CASE CrashAndResume
  <2>1. RollbackFields'
    BY <1>4 DEF CrashAndResume, NoRollback, RollbackFields
  <2>2. RowsTyped'
    <3>1. row' = kept /\ kept' = kept
      BY <1>4 DEF CrashAndResume
    <3>2. tree' = tree \/ \E n \in 0..Len(tree) : tree' = SubSeq(tree, 1, n)
      BY <1>4 DEF CrashAndResume, CleansSandbox
    <3>3. ASSUME NEW s \in Seq(Rows), NEW n \in 0..Len(s) PROVE SubSeq(s, 1, n) \in Seq(Rows)
      OBVIOUS
    <3>4. row \in [Rows -> Row] /\ kept \in [Rows -> Row] /\ tree \in Seq(Rows)
      BY DEF RowsTyped
    <3>5. tree' \in Seq(Rows)
      BY <3>2, <3>3, <3>4
    <3> QED
      BY <3>1, <3>4, <3>5 DEF RowsTyped
  <2>3. TaskTyped'
    <3>1. /\ crashes' = crashes + 1 /\ losses' = losses /\ pc' \in {"begin", "idle"}
          /\ done' \subseteq done /\ UNCHANGED <<status, ckpt, excused>>
      BY <1>4 DEF CrashAndResume, CleansSandbox
    <3> QED
      BY <3>1 DEF TaskTyped
  <2> QED
    BY <2>1, <2>2, <2>3
<1>5. CASE BeginRollback
  <2>1. rb' = [phase |-> "run", todo |-> Undoable, ok |-> TRUE, quiet |-> pc = "idle",
               seen |-> {a \in Approvals : gate[a] = "pending"}]
    BY <1>5 DEF BeginRollback
  <2> DEFINE q == pc = "idle"
             p == {a \in Approvals : gate[a] = "pending"}
  <2>2. q \in BOOLEAN /\ p \subseteq Approvals /\ Undoable \subseteq Rows
    BY DEF Undoable
  <2> HIDE DEF q, p
  <2>3. rb' = [phase |-> "run", todo |-> Undoable, ok |-> TRUE, quiet |-> q, seen |-> p]
    BY <2>1 DEF q, p
  <2>4. RollbackFields'
    BY <2>2, <2>3 DEF RollbackFields
  <2> QED
    BY <1>5, <2>4, RowsStay DEF BeginRollback, gatewayVars, taskVars, TaskTyped
<1>6. ASSUME NEW ok \in BOOLEAN, Inverted(ok)
      PROVE RowsTyped' /\ RollbackFields' /\ TaskTyped'
  <2> DEFINE i == Newest(rb.todo)
             k == rb.ok /\ ok
             q == StillQuiet
  <2>1. i \in Rows
    BY <1>6, NewestIsLast DEF RollbackFields, Inverted
  <2>2. k \in BOOLEAN /\ q \in BOOLEAN
    BY DEF RollbackFields, StillQuiet
  <2>3. rb' = [rb EXCEPT !.todo = rb.todo \ {i}, !.ok = k, !.quiet = q]
    BY <1>6 DEF Inverted
  <2>4. tree' = IF ok THEN kept[i].before ELSE tree
    BY <1>6 DEF Inverted
  <2> HIDE DEF i, k, q
  <2>5. RollbackFields'
    BY <2>2, <2>3, <1>d DEF RollbackFields
  <2>6. kept[i].before \in Seq(Rows)
    BY <2>1 DEF RowsTyped, Row
  <2>7. RowsTyped'
    BY <1>6, <2>4, <2>6 DEF RowsTyped, Inverted
  <2> QED
    BY <1>6, <2>5, <2>7 DEF Inverted, taskVars, TaskTyped
<1>7. CASE EndRollback
  <2> DEFINE q == StillQuiet
  <2>1. q \in BOOLEAN
    BY DEF RollbackFields, StillQuiet
  <2>2. rb' = [rb EXCEPT !.phase = "done", !.quiet = q, !.seen = {}]
    BY <1>7 DEF EndRollback
  <2> HIDE DEF q
  <2>3. RollbackFields'
    BY <2>1, <2>2, <1>d DEF RollbackFields
  <2> QED
    BY <1>7, <2>3, RowsStay DEF EndRollback, TaskTyped, Statuses
<1> QED
  BY <1>1, <1>2, <1>3, <1>4, <1>5, <1>6, <1>7

LEMMA AllTypesHold == Init /\ [][Next]_vars => [](AllTyped /\ Granted)
<1>1. Init => AllTyped /\ Granted
  <2> SUFFICES ASSUME Init PROVE AllTyped /\ Granted
    OBVIOUS
  <2>1. Typed /\ Granted
    BY GrantsBegin
  <2>2. NoRow \in Row
    <3>1. Request \in Tools /\ "absent" \in RowStatuses /\ <<>> \in Seq(Rows) /\ 0 \in Nat
      BY DEF Tools, RowStatuses
    <3> QED
      BY <3>1 DEF NoRow, Row
  <2>3. RowsTyped
    BY <2>2 DEF Init, GatewayInit, RowsTyped
  <2>4. RollbackFields
    BY DEF Init, NoRollback, RollbackFields
  <2>5. TaskTyped
    BY DEF Init, TaskTyped, Statuses
  <2> QED
    BY <2>1, <2>3, <2>4, <2>5 DEF AllTyped
<1>2. AllTyped /\ Granted /\ [Next]_vars => (AllTyped /\ Granted)'
  <2> SUFFICES ASSUME AllTyped, Granted, [Next]_vars PROVE (AllTyped /\ Granted)'
    OBVIOUS
  <2>1. CASE Next
    BY <2>1, PipelineKeeps, OthersKeep, PipelineTypes, OthersType DEF Next, AllTyped
  <2>2. CASE UNCHANGED vars
    BY <2>2 DEF vars, gatewayVars, taskVars, AllTyped, Typed, RollbackTyped, RowsTyped,
                RollbackFields, TaskTyped, Granted, CallPermitted, EffectsPermitted, InForce,
                Permitted
  <2> QED
    BY <2>1, <2>2
<1> QED
  BY <1>1, <1>2, PTL

LeftTyped == left \subseteq Leftovers

\* What a step leaves uncommitted in the sandbox: a patch that is applied or refused, a death.
LEMMA LeftBehind ==
    ASSUME [Next]_vars
    PROVE \/ UNCHANGED left
          \/ Patching /\ left' \in SUBSET (left \cup Leftovers)
          \/ left' \subseteq left
<1>1. ASSUME MayLeave(left')
      PROVE \/ UNCHANGED left
            \/ Patching /\ left' \in SUBSET (left \cup Leftovers)
  BY <1>1 DEF MayLeave
<1>2. ASSUME CarriedOut, call.phase = "post"
      PROVE \/ UNCHANGED left
            \/ Patching /\ left' \in SUBSET (left \cup Leftovers)
  BY <1>2 DEF CarriedOut, Patched, Patching
<1>3. CASE StartCall
  BY <1>3 DEF StartCall, OpenCall, ResumeCall, NewCall, GatedCall
<1>4. CASE InCall
  BY <1>1, <1>2, <1>4 DEF InCall, GatewayStep, LookupAnswered, PostAnswered, ConfirmAnswered,
     PostRefused, LookupFailed, PostLost, Retry, GiveUp
<1>5. CASE PipelineStep /\ ~StartCall /\ ~InCall
  BY <1>5 DEF PipelineStep, Begin, SkipDone, CallReturned, CallReturnedUnsaved, RetryLosesCommit,
     RetryUnsaved, CallRaised, Pause, PauseUnsaved, Finish, Advance, gatewayVars
<1>6. CASE CrashAndResume
  BY <1>1, <1>6 DEF CrashAndResume, CleansSandbox
<1>7. CASE Next /\ ~PipelineStep /\ ~CrashAndResume
  BY <1>7 DEF Next, Grant, Reject, FailStale, BeginRollback, Inverted, EndRollback, gatewayVars
<1>8. CASE UNCHANGED vars
  BY <1>8 DEF vars, gatewayVars
<1> QED
  BY <1>3, <1>4, <1>5, <1>6, <1>7, <1>8 DEF Next

LEMMA LeftTypeHolds == Init /\ [][Next]_vars => []LeftTyped
<1>1. Init => LeftTyped
  BY DEF Init, GatewayInit, LeftTyped
<1>2. LeftTyped /\ [Next]_vars => LeftTyped'
  BY LeftBehind DEF LeftTyped
<1> QED
  BY <1>1, <1>2, PTL

\* Every variable keeps its type: rows, calls, effects, the sandbox and the rollback.
THEOREM TypesCorrect == Spec => []TypeOK
<1>1. AllTyped /\ LeftTyped => TypeOK
  BY DEF AllTyped, Typed, RowsTyped, LeftTyped, RollbackFields, TaskTyped, TypeOK, GatewayTypeOK
<1> QED
  BY <1>1, AllTypesHold, LeftTypeHolds, PTL DEF Spec

-----------------------------------------------------------------------------
(* What is done outside is recorded.  Without a death and without a lost commit the rows another *)
(* session reads are those of the pipeline, but for the row of the call it is in; and each effect *)
(* has a row, which is that one or is finished.                                                   *)

NoFault == crashes = 0 /\ losses = 0
Finals == {"SUCCEEDED", "FAILED", "TIMED_OUT"}

Committed ==
    /\ pc # "calling" => call = NoCall /\ kept = row
    /\ pc = "calling" =>
          /\ call.row \in Rows /\ row[call.row].tool = call.tool
          /\ \A i \in Rows \ {call.row} : kept[i] = row[i]

EndOfCall ==
    pc = "calling" =>
        /\ call.phase # "none"
        /\ call.phase = "returned" => row[call.row].status = "SUCCEEDED"
        /\ call.phase = "raised" => row[call.row].status \in {"FAILED", "TIMED_OUT"}
        /\ call.phase = "gated" => \A k \in DOMAIN effects : effects[k].row # call.row

EffectsHaveRows ==
    \A k \in DOMAIN effects :
        /\ effects[k].row \in Rows /\ row[effects[k].row].tool = effects[k].tool
        /\ \/ pc = "calling" /\ call.row = effects[k].row
           \/ row[effects[k].row].status \in Finals

Recorded == Committed /\ EndOfCall /\ EffectsHaveRows
RecordInv == NoFault => Recorded

\* A pass ends a call, or goes on without one, and commits.
LEMMA CommitRecords ==
    ASSUME Recorded, pc' # "calling", row' = row, kept' = row, UNCHANGED effects,
           pc = "calling" => call.phase \in {"returned", "raised", "gated"} /\ call' = NoCall,
           pc # "calling" => call' = call
    PROVE Recorded'
<1>1. Committed' /\ EndOfCall'
  BY DEF Recorded, Committed, EndOfCall
<1>2. pc = "calling" => \/ row[call.row].status \in Finals
                        \/ \A k \in DOMAIN effects : effects[k].row # call.row
  BY DEF Recorded, EndOfCall, Finals
<1>3. EffectsHaveRows'
  BY <1>2 DEF Recorded, EffectsHaveRows
<1> QED
  BY <1>1, <1>3 DEF Recorded

LEMMA RecordsStay ==
    ASSUME Recorded, UNCHANGED <<row, kept, call, effects>>,
           pc' = pc \/ (pc # "calling" /\ pc' # "calling")
    PROVE Recorded'
BY DEF Recorded, Committed, EndOfCall, EffectsHaveRows

\* The effect of a call names its row.
LEMMA AppendedEffect ==
    ASSUME Typed, effects' = Append(effects, ItsEffect)
    PROVE /\ DOMAIN effects' = DOMAIN effects \cup {Len(effects) + 1}
          /\ Len(effects) + 1 \notin DOMAIN effects
          /\ \A k \in DOMAIN effects : effects'[k] = effects[k]
          /\ effects'[Len(effects) + 1] = ItsEffect
          /\ ItsEffect.tool = call.tool /\ ItsEffect.row = call.row /\ ItsEffect.appr = call.appr
<1>1. ItsEffect \in Effect
  BY DEF ItsEffect, Effect, Typed, Call
<1>2. effects \in Seq(Effect) /\ Len(effects) \in Nat
  BY DEF Typed
<1> QED
  BY <1>1, <1>2 DEF ItsEffect

\* What a gateway step must do to the rows for the record to stay right.
RowsGoOn ==
    /\ row'[call.row].tool = row[call.row].tool
    /\ \A j \in Rows \ {call.row} : row'[j] = row[j] /\ kept'[j] = row[j]

LEMMA GatewayRecords ==
    ASSUME AllTyped, Recorded, pc = "calling", pc' = "calling", SameCall, RowsGoOn,
           call.phase # "gated", call'.phase \notin {"none", "gated"},
           call'.phase = "returned" => row'[call.row].status = "SUCCEEDED",
           call'.phase = "raised" => row'[call.row].status \in {"FAILED", "TIMED_OUT"},
           effects' = effects \/ effects' = Append(effects, ItsEffect)
    PROVE Recorded'
<1>c. call.row \in Rows /\ row[call.row].tool = call.tool
  BY DEF Recorded, Committed
<1>p. pc' = "calling"
  OBVIOUS
<1>1. Committed' /\ EndOfCall'
  BY <1>c DEF Committed, EndOfCall, SameCall, RowsGoOn
<1>2. ASSUME NEW k \in DOMAIN effects, effects'[k] = effects[k]
      PROVE /\ effects'[k].row \in Rows /\ row'[effects'[k].row].tool = effects'[k].tool
            /\ (call'.row = effects'[k].row \/ row'[effects'[k].row].status \in Finals)
  <2>1. /\ effects[k].row \in Rows /\ row[effects[k].row].tool = effects[k].tool
        /\ (call.row = effects[k].row \/ row[effects[k].row].status \in Finals)
    BY DEF Recorded, EffectsHaveRows
  <2>2. CASE effects[k].row = call.row
    BY <1>2, <2>1, <2>2 DEF RowsGoOn, SameCall
  <2>3. CASE effects[k].row # call.row
    BY <1>2, <2>1, <2>3 DEF RowsGoOn, SameCall
  <2> QED
    BY <2>2, <2>3
<1>3. CASE effects' = effects
  <2>1. \A k \in DOMAIN effects' : effects'[k] = effects[k] /\ k \in DOMAIN effects
    BY <1>3
  <2> QED
    BY <1>1, <1>2, <1>p, <2>1 DEF EffectsHaveRows, Recorded
<1>4. CASE effects' = Append(effects, ItsEffect)
  <2>1. /\ DOMAIN effects' = DOMAIN effects \cup {Len(effects) + 1}
        /\ \A k \in DOMAIN effects : effects'[k] = effects[k]
        /\ effects'[Len(effects) + 1] = ItsEffect
        /\ ItsEffect.tool = call.tool /\ ItsEffect.row = call.row
    BY <1>4, AppendedEffect DEF AllTyped
  <2>2. ItsEffect.row \in Rows /\ row'[ItsEffect.row].tool = ItsEffect.tool
        /\ call'.row = ItsEffect.row
    BY <2>1, <1>c DEF RowsGoOn, SameCall
  <2>3. ASSUME NEW k \in DOMAIN effects'
        PROVE /\ effects'[k].row \in Rows /\ row'[effects'[k].row].tool = effects'[k].tool
              /\ (call'.row = effects'[k].row \/ row'[effects'[k].row].status \in Finals)
    <3>1. CASE k \in DOMAIN effects
      BY <3>1, <2>1, <1>2
    <3>2. CASE k = Len(effects) + 1
      BY <3>2, <2>1, <2>2
    <3> QED
      BY <3>1, <3>2, <2>1, <2>3
  <2> QED
    BY <1>1, <1>p, <2>3 DEF EffectsHaveRows, Recorded
<1> QED
  BY <1>3, <1>4

LEMMA GatewayStepRecords ==
    ASSUME AllTyped, Recorded, pc = "calling", pc' = "calling", GatewayStep
    PROVE Recorded'
<1>t. call \in Call /\ call.row \in Rows /\ call.attempt \in Nat
      /\ \A j \in Rows \ {call.row} : kept[j] = row[j]
  BY DEF AllTyped, Typed, Call, Recorded, Committed
<1>0. 0 \notin Rows
  BY DEF Rows
<1>r. row \in [Rows -> Row] /\ tree \in Seq(Rows)
  BY DEF AllTyped, RowsTyped
<1>1. CASE Passes
  <2>1. RowsGoOn
    BY <1>1, <1>t DEF Passes, RowsGoOn
  <2> QED
    BY <1>1, <2>1, GatewayRecords DEF Passes
<1>2. CASE Succeeds
  <2>1. row' = RowSucceeded /\ kept' = kept
    BY <1>2, <1>0, <1>t DEF Succeeds
  <2>2. RowsGoOn /\ row'[call.row].status = "SUCCEEDED"
    BY <2>1, <1>t, <1>r, SucceededRow DEF RowsGoOn
  <2>3. effects' = effects \/ effects' = Append(effects, ItsEffect)
    BY <1>2 DEF Succeeds, CarriedOut, ItsEffect
  <2> QED
    BY <1>2, <2>2, <2>3, GatewayRecords DEF Succeeds
<1>3. CASE GivesUp
  <2>1. PICK s \in {"FAILED", "TIMED_OUT"} : row' = Written(row, call.row, s, call.attempt)
    BY <1>3 DEF GivesUp
  <2>2. s \in RowStatuses
    BY DEF RowStatuses
  <2>3. Rewritten(row, row', call.row, s) /\ kept' = kept
    BY <1>3, <2>1, <2>2, <1>t, <1>r, WrittenRow DEF GivesUp
  <2>4. RowsGoOn /\ row'[call.row].status = s
    BY <2>3, <1>t DEF RowsGoOn, Rewritten
  <2> QED
    BY <1>3, <2>4, GatewayRecords DEF GivesUp
<1>4. CASE Retries
  <2>1. "RUNNING" \in RowStatuses
    BY DEF RowStatuses
  <2>2. Rewritten(row, row', call.row, "RUNNING") /\ kept' = row'
    BY <1>4, <2>1, <1>t, <1>r, WrittenRow DEF Retries
  <2>3. RowsGoOn
    BY <2>2, <1>t DEF RowsGoOn, Rewritten
  <2> QED
    BY <1>4, <2>3, GatewayRecords DEF Retries, TriesAgain
<1> QED
  BY <1>1, <1>2, <1>3, <1>4, GatewayKinds DEF AllTyped

\* The row a call takes was not finished, so no effect has it.
LEMMA OpenRecords ==
    ASSUME AllTyped, Recorded, pc = "step", pc' = "calling",
           NEW t \in Tools, NEW a \in Approvals \cup {None}, OpenCall(t, a)
    PROVE Recorded'
<1>r. row \in [Rows -> Row] /\ kept' = row /\ effects' = effects
  BY OpenKinds DEF AllTyped, RowsTyped
<1>p. /\ "gated" \in Phases /\ FirstPhase(t) \in Phases
      /\ FirstPhase(t) \in {"lookup", "post"}
  BY DEF Phases, FirstPhase
<1>s. {"RUNNING", "PENDING_APPROVAL"} \subseteq RowStatuses
  BY DEF RowStatuses
<1>1. PICK i \in Rows :
         /\ call'.row = i /\ call'.tool = t /\ call'.phase \in {"lookup", "post", "gated"}
         /\ row[i].status \notin Finals
         /\ row'[i].tool = t /\ \A j \in Rows \ {i} : row'[j] = row[j]
  <2>1. CASE Resumes(t, a)
    <3>1. PICK i \in Rows :
             /\ row[i].status = "PENDING_APPROVAL" /\ row[i].tool = t
             /\ row' = [row EXCEPT ![i].status = "RUNNING"]
             /\ call' = OpenedAt(t, a, i, FirstPhase(t))
      BY <2>1 DEF Resumes
    <3>2. /\ call'.tool = t /\ call'.phase \in {"lookup", "post"} /\ call'.row = i
      BY <3>1, <1>p, OpenedType, OpenedRow
    <3>3. row'[i].tool = t
      BY <3>1, <1>r DEF Row
    <3> QED
      BY <3>1, <3>2, <3>3, <1>r DEF Finals
  <2>2. CASE Starts(t, a)
    <3>1. PICK i \in Rows :
             /\ FreeRow(i) /\ row' = [row EXCEPT ![i] = NewRow(t, a, "RUNNING")]
             /\ call' = OpenedAt(t, a, i, FirstPhase(t))
      BY <2>2 DEF Starts
    <3>2. /\ call'.tool = t /\ call'.phase \in {"lookup", "post"} /\ call'.row = i
      BY <3>1, <1>p, OpenedType, OpenedRow
    <3>n. \A c \in Approvals \cup {None}, z \in RowStatuses : NewRow(t, c, z).tool = t
      BY NewRowType
    <3>3. row'[i].tool = t
      BY <3>1, <3>n, <1>r, <1>s
    <3> QED
      BY <3>1, <3>2, <3>3, <1>r DEF Finals, FreeRow
  <2>3. CASE Asks(t)
    <3>1. PICK i \in Rows, b \in Approvals :
             /\ FreeRow(i) /\ row' = [row EXCEPT ![i] = NewRow(t, b, "PENDING_APPROVAL")]
             /\ call' = OpenedAt(t, b, i, "gated")
      BY <2>3 DEF Asks
    <3>2. /\ call'.tool = t /\ call'.phase = "gated" /\ call'.row = i
      BY <3>1, <1>p, OpenedType, OpenedRow
    <3>n. \A c \in Approvals \cup {None}, z \in RowStatuses : NewRow(t, c, z).tool = t
      BY NewRowType
    <3>3. row'[i].tool = t
      BY <3>1, <3>n, <1>r, <1>s
    <3> QED
      BY <3>1, <3>2, <3>3, <1>r DEF Finals, FreeRow
  <2> QED
    BY <2>1, <2>2, <2>3, OpenKinds
<1>2. \A k \in DOMAIN effects : /\ effects[k].row \in Rows /\ effects[k].row # i
                                /\ row[effects[k].row].tool = effects[k].tool
                                /\ row[effects[k].row].status \in Finals
  BY <1>1 DEF Recorded, EffectsHaveRows
<1>3. Committed' /\ EndOfCall'
  BY <1>1, <1>2, <1>r DEF Committed, EndOfCall
<1>4. EffectsHaveRows'
  BY <1>1, <1>2, <1>r DEF EffectsHaveRows
<1> QED
  BY <1>3, <1>4 DEF Recorded

LEMMA StepRecords ==
    ASSUME AllTyped, RecordInv, Next
    PROVE RecordInv'
<1> SUFFICES ASSUME NoFault' PROVE Recorded'
  BY DEF RecordInv
<1>n. crashes \in Nat /\ losses \in Nat /\ losses' # losses + 1 /\ crashes' # crashes + 1
  BY DEF AllTyped, TaskTyped, NoFault
<1>0. Recorded
  <2>1. crashes' = crashes /\ losses' = losses
    BY <1>n DEF Next, PipelineStep, Begin, SkipDone, StartCall, InCall, CallReturned,
       CallReturnedUnsaved, RetryLosesCommit, CallRaised, Pause, PauseUnsaved, Finish, Grant,
       Reject, FailStale, CrashAndResume, BeginRollback, Inverted, EndRollback, Advance
  <2> QED
    BY <2>1 DEF RecordInv, NoFault
<1>1. CASE Begin
  BY <1>0, <1>1, CommitRecords DEF Begin, Commit
<1>2. CASE SkipDone
  BY <1>0, <1>2, RecordsStay DEF SkipDone, gatewayVars
<1>3. CASE StartCall
  <2>1. plan.tools[pos] \in Tools /\ appr \in Approvals \cup {None}
    BY <1>3, PlanFacts DEF StartCall, More, AllTyped, Typed
  <2> QED
    BY <1>0, <1>3, <2>1, OpenRecords DEF StartCall
<1>4. CASE InCall
  BY <1>0, <1>4, GatewayStepRecords DEF InCall, taskVars
<1>5. CASE CallReturned
  BY <1>0, <1>5, CommitRecords DEF CallReturned, Commit, Advance
<1>6. CASE CallRaised
  <2>1. pc' # "calling"
    BY <1>6 DEF CallRaised
  <2> QED
    BY <1>0, <1>6, <2>1, CommitRecords DEF CallRaised, Commit
<1>7. CASE Pause
  BY <1>0, <1>7, CommitRecords DEF Pause, Commit
<1>8. CASE \E s \in Statuses : Finish(s)
  BY <1>0, <1>8, CommitRecords DEF Finish, Commit
<1>9. CASE \E a \in Approvals : Grant(a) \/ Reject(a)
  BY <1>0, <1>9, RecordsStay DEF Grant, Reject
<1>10. CASE FailStale \/ BeginRollback \/ (\E ok \in BOOLEAN : Inverted(ok)) \/ EndRollback
  BY <1>0, <1>10, RecordsStay
     DEF FailStale, BeginRollback, Inverted, EndRollback, gatewayVars, taskVars
<1>11. ~CallReturnedUnsaved /\ ~RetryLosesCommit /\ ~PauseUnsaved /\ ~CrashAndResume
  BY <1>n DEF CallReturnedUnsaved, RetryLosesCommit, PauseUnsaved, CrashAndResume
<1> QED
  BY <1>1, <1>2, <1>3, <1>4, <1>5, <1>6, <1>7, <1>8, <1>9, <1>10, <1>11 DEF Next, PipelineStep

\* The records are right at first and after every step.
LEMMA RecordHolds == Init /\ [][Next]_vars => []RecordInv
<1>1. Init => RecordInv
  BY DEF Init, GatewayInit, RecordInv, Recorded, Committed, EndOfCall, EffectsHaveRows
<1>2. AllTyped /\ RecordInv /\ [Next]_vars => RecordInv'
  <2> SUFFICES ASSUME AllTyped, RecordInv, [Next]_vars PROVE RecordInv'
    OBVIOUS
  <2>1. CASE Next
    BY <2>1, StepRecords
  <2>2. CASE UNCHANGED vars
    <3>1. UNCHANGED <<row, kept, call, effects, pc, crashes, losses>>
      BY <2>2 DEF vars, gatewayVars, taskVars
    <3> QED
      BY <3>1, RecordsStay DEF RecordInv, NoFault
  <2> QED
    BY <2>1, <2>2
<1> QED
  BY <1>1, <1>2, AllTypesHold, PTL

\* Without a death or a lost commit, what calls that are over did outside stands in finished rows
\* that other sessions can read.
THEOREM RecordsCorrect == Spec => []EffectsAreRecorded
<1>1. AllTyped /\ RecordInv => EffectsAreRecorded
  <2> SUFFICES ASSUME AllTyped, RecordInv, crashes = 0, losses = 0, NEW k \in DOMAIN effects,
                      ~(pc = "calling" /\ call.row = effects[k].row)
               PROVE /\ effects[k].row # 0
                     /\ kept[effects[k].row].tool = effects[k].tool
                     /\ kept[effects[k].row].status \in Finals
    BY DEF EffectsAreRecorded, Finals
  <2>1. /\ effects[k].row \in Rows /\ row[effects[k].row].tool = effects[k].tool
        /\ row[effects[k].row].status \in Finals
    BY DEF RecordInv, NoFault, Recorded, EffectsHaveRows
  <2>2. kept[effects[k].row] = row[effects[k].row]
    BY <2>1 DEF RecordInv, NoFault, Recorded, Committed
  <2> QED
    BY <2>1, <2>2 DEF Rows
<1> QED
  BY <1>1, AllTypesHold, RecordHolds, PTL DEF Spec

-----------------------------------------------------------------------------
(* A rollback that works alone.  The pass cannot go on while it runs, and what it saw pending is *)
(* all that is.                                                                                  *)

NonePending == \A a \in Approvals : gate[a] # "pending"

Undisturbed ==
    /\ rb.phase = "run" /\ rb.quiet =>
          pc = "idle" /\ \A a \in Approvals : gate[a] = "pending" => a \in rb.seen
    /\ rb.phase = "done" /\ rb.quiet => pc = "idle" /\ status = "rolled_back" /\ NonePending

\* What each step makes of the rollback.
LEMMA RollbackMoves ==
    ASSUME AllTyped
    PROVE /\ \A a \in Approvals : Grant(a) =>
                /\ rb'.phase = rb.phase /\ rb'.todo = rb.todo /\ rb'.ok = rb.ok
                /\ rb'.seen = rb.seen /\ (rb'.quiet => rb.quiet /\ rb.phase # "run")
          /\ \A ok \in BOOLEAN : Inverted(ok) =>
                /\ rb'.phase = rb.phase /\ rb'.todo = rb.todo \ {Newest(rb.todo)}
                /\ (rb'.ok => rb.ok /\ ok) /\ rb'.seen = rb.seen
                /\ (rb'.quiet => rb.quiet /\ pc = "idle")
          /\ EndRollback =>
                /\ rb'.phase = "done" /\ rb'.ok = rb.ok /\ rb'.todo = rb.todo
                /\ (rb'.quiet => rb.quiet /\ pc = "idle")
          /\ BeginRollback =>
                /\ rb'.phase = "run" /\ rb'.todo = Undoable /\ (rb'.quiet => pc = "idle")
                /\ rb'.seen = {a \in Approvals : gate[a] = "pending"}
<1>d. DOMAIN rb = {"phase", "todo", "ok", "quiet", "seen"}
  BY DEF AllTyped, Typed, RollbackTyped
<1>b. rb.quiet \in BOOLEAN /\ rb.ok \in BOOLEAN
  BY DEF AllTyped, RollbackFields
<1>1. ASSUME NEW a \in Approvals, Grant(a)
      PROVE /\ rb'.phase = rb.phase /\ rb'.todo = rb.todo /\ rb'.ok = rb.ok
            /\ rb'.seen = rb.seen /\ (rb'.quiet => rb.quiet /\ rb.phase # "run")
  <2> DEFINE q == rb.quiet /\ rb.phase # "run"
  <2>1. rb' = [rb EXCEPT !.quiet = q]
    BY <1>1 DEF Grant
  <2> HIDE DEF q
  <2>2. rb'.quiet = q /\ rb'.phase = rb.phase /\ rb'.todo = rb.todo /\ rb'.ok = rb.ok
        /\ rb'.seen = rb.seen
    BY <2>1, <1>d
  <2> QED
    BY <2>2 DEF q
<1>2. ASSUME NEW ok \in BOOLEAN, Inverted(ok)
      PROVE /\ rb'.phase = rb.phase /\ rb'.todo = rb.todo \ {Newest(rb.todo)}
            /\ (rb'.ok => rb.ok /\ ok) /\ rb'.seen = rb.seen
            /\ (rb'.quiet => rb.quiet /\ pc = "idle")
  <2> DEFINE q == StillQuiet
             k == rb.ok /\ ok
             t == rb.todo \ {Newest(rb.todo)}
  <2>1. rb' = [rb EXCEPT !.todo = t, !.ok = k, !.quiet = q]
    BY <1>2 DEF Inverted
  <2> HIDE DEF q, k, t
  <2>2. rb'.quiet = q /\ rb'.ok = k /\ rb'.todo = t /\ rb'.phase = rb.phase /\ rb'.seen = rb.seen
    BY <2>1, <1>d
  <2> QED
    BY <2>2 DEF q, k, t, StillQuiet
<1>3. ASSUME EndRollback
      PROVE /\ rb'.phase = "done" /\ rb'.ok = rb.ok /\ rb'.todo = rb.todo
            /\ (rb'.quiet => rb.quiet /\ pc = "idle")
  <2> DEFINE q == StillQuiet
  <2>1. rb' = [rb EXCEPT !.phase = "done", !.quiet = q, !.seen = {}]
    BY <1>3 DEF EndRollback
  <2> HIDE DEF q
  <2>2. rb'.quiet = q /\ rb'.ok = rb.ok /\ rb'.phase = "done" /\ rb'.todo = rb.todo
    BY <2>1, <1>d
  <2> QED
    BY <2>2 DEF q, StillQuiet
<1>4. ASSUME BeginRollback
      PROVE /\ rb'.phase = "run" /\ rb'.todo = Undoable /\ (rb'.quiet => pc = "idle")
            /\ rb'.seen = {a \in Approvals : gate[a] = "pending"}
  <2> DEFINE q == pc = "idle"
             p == {a \in Approvals : gate[a] = "pending"}
             t == Undoable
  <2>1. rb' = [phase |-> "run", todo |-> t, ok |-> TRUE, quiet |-> q, seen |-> p]
    BY <1>4 DEF BeginRollback
  <2> HIDE DEF q, p, t
  <2>2. rb'.quiet = q /\ rb'.seen = p /\ rb'.todo = t /\ rb'.phase = "run"
    BY <2>1
  <2> QED
    BY <2>2 DEF q, p, t
<1> QED
  BY <1>1, <1>2, <1>3, <1>4

LEMMA StepUndisturbed ==
    ASSUME AllTyped, Undisturbed, Next
    PROVE Undisturbed'
<1>g. gate \in [Approvals -> GateStatuses]
  BY DEF AllTyped, Typed
<1>1. CASE PipelineStep
  <2>1. pc # "idle" /\ rb' = rb
    BY <1>1 DEF PipelineStep, Begin, SkipDone, StartCall, InCall, CallReturned, RetryLosesCommit,
       CallReturnedUnsaved, CallRaised, Pause, PauseUnsaved, Finish, Advance
  <2> QED
    BY <2>1 DEF Undisturbed
<1>2. ASSUME NEW a \in Approvals, Grant(a) PROVE Undisturbed'
  <2>1. ~(rb'.phase = "done" /\ rb'.quiet) /\ ~(rb'.phase = "run" /\ rb'.quiet)
    BY <1>2, RollbackMoves DEF Undisturbed, NonePending, Grant
  <2> QED
    BY <2>1 DEF Undisturbed
<1>3. ASSUME NEW a \in Approvals, Reject(a) PROVE Undisturbed'
  <2>1. /\ gate[a] = "pending" /\ gate' = [gate EXCEPT ![a] = "rejected"] /\ UNCHANGED <<rb, pc>>
    BY <1>3 DEF Reject
  <2>2. \A b \in Approvals : gate'[b] = "pending" => gate[b] = "pending"
    BY <2>1, <1>g
  <2> QED
    BY <2>1, <2>2 DEF Undisturbed, NonePending
<1>4. CASE FailStale
  BY <1>4 DEF FailStale, gatewayVars, Undisturbed, NonePending
<1>5. CASE CrashAndResume
  <2>1. rb.phase = "run" => rb'.phase = "none"
    BY <1>5 DEF CrashAndResume, NoRollback
  <2>2. rb.phase # "run" => rb' = rb
    BY <1>5 DEF CrashAndResume
  <2>3. gate' = DropGate /\ status' = status
    BY <1>5 DEF CrashAndResume
  <2>4. \A b \in Approvals : gate'[b] = "pending" => gate[b] = "pending"
    BY <2>3, <1>g DEF DropGate
  <2>5. status # "executing" => pc' = "idle"
    BY <1>5 DEF CrashAndResume
  <2> QED
    BY <2>1, <2>2, <2>3, <2>4, <2>5 DEF Undisturbed, NonePending
<1>6. CASE BeginRollback
  <2>1. pc' = pc /\ gate' = gate
    BY <1>6 DEF BeginRollback, gatewayVars, taskVars
  <2> QED
    BY <1>6, <2>1, RollbackMoves DEF Undisturbed
<1>7. ASSUME NEW ok \in BOOLEAN, Inverted(ok) PROVE Undisturbed'
  <2>1. pc' = pc /\ gate' = gate /\ rb.phase = "run"
    BY <1>7 DEF Inverted, taskVars
  <2> QED
    BY <1>7, <2>1, RollbackMoves DEF Undisturbed
<1>8. CASE EndRollback
  <2>1. /\ gate' = [a \in Approvals |-> IF a \notin rb.seen THEN gate[a]
                                         ELSE IF WasGranted(a) THEN "withdrawn" ELSE "cancelled"]
        /\ status' = "rolled_back" /\ pc' = pc /\ rb.phase = "run"
    BY <1>8 DEF EndRollback
  <2>2. \A a \in Approvals : gate'[a] = "pending" => gate[a] = "pending" /\ a \notin rb.seen
    BY <2>1
  <2> QED
    BY <1>8, <2>1, <2>2, RollbackMoves DEF Undisturbed, NonePending
<1> QED
  BY <1>1, <1>2, <1>3, <1>4, <1>5, <1>6, <1>7, <1>8 DEF Next

-----------------------------------------------------------------------------
(* The patches of a task without deaths and lost commits.  Their rows are in the order in which  *)
(* they were made: a call takes a row behind all others, or the one row that waits for its        *)
(* approval, which no patch can have overtaken.                                                   *)

IsPending(i) == row[i].status = "PENDING_APPROVAL"
IsPatch(i) == row[i].inverse = "git_revert"
PatchWaits(i) == IsPending(i) /\ row[i].tool = Patch

InOrder ==
    /\ \A i, j \in Rows : i < j /\ row[i].status = "absent" => row[j].status = "absent"
    /\ \A i \in Rows : IsPatch(i) => row[i].status = "SUCCEEDED"
    /\ \A i \in Rows :
          IsPatch(i) /\ (\A j \in Rows : IsPatch(j) => i <= j) => row[i].before = <<>>
    /\ (\A i \in Rows : ~IsPatch(i)) => tree = <<>>

LastPatch ==
    /\ \A i \in Rows : PatchWaits(i) => \A j \in Rows : IsPatch(j) => j < i
    /\ pc = "calling" =>
          /\ kept[call.row].inverse # "git_revert" /\ row[call.row].status # "absent"
          /\ call.phase # "returned" => ~IsPatch(call.row)
          /\ call.phase # "gated" => ~IsPending(call.row)
          /\ call.phase # "gated" /\ call.tool = Patch =>
                /\ \A i \in Rows : ~PatchWaits(i)
                /\ call.phase # "returned" => \A j \in Rows : IsPatch(j) => j < call.row

OnePending ==
    /\ \A i \in Rows : IsPending(i) => row[i].appr \in Approvals
    /\ \A i, j \in Rows : IsPending(i) /\ IsPending(j) => i = j
    /\ \A a, b \in Approvals : gate[a] = "pending" /\ gate[b] = "pending" => a = b

\* The row that waits is that of the approval the pass carries, asks for or waits for.
RowOfApproval ==
    /\ pc \in {"begin", "step"} => \A i \in Rows : IsPending(i) => row[i].appr = appr
    /\ pc = "calling" /\ call.phase # "gated" =>
          \A i \in Rows : IsPending(i) => row[i].appr = appr
    /\ pc = "calling" /\ call.phase = "gated" =>
          \A i \in Rows : IsPending(i) => row[i].appr = call.appr
    /\ pc = "idle" =>
          \A a \in Approvals : gate[a] = "pending" =>
              \A i \in Rows : IsPending(i) => row[i].appr = a
    /\ pc # "idle" => NonePending
    /\ \A a \in Approvals : gate[a] = "flushed" =>
          pc = "calling" /\ call.phase = "gated" /\ call.appr = a

PatchesInOrder == InOrder /\ LastPatch /\ OnePending /\ RowOfApproval

\* A commit makes nothing pending but what was flushed.
LEMMA CommitPending ==
    ASSUME AllTyped, gate' = CommitGate
    PROVE /\ \A a \in Approvals : gate'[a] = "pending" => gate[a] \in {"pending", "flushed"}
          /\ \A a \in Approvals : gate'[a] # "flushed"
BY DEF CommitGate, AllTyped, Typed

\* Steps that leave the rows alone and end or leave the call.
LEMMA OrderStays ==
    ASSUME PatchesInOrder, UNCHANGED <<row, tree>>,
           \/ pc' # "calling"
           \/ UNCHANGED <<pc, call, kept>>
    PROVE InOrder' /\ LastPatch'
BY DEF PatchesInOrder, InOrder, LastPatch, PatchWaits, IsPending, IsPatch

LEMMA PendingStays ==
    ASSUME PatchesInOrder, UNCHANGED row,
           \A a \in Approvals : gate'[a] = "pending" => gate[a] = "pending"
    PROVE OnePending'
BY DEF PatchesInOrder, OnePending, IsPending

-----------------------------------------------------------------------------
(* The start of a call. *)

LEMMA OpenPatches ==
    ASSUME AllTyped, Recorded, PatchesInOrder, pc = "step", pc' = "calling", UNCHANGED appr,
           NEW t \in Tools, OpenCall(t, appr)
    PROVE PatchesInOrder'
<1>r. row \in [Rows -> Row] /\ kept = row /\ kept' = row /\ tree' = tree
      /\ appr \in Approvals \cup {None}
  BY OpenKinds DEF AllTyped, RowsTyped, Recorded, Committed, Typed
<1>p. /\ "gated" \in Phases /\ FirstPhase(t) \in Phases
      /\ FirstPhase(t) \in {"lookup", "post"}
  BY DEF Phases, FirstPhase
<1>s. {"RUNNING", "PENDING_APPROVAL"} \subseteq RowStatuses
  BY DEF RowStatuses
<1>n. /\ \A i \in Rows : IsPending(i) => row[i].appr = appr /\ row[i].appr \in Approvals
      /\ \A a \in Approvals : gate[a] # "pending" /\ gate[a] # "flushed"
  BY DEF PatchesInOrder, RowOfApproval, OnePending, NonePending
<1>m. MaxRows \in Nat /\ Rows = 1..MaxRows
  BY GatewayAssumption DEF Rows
<1>1. CASE Resumes(t, appr)
  <2>1. PICK i \in Rows :
           /\ row[i].status = "PENDING_APPROVAL" /\ row[i].tool = t
           /\ row' = [row EXCEPT ![i].status = "RUNNING"]
           /\ call' = OpenedAt(t, appr, i, FirstPhase(t)) /\ gate' = CommitGate
    BY <1>1 DEF Resumes
  <2>2. /\ call'.tool = t /\ call'.phase \in {"lookup", "post"} /\ call'.row = i
    BY <2>1, <1>r, <1>p, OpenedType, OpenedRow
  <2>3. /\ row'[i].tool = t /\ row'[i].status = "RUNNING" /\ row'[i].inverse = row[i].inverse
        /\ \A j \in Rows \ {i} : row'[j] = row[j]
    BY <2>1, <1>r DEF Row
  <2>4. /\ ~IsPatch(i) /\ (\A j \in Rows : IsPending(j) => j = i)
        /\ (t = Patch => \A j \in Rows : IsPatch(j) => j < i)
        /\ \A j \in Rows : j < i => row[j].status # "absent"
    BY <2>1 DEF PatchesInOrder, InOrder, OnePending, LastPatch, IsPending, PatchWaits
  <2>5. InOrder'
    BY <2>1, <2>3, <2>4, <1>r DEF PatchesInOrder, InOrder, IsPatch
  <2>6. LastPatch'
    BY <2>1, <2>2, <2>3, <2>4, <1>r DEF LastPatch, IsPatch, IsPending, PatchWaits
  <2>7. NonePending' /\ \A a \in Approvals : gate'[a] # "flushed"
    BY <2>1, <1>n, CommitPending DEF NonePending
  <2>8. OnePending' /\ RowOfApproval'
    BY <2>2, <2>3, <2>4, <2>7 DEF OnePending, RowOfApproval, IsPending, NonePending
  <2> QED
    BY <2>5, <2>6, <2>8 DEF PatchesInOrder
<1>2. CASE Starts(t, appr)
  <2>1. PICK i \in Rows :
           /\ \A j \in Rows : ~Resumable(t, appr, j)
           /\ FreeRow(i) /\ row' = [row EXCEPT ![i] = NewRow(t, appr, "RUNNING")]
           /\ call' = OpenedAt(t, appr, i, FirstPhase(t)) /\ gate' = CommitGate
    BY <1>2 DEF Starts
  <2>2. /\ call'.tool = t /\ call'.phase \in {"lookup", "post"} /\ call'.row = i
    BY <2>1, <1>r, <1>p, OpenedType, OpenedRow
  <2>n. /\ NewRow(t, appr, "RUNNING").tool = t /\ NewRow(t, appr, "RUNNING").status = "RUNNING"
        /\ NewRow(t, appr, "RUNNING").inverse = "none"
    BY <1>r, <1>s, NewRowType
  <2>3. /\ row'[i].tool = t /\ row'[i].status = "RUNNING" /\ row'[i].inverse = "none"
        /\ \A j \in Rows \ {i} : row'[j] = row[j]
    BY <2>1, <2>n, <1>r
  <2>4. /\ ~IsPatch(i) /\ ~IsPending(i) /\ row[i].status = "absent"
        /\ \A j \in Rows : j < i => row[j].status # "absent"
    BY <2>1, <1>r DEF FreeRow, PatchesInOrder, InOrder, IsPending
  <2>o. \A j \in Rows : IsPatch(j) => j < i
    BY <2>4, <1>m DEF PatchesInOrder, InOrder
  <2>w. t = Patch => \A j \in Rows : ~PatchWaits(j)
    BY <2>1, <1>n, GatewayAssumption DEF PatchWaits, Resumable, IsPending
  <2>5. InOrder'
    BY <2>3, <2>4, <1>r DEF PatchesInOrder, InOrder, IsPatch
  <2>6. LastPatch'
    BY <2>2, <2>3, <2>4, <2>o, <2>w, <1>r
       DEF PatchesInOrder, LastPatch, IsPatch, IsPending, PatchWaits
  <2>7. NonePending' /\ \A a \in Approvals : gate'[a] # "flushed"
    BY <2>1, <1>n, CommitPending DEF NonePending
  <2>8. OnePending' /\ RowOfApproval'
    BY <2>2, <2>3, <2>4, <2>7, <1>n
       DEF PatchesInOrder, OnePending, RowOfApproval, IsPending, NonePending
  <2> QED
    BY <2>5, <2>6, <2>8 DEF PatchesInOrder
<1>3. CASE appr = None /\ Asks(t)
  <2>1. PICK i \in Rows, b \in Approvals :
           /\ FreeRow(i) /\ row' = [row EXCEPT ![i] = NewRow(t, b, "PENDING_APPROVAL")]
           /\ call' = OpenedAt(t, b, i, "gated")
           /\ gate' = [CommitGate EXCEPT ![b] = "flushed"]
    BY <1>3 DEF Asks
  <2>2. call'.tool = t /\ call'.phase = "gated" /\ call'.row = i /\ call'.appr = b
    BY <2>1, <1>p, OpenedType, OpenedRow
  <2>n. /\ NewRow(t, b, "PENDING_APPROVAL").tool = t
        /\ NewRow(t, b, "PENDING_APPROVAL").status = "PENDING_APPROVAL"
        /\ NewRow(t, b, "PENDING_APPROVAL").inverse = "none"
        /\ NewRow(t, b, "PENDING_APPROVAL").appr = b
    BY <1>s, NewRowType
  <2>3. /\ row'[i].tool = t /\ row'[i].status = "PENDING_APPROVAL" /\ row'[i].inverse = "none"
        /\ row'[i].appr = b /\ \A j \in Rows \ {i} : row'[j] = row[j]
    BY <2>1, <2>n, <1>r
  <2>4. /\ ~IsPatch(i) /\ row[i].status = "absent"
        /\ \A j \in Rows : j < i => row[j].status # "absent"
    BY <2>1, <1>r DEF FreeRow, PatchesInOrder, InOrder
  <2>o. \A j \in Rows : IsPatch(j) => j < i
    BY <2>4, <1>m DEF PatchesInOrder, InOrder
  <2>w. \A j \in Rows : ~IsPending(j)
    BY <1>3, <1>n, GatewayAssumption
  <2>5. InOrder'
    BY <2>3, <2>4, <1>r DEF PatchesInOrder, InOrder, IsPatch
  <2>6. LastPatch'
    BY <2>2, <2>3, <2>4, <2>o, <2>w, <1>r DEF LastPatch, IsPatch, IsPending, PatchWaits
  <2>7. NonePending' /\ \A a \in Approvals : gate'[a] = "flushed" => a = b
    <3>1. \A a \in Approvals : CommitGate[a] = gate[a]
      BY <1>n DEF CommitGate
    <3>2. gate'[b] = "flushed" /\ \A a \in Approvals \ {b} : gate'[a] = gate[a]
      BY <2>1, <3>1 DEF CommitGate
    <3> QED
      BY <3>2, <1>n DEF NonePending
  <2>8. \A j \in Rows : (row'[j].status = "PENDING_APPROVAL") <=> j = i
    BY <2>3, <2>w DEF IsPending
  <2>9. OnePending' /\ RowOfApproval'
    BY <2>2, <2>3, <2>7, <2>8 DEF OnePending, RowOfApproval, IsPending, NonePending
  <2> QED
    BY <2>5, <2>6, <2>9 DEF PatchesInOrder
<1> QED
  BY <1>1, <1>2, <1>3, OpenKinds

-----------------------------------------------------------------------------
(* The steps of a call. *)

\* A status is written to the row of the call, which is no patch yet.
LEMMA RewrittenPatches ==
    ASSUME AllTyped, Recorded, PatchesInOrder, pc = "calling", UNCHANGED <<pc, appr, tree>>,
           SameCall, call.phase = "failed", call'.phase \notin {"none", "gated", "returned"},
           NEW s, s \in {"RUNNING", "FAILED", "TIMED_OUT"}, Rewritten(row, row', call.row, s),
           kept' = kept \/ kept' = row', gate' = gate \/ gate' = CommitGate
    PROVE PatchesInOrder'
<1>c. call.row \in Rows
  BY DEF Recorded, Committed
<1>1. /\ \A j \in Rows : row'[j].inverse = row[j].inverse /\ row'[j].tool = row[j].tool
                         /\ row'[j].before = row[j].before /\ row'[j].appr = row[j].appr
      /\ \A j \in Rows \ {call.row} : row'[j] = row[j]
      /\ row'[call.row].status = s
  BY <1>c DEF Rewritten
<1>2. /\ ~IsPatch(call.row) /\ ~IsPending(call.row) /\ row[call.row].status # "absent"
      /\ kept[call.row].inverse # "git_revert"
  BY DEF PatchesInOrder, LastPatch
<1>3. InOrder'
  BY <1>1, <1>2, <1>c DEF PatchesInOrder, InOrder, IsPatch
<1>4. \A j \in Rows : row'[j].status = "PENDING_APPROVAL" => IsPending(j)
  BY <1>1 DEF IsPending
<1>5. LastPatch'
  BY <1>1, <1>2, <1>4, <1>c
     DEF PatchesInOrder, LastPatch, IsPatch, IsPending, PatchWaits, SameCall
<1>6. \A a \in Approvals : gate'[a] # "pending" /\ gate'[a] # "flushed"
  BY CommitPending DEF PatchesInOrder, RowOfApproval, NonePending
<1>7. OnePending' /\ RowOfApproval'
  BY <1>1, <1>4, <1>6
     DEF PatchesInOrder, OnePending, RowOfApproval, IsPending, NonePending
<1> QED
  BY <1>3, <1>5, <1>7 DEF PatchesInOrder

\* A patch that succeeds is behind all others, and the first is on the tree of the repository.
LEMMA SucceededPatches ==
    ASSUME AllTyped, Recorded, PatchesInOrder, pc = "calling", UNCHANGED <<pc, appr>>, Succeeds
    PROVE PatchesInOrder'
<1>c. call.row \in Rows /\ call \in Call /\ row \in [Rows -> Row] /\ tree \in Seq(Rows)
      /\ 0 \notin Rows /\ call.tool \in Tools
  BY DEF Recorded, Committed, AllTyped, Typed, RowsTyped, Rows, Call
<1>m. MaxRows \in Nat /\ Rows = 1..MaxRows
  BY GatewayAssumption DEF Rows
<1>0. row' = RowSucceeded /\ kept' = kept /\ gate' = gate
  BY <1>c DEF Succeeds
<1>1. /\ \A j \in Rows \ {call.row} : row'[j] = row[j]
      /\ row'[call.row].status = "SUCCEEDED" /\ row'[call.row].tool = row[call.row].tool
      /\ row'[call.row].inverse = InverseAction(call.tool) /\ row'[call.row].before = tree
  BY <1>0, <1>c, SucceededRow
<1>i. (InverseAction(call.tool) = "git_revert") <=> (call.tool = Patch)
  BY <1>c DEF InverseAction, Tools, Patch, Comment, Transition, Request
<1>2. /\ ~IsPatch(call.row) /\ ~IsPending(call.row) /\ row[call.row].status # "absent"
      /\ kept[call.row].inverse # "git_revert"
      /\ call.tool = Patch => /\ \A i \in Rows : ~PatchWaits(i)
                              /\ \A j \in Rows : IsPatch(j) => j < call.row
  BY DEF PatchesInOrder, LastPatch, Succeeds
<1>3. InOrder'
  <2>1. \A i, j \in Rows : i < j /\ row'[i].status = "absent" => row'[j].status = "absent"
    BY <1>1, <1>2, <1>c DEF PatchesInOrder, InOrder
  <2>2. \A i \in Rows : row'[i].inverse = "git_revert" => row'[i].status = "SUCCEEDED"
    BY <1>1, <1>c DEF PatchesInOrder, InOrder, IsPatch
  <2>3. CASE call.tool = Patch
    <3>1. \A i \in Rows : (row'[i].inverse = "git_revert") <=> (IsPatch(i) \/ i = call.row)
      BY <2>3, <1>1, <1>i DEF IsPatch
    <3>2. ASSUME NEW i \in Rows, row'[i].inverse = "git_revert",
                 \A j \in Rows : row'[j].inverse = "git_revert" => i <= j
          PROVE row'[i].before = <<>>
      <4>1. CASE i = call.row
        <5>1. \A j \in Rows : ~IsPatch(j)
          BY <1>2, <1>m, <2>3, <3>1, <3>2, <4>1
        <5> QED
          BY <1>1, <4>1, <5>1 DEF PatchesInOrder, InOrder
      <4>2. CASE i # call.row
        BY <1>1, <3>1, <3>2, <4>2 DEF PatchesInOrder, InOrder
      <4> QED
        BY <4>1, <4>2
    <3> QED
      BY <2>1, <2>2, <3>1, <3>2, <1>c DEF InOrder, IsPatch
  <2>4. CASE call.tool # Patch
    <3>1. \A i \in Rows : (row'[i].inverse = "git_revert") <=> IsPatch(i)
      BY <2>4, <1>1, <1>2, <1>i DEF IsPatch
    <3>2. tree' = tree
      BY <2>4 DEF Succeeds, CarriedOut
    <3>3. \A i \in Rows : IsPatch(i) => row'[i].before = row[i].before
      BY <1>1, <1>2
    <3> QED
      BY <2>1, <2>2, <3>1, <3>2, <3>3 DEF PatchesInOrder, InOrder, IsPatch
  <2> QED
    BY <2>3, <2>4
<1>4. \A j \in Rows : row'[j].status = "PENDING_APPROVAL" => IsPending(j) /\ row'[j] = row[j]
  BY <1>1 DEF IsPending
<1>5. LastPatch'
  <2>1. ASSUME NEW i \in Rows, row'[i].status = "PENDING_APPROVAL", row'[i].tool = Patch,
               NEW j \in Rows, row'[j].inverse = "git_revert"
        PROVE j < i
    <3>1. PatchWaits(i) /\ call.tool # Patch
      BY <1>2, <1>4, <2>1 DEF PatchWaits
    <3>2. IsPatch(j)
      BY <1>1, <1>i, <2>1, <3>1 DEF IsPatch
    <3> QED
      BY <3>1, <3>2 DEF PatchesInOrder, LastPatch
  <2>2. call.tool = Patch => \A i \in Rows : ~(row'[i].status = "PENDING_APPROVAL"
                                               /\ row'[i].tool = Patch)
    BY <1>2, <1>4 DEF PatchWaits
  <2>3. call'.phase = "returned" /\ call'.row = call.row /\ call'.tool = call.tool
    BY DEF Succeeds, SameCall
  <2> QED
    BY <1>0, <1>1, <1>2, <2>1, <2>2, <2>3 DEF LastPatch, PatchWaits, IsPending, IsPatch
<1>6. \A a \in Approvals : gate'[a] # "pending" /\ gate'[a] # "flushed"
  BY <1>0 DEF PatchesInOrder, RowOfApproval, NonePending, Succeeds
<1>7. OnePending' /\ RowOfApproval'
  <2>1. call.phase # "gated" /\ call'.phase = "returned"
    BY DEF Succeeds
  <2> QED
    BY <2>1, <1>4, <1>6 DEF PatchesInOrder, OnePending, RowOfApproval, IsPending, NonePending
<1> QED
  BY <1>3, <1>5, <1>7 DEF PatchesInOrder

LEMMA GatewayPatches ==
    ASSUME AllTyped, Recorded, PatchesInOrder, pc = "calling", UNCHANGED <<pc, appr>>, GatewayStep
    PROVE PatchesInOrder'
<1>t. call \in Call /\ call.row \in Rows \cup {0} /\ call.attempt \in Nat
      /\ row \in [Rows -> Row]
  BY DEF AllTyped, Typed, Call, RowsTyped
<1>1. CASE Passes
  <2>1. /\ call.phase \in {"lookup", "post", "confirm"}
        /\ call'.phase \in {"post", "confirm", "failed"}
        /\ UNCHANGED <<row, kept, gate, tree>> /\ call'.row = call.row /\ call'.tool = call.tool
    BY <1>1 DEF Passes, SameCall
  <2>2. InOrder' /\ OnePending'
    BY <2>1 DEF PatchesInOrder, InOrder, OnePending, IsPatch, IsPending
  <2>3. LastPatch'
    BY <2>1 DEF PatchesInOrder, LastPatch, IsPatch, IsPending, PatchWaits
  <2>4. RowOfApproval'
    BY <2>1 DEF PatchesInOrder, RowOfApproval, IsPending, NonePending
  <2> QED
    BY <2>2, <2>3, <2>4 DEF PatchesInOrder
<1>2. CASE Succeeds
  BY <1>2, SucceededPatches
<1>3. CASE GivesUp
  <2>1. PICK s \in {"FAILED", "TIMED_OUT"} : row' = Written(row, call.row, s, call.attempt)
    BY <1>3 DEF GivesUp
  <2>2. s \in RowStatuses
    BY DEF RowStatuses
  <2>3. Rewritten(row, row', call.row, s)
    BY <2>1, <2>2, <1>t, WrittenRow
  <2> QED
    BY <1>3, <2>3, RewrittenPatches DEF GivesUp
<1>4. CASE Retries
  <2>1. "RUNNING" \in RowStatuses
    BY DEF RowStatuses
  <2>2. Rewritten(row, row', call.row, "RUNNING")
    BY <1>4, <2>1, <1>t, WrittenRow DEF Retries
  <2> QED
    BY <1>4, <2>2, RewrittenPatches DEF Retries, TriesAgain
<1> QED
  BY <1>1, <1>2, <1>3, <1>4, GatewayKinds DEF AllTyped

-----------------------------------------------------------------------------
(* The steps of the pass and of the others. *)

\* The pass ends a call or goes on without one, and commits.
LEMMA CommitPatches ==
    ASSUME AllTyped, PatchesInOrder, pc # "idle", pc' \in {"idle", "step"},
           UNCHANGED <<row, tree, appr>>,
           gate' = CommitGate \/ (gate' = gate /\ pc # "calling"),
           pc' = "step" => pc # "calling" \/ call.phase # "gated"
    PROVE PatchesInOrder'
<1>1. InOrder' /\ LastPatch'
  BY OrderStays
<1>2. /\ \A a \in Approvals : gate'[a] = "pending" =>
             pc = "calling" /\ call.phase = "gated" /\ call.appr = a
      /\ \A a \in Approvals : gate'[a] # "flushed"
  BY CommitPending DEF PatchesInOrder, RowOfApproval, NonePending
<1>3. OnePending'
  BY <1>2 DEF PatchesInOrder, OnePending, IsPending
<1>4. RowOfApproval'
  <2>1. CASE pc' = "idle"
    BY <1>2, <2>1 DEF PatchesInOrder, RowOfApproval, IsPending
  <2>2. CASE pc' = "step"
    <3>1. pc \in {"begin", "step"} \/ (pc = "calling" /\ call.phase # "gated")
      BY <2>2 DEF AllTyped, TaskTyped
    <3>2. \A i \in Rows : IsPending(i) => row[i].appr = appr
      BY <3>1 DEF PatchesInOrder, RowOfApproval
    <3>3. NonePending'
      BY <1>2, <3>1 DEF NonePending
    <3> QED
      BY <1>2, <2>2, <3>2, <3>3 DEF RowOfApproval, IsPending
  <2> QED
    BY <2>1, <2>2
<1> QED
  BY <1>1, <1>3, <1>4 DEF PatchesInOrder

\* Decisions and rollbacks take approvals away.
LEMMA OthersPatches ==
    ASSUME PatchesInOrder, UNCHANGED <<row, kept, call>>, pc' = pc, UNCHANGED appr,
           \A a \in Approvals : gate'[a] = "pending" => gate[a] = "pending",
           \A a \in Approvals : gate'[a] = "flushed" => gate[a] = "flushed",
           tree' = tree \/ \E i \in Rows : IsPatch(i)
    PROVE PatchesInOrder'
<1>1. InOrder'
  BY DEF PatchesInOrder, InOrder, IsPatch
<1>2. LastPatch'
  BY DEF PatchesInOrder, LastPatch, PatchWaits, IsPending, IsPatch
<1>3. OnePending'
  BY DEF PatchesInOrder, OnePending, IsPending
<1>4. RowOfApproval'
  BY DEF PatchesInOrder, RowOfApproval, IsPending, NonePending
<1> QED
  BY <1>1, <1>2, <1>3, <1>4 DEF PatchesInOrder

\* What a committed row says of patches the pipeline sees too.
LEMMA KeptPatches ==
    ASSUME Recorded, PatchesInOrder, NEW i \in Rows, kept[i].inverse = "git_revert"
    PROVE IsPatch(i) /\ (pc = "calling" => i # call.row)
BY DEF Recorded, Committed, PatchesInOrder, LastPatch, IsPatch

\* While it works alone, a rollback comes to the tree of the repository with its last patch.
Undoing ==
    /\ rb.phase = "run" => \A i \in rb.todo : kept[i].inverse = "git_revert"
    /\ rb.phase = "run" /\ rb.quiet /\ rb.ok =>
          /\ rb.todo = {} => tree = <<>>
          /\ rb.todo # {} =>
                \E i \in rb.todo : kept[i].before = <<>> /\ \A j \in rb.todo : i <= j
    /\ rb.phase = "done" /\ rb.quiet /\ rb.ok => tree = <<>>

PatchInv == NoFault => PatchesInOrder /\ Undoing

LEMMA PipelinePatches ==
    ASSUME AllTyped, Recorded, PatchesInOrder, PipelineStep,
           ~CallReturnedUnsaved, ~RetryLosesCommit, ~PauseUnsaved
    PROVE PatchesInOrder'
<1>1. CASE Begin
  BY <1>1, CommitPatches DEF Begin, Commit
<1>2. CASE SkipDone
  BY <1>2, CommitPatches DEF SkipDone, gatewayVars
<1>3. CASE StartCall
  <2>1. plan.tools[pos] \in Tools
    BY <1>3, PlanFacts DEF StartCall, More, AllTyped
  <2> QED
    BY <1>3, <2>1, OpenPatches DEF StartCall
<1>4. CASE InCall
  BY <1>4, GatewayPatches DEF InCall, taskVars
<1>5. CASE CallReturned
  BY <1>5, CommitPatches DEF CallReturned, Commit, Advance
<1>6. CASE CallRaised
  <2>1. pc' \in {"idle", "step"} /\ UNCHANGED appr
    BY <1>6 DEF CallRaised
  <2> QED
    BY <1>6, <2>1, CommitPatches DEF CallRaised, Commit
<1>7. CASE Pause
  BY <1>7, CommitPatches DEF Pause, Commit
<1>8. CASE \E s \in Statuses : Finish(s)
  BY <1>8, CommitPatches DEF Finish, Commit
<1> QED
  BY <1>1, <1>2, <1>3, <1>4, <1>5, <1>6, <1>7, <1>8 DEF PipelineStep

LEMMA OtherStepsPatches ==
    ASSUME AllTyped, Recorded, PatchesInOrder, Undoing,
           \/ \E a \in Approvals : Grant(a) \/ Reject(a)
           \/ FailStale
           \/ BeginRollback \/ (\E ok \in BOOLEAN : Inverted(ok)) \/ EndRollback
    PROVE PatchesInOrder'
<1>g. gate \in [Approvals -> GateStatuses]
  BY DEF AllTyped, Typed
<1>1. ASSUME NEW a \in Approvals, Grant(a) PROVE PatchesInOrder'
  <2>1. /\ pc = "idle" /\ gate[a] = "pending" /\ gate' = [gate EXCEPT ![a] = "granted"]
        /\ appr' = a /\ pc' = "begin" /\ UNCHANGED <<row, kept, call, tree>>
    BY <1>1 DEF Grant
  <2>2. InOrder' /\ LastPatch'
    BY <2>1, OrderStays
  <2>3. \A b \in Approvals : gate'[b] # "pending" /\ gate'[b] # "flushed"
    <3>1. \A b \in Approvals : gate[b] = "pending" => b = a
      BY <2>1 DEF PatchesInOrder, OnePending
    <3>2. \A b \in Approvals : gate[b] # "flushed"
      BY <2>1 DEF PatchesInOrder, RowOfApproval
    <3> QED
      BY <2>1, <3>1, <3>2, <1>g
  <2>4. \A i \in Rows : IsPending(i) => row[i].appr = a
    BY <2>1 DEF PatchesInOrder, RowOfApproval
  <2>5. OnePending' /\ RowOfApproval'
    BY <2>1, <2>3, <2>4 DEF PatchesInOrder, OnePending, RowOfApproval, IsPending, NonePending
  <2> QED
    BY <2>2, <2>5 DEF PatchesInOrder
<1>2. ASSUME NEW a \in Approvals, Reject(a) PROVE PatchesInOrder'
  <2>1. /\ gate' = [gate EXCEPT ![a] = "rejected"] /\ pc' = pc
        /\ UNCHANGED <<row, kept, call, tree, appr>>
    BY <1>2 DEF Reject
  <2> QED
    BY <2>1, <1>g, OthersPatches
<1>3. CASE FailStale \/ BeginRollback
  BY <1>3, OthersPatches DEF FailStale, BeginRollback, gatewayVars, taskVars
<1>4. ASSUME NEW ok \in BOOLEAN, Inverted(ok) PROVE PatchesInOrder'
  <2>1. /\ rb.phase = "run" /\ rb.todo # {}
        /\ UNCHANGED <<row, kept, gate, call, appr, pc>>
    BY <1>4 DEF Inverted, taskVars
  <2>2. PICK i \in rb.todo : i \in Rows
    BY <2>1 DEF AllTyped, RollbackFields
  <2>3. IsPatch(i)
    BY <2>1, <2>2, KeptPatches DEF Undoing
  <2> QED
    BY <2>1, <2>2, <2>3, OthersPatches
<1>5. CASE EndRollback
  <2>1. /\ gate' = [a \in Approvals |-> IF a \notin rb.seen THEN gate[a]
                                         ELSE IF WasGranted(a) THEN "withdrawn" ELSE "cancelled"]
        /\ pc' = pc /\ UNCHANGED <<row, kept, call, appr, tree>>
    BY <1>5 DEF EndRollback
  <2>2. \A a \in Approvals : /\ gate'[a] = "pending" => gate[a] = "pending"
                             /\ gate'[a] = "flushed" => gate[a] = "flushed"
    BY <2>1
  <2> QED
    BY <2>1, <2>2, OthersPatches
<1> QED
  BY <1>1, <1>2, <1>3, <1>4, <1>5

\* Rows that are committed stay patches.
LEMMA KeptGoesOn ==
    ASSUME AllTyped, Recorded, PatchesInOrder, PipelineStep,
           ~CallReturnedUnsaved, ~RetryLosesCommit, ~PauseUnsaved
    PROVE \A i \in Rows : kept[i].inverse = "git_revert" => kept'[i].inverse = "git_revert"
<1> SUFFICES ASSUME NEW i \in Rows, kept[i].inverse = "git_revert"
             PROVE kept'[i].inverse = "git_revert"
  OBVIOUS
<1>0. IsPatch(i) /\ (pc = "calling" => i # call.row)
  BY KeptPatches
<1>1. CASE kept' = kept
  BY <1>1
<1>2. CASE kept' = row
  BY <1>0, <1>2 DEF IsPatch
<1>3. CASE StartCall
  <2>1. kept' = row
    BY <1>3, OpenKinds DEF StartCall
  <2> QED
    BY <1>2, <2>1
<1>4. CASE InCall
  <2>1. CASE Retries
    <3>1. /\ "RUNNING" \in RowStatuses /\ call.row \in Rows \cup {0} /\ call.attempt \in Nat
          /\ row \in [Rows -> Row]
      BY DEF RowStatuses, AllTyped, Typed, Call, RowsTyped
    <3>2. Rewritten(row, row', call.row, "RUNNING") /\ kept' = row'
      BY <2>1, <3>1, WrittenRow DEF Retries
    <3> QED
      BY <1>0, <1>4, <3>2 DEF Rewritten, IsPatch, InCall
  <2>2. CASE Passes \/ Succeeds \/ GivesUp
    BY <1>1, <2>2 DEF Passes, Succeeds, GivesUp
  <2> QED
    BY <1>4, <2>1, <2>2, GatewayKinds DEF InCall, AllTyped
<1>5. CASE Begin \/ SkipDone \/ CallReturned \/ CallRaised \/ Pause \/ \E s \in Statuses : Finish(s)
  BY <1>1, <1>2, <1>5
     DEF Begin, SkipDone, CallReturned, CallRaised, Pause, Finish, Commit, gatewayVars
<1> QED
  BY <1>3, <1>4, <1>5 DEF PipelineStep

LEMMA StepUndoes ==
    ASSUME AllTyped, Recorded, PatchesInOrder, Undoing, Undisturbed, Next,
           ~CallReturnedUnsaved, ~RetryLosesCommit, ~PauseUnsaved, ~CrashAndResume
    PROVE Undoing'
<1>f. rb.todo \subseteq Rows /\ kept \in [Rows -> Row]
  BY DEF AllTyped, RollbackFields, RowsTyped
<1>1. CASE PipelineStep
  <2>1. pc # "idle" /\ rb' = rb
    BY <1>1 DEF PipelineStep, Begin, SkipDone, StartCall, InCall, CallReturned, RetryLosesCommit,
       CallReturnedUnsaved, CallRaised, Pause, PauseUnsaved, Finish, Advance
  <2>2. ~(rb.phase = "run" /\ rb.quiet) /\ ~(rb.phase = "done" /\ rb.quiet)
    BY <2>1 DEF Undisturbed
  <2>3. rb.phase = "run" => \A i \in rb.todo : kept'[i].inverse = "git_revert"
    BY <1>1, <1>f, KeptGoesOn DEF Undoing
  <2> QED
    BY <2>1, <2>2, <2>3 DEF Undoing
<1>2. ASSUME NEW a \in Approvals, Grant(a) PROVE Undoing'
  <2>1. UNCHANGED <<kept, tree>>
    BY <1>2 DEF Grant
  <2> QED
    BY <1>2, <2>1, RollbackMoves DEF Undoing
<1>3. ASSUME NEW a \in Approvals, Reject(a) PROVE Undoing'
  BY <1>3 DEF Reject, Undoing
<1>4. CASE FailStale
  BY <1>4 DEF FailStale, gatewayVars, Undoing
<1>5. CASE BeginRollback
  <2>1. UNCHANGED <<kept, tree>>
    BY <1>5 DEF BeginRollback, gatewayVars
  <2>2. \A i \in Undoable : i \in Rows /\ kept[i].inverse = "git_revert"
    BY DEF Undoable
  <2>3. ASSUME pc = "idle"
        PROVE /\ Undoable = {} => tree = <<>>
              /\ Undoable # {} =>
                    \E i \in Undoable : kept[i].before = <<>> /\ \A j \in Undoable : i <= j
    <3>1. kept = row
      BY <2>3 DEF Recorded, Committed
    <3>2. \A i \in Rows : IsPatch(i) <=> i \in Undoable
      BY <3>1 DEF IsPatch, Undoable
    <3>3. Undoable = {} => tree = <<>>
      BY <3>2 DEF PatchesInOrder, InOrder
    <3>4. ASSUME Undoable # {}
          PROVE \E i \in Undoable : kept[i].before = <<>> /\ \A j \in Undoable : i <= j
      <4>1. PICK i \in Undoable : \A j \in Undoable : i <= j
        BY <2>2, <3>4, NewestIsLast
      <4>2. row[i].before = <<>>
        BY <2>2, <3>2, <4>1 DEF PatchesInOrder, InOrder
      <4> QED
        BY <3>1, <4>1, <4>2
    <3> QED
      BY <3>3, <3>4
  <2> QED
    BY <1>5, <2>1, <2>2, <2>3, RollbackMoves DEF Undoing
<1>6. ASSUME NEW ok \in BOOLEAN, Inverted(ok) PROVE Undoing'
  <2>1. /\ rb.phase = "run" /\ rb.todo # {} /\ kept' = kept
        /\ tree' = IF ok THEN kept[Newest(rb.todo)].before ELSE tree
    BY <1>6 DEF Inverted
  <2>2. Newest(rb.todo) \in rb.todo /\ \A j \in rb.todo : j <= Newest(rb.todo)
    BY <1>f, <2>1, NewestIsLast
  <2>3. /\ rb'.phase = "run" /\ rb'.todo = rb.todo \ {Newest(rb.todo)}
        /\ (rb'.ok => rb.ok /\ ok) /\ (rb'.quiet => rb.quiet)
    BY <1>6, <2>1, RollbackMoves
  <2>4. ASSUME rb'.quiet, rb'.ok
        PROVE /\ rb'.todo = {} => tree' = <<>>
              /\ rb'.todo # {} =>
                    \E i \in rb'.todo : kept[i].before = <<>> /\ \A j \in rb'.todo : i <= j
    <3>1. PICK i \in rb.todo : kept[i].before = <<>> /\ \A j \in rb.todo : i <= j
      BY <2>1, <2>3, <2>4 DEF Undoing
    <3>2. rb.todo \subseteq Nat
      BY <1>f DEF Rows
    <3>3. CASE rb'.todo = {}
      <4>1. i = Newest(rb.todo)
        BY <2>3, <3>1, <3>3
      <4> QED
        BY <2>1, <2>3, <2>4, <3>1, <3>3, <4>1
    <3>4. CASE rb'.todo # {}
      <4>1. PICK j \in rb.todo : j # Newest(rb.todo)
        BY <2>3, <3>4
      <4>2. i # Newest(rb.todo)
        BY <2>2, <3>1, <3>2, <4>1
      <4> QED
        BY <2>3, <3>1, <3>4, <4>2
    <3> QED
      BY <3>3, <3>4
  <2> QED
    BY <2>1, <2>3, <2>4 DEF Undoing
<1>7. CASE EndRollback
  <2>1. rb.phase = "run" /\ rb.todo = {} /\ tree' = tree
    BY <1>7 DEF EndRollback
  <2> QED
    BY <1>7, <2>1, RollbackMoves DEF Undoing
<1> QED
  BY <1>1, <1>2, <1>3, <1>4, <1>5, <1>6, <1>7 DEF Next

\* Faults are never forgotten.
LEMMA FaultsStay ==
    ASSUME AllTyped, Next, NoFault'
    PROVE /\ NoFault
          /\ ~CallReturnedUnsaved /\ ~RetryLosesCommit /\ ~PauseUnsaved /\ ~CrashAndResume
<1>n. crashes \in Nat /\ losses \in Nat /\ losses' # losses + 1 /\ crashes' # crashes + 1
  BY DEF AllTyped, TaskTyped, NoFault
<1>1. crashes' = crashes /\ losses' = losses
  BY <1>n DEF Next, PipelineStep, Begin, SkipDone, StartCall, InCall, CallReturned,
     CallReturnedUnsaved, RetryLosesCommit, CallRaised, Pause, PauseUnsaved, Finish, Grant,
     Reject, FailStale, CrashAndResume, BeginRollback, Inverted, EndRollback, Advance
<1>2. ~CallReturnedUnsaved /\ ~RetryLosesCommit /\ ~PauseUnsaved /\ ~CrashAndResume
  BY <1>n DEF CallReturnedUnsaved, RetryLosesCommit, PauseUnsaved, CrashAndResume
<1> QED
  BY <1>1, <1>2 DEF NoFault

LEMMA StepPatches ==
    ASSUME AllTyped, RecordInv, PatchInv, Undisturbed, Next
    PROVE PatchInv'
<1> SUFFICES ASSUME NoFault' PROVE PatchesInOrder' /\ Undoing'
  BY DEF PatchInv
<1>1. /\ Recorded /\ PatchesInOrder /\ Undoing
      /\ ~CallReturnedUnsaved /\ ~RetryLosesCommit /\ ~PauseUnsaved /\ ~CrashAndResume
  BY FaultsStay DEF RecordInv, PatchInv
<1>2. PatchesInOrder'
  BY <1>1, PipelinePatches, OtherStepsPatches DEF Next
<1> QED
  BY <1>1, <1>2, StepUndoes

LEMMA PatchesHold == Init /\ [][Next]_vars => [](Undisturbed /\ PatchInv)
<1>1. Init => Undisturbed /\ PatchInv
  <2> SUFFICES ASSUME Init PROVE Undisturbed /\ PatchInv
    OBVIOUS
  <2>1. /\ row = [i \in Rows |-> NoRow] /\ tree = <<>> /\ pc \in {"begin", "idle"}
        /\ rb.phase = "none"
    BY DEF Init, GatewayInit, NoRollback
  <2>2. \A i \in Rows : row[i].status = "absent" /\ row[i].inverse = "none"
    BY <2>1 DEF NoRow
  <2>3. InOrder /\ LastPatch
    BY <2>1, <2>2 DEF InOrder, LastPatch, IsPatch, IsPending, PatchWaits
  <2>4. \A a, b \in Approvals : gate[a] = "pending" /\ gate[b] = "pending" => a = b
    BY DEF Init
  <2>5. (\A a \in Approvals : gate[a] # "flushed") /\ (pc # "idle" => NonePending)
    BY DEF Init, NonePending
  <2> QED
    BY <2>1, <2>2, <2>3, <2>4, <2>5
       DEF PatchInv, PatchesInOrder, OnePending, RowOfApproval, IsPending, Undoing, Undisturbed
<1>2. AllTyped /\ RecordInv /\ Undisturbed /\ PatchInv /\ [Next]_vars
      => (Undisturbed /\ PatchInv)'
  <2> SUFFICES ASSUME AllTyped, RecordInv, Undisturbed, PatchInv, [Next]_vars
               PROVE (Undisturbed /\ PatchInv)'
    OBVIOUS
  <2>1. CASE Next
    BY <2>1, StepPatches, StepUndisturbed
  <2>2. CASE UNCHANGED vars
    <3>1. UNCHANGED <<row, kept, gate, call, tree, pc, appr, status, rb, crashes, losses>>
      BY <2>2 DEF vars, gatewayVars, taskVars
    <3>2. Undisturbed'
      BY <3>1 DEF Undisturbed, NonePending
    <3>3. PatchesInOrder => PatchesInOrder'
      BY <3>1, OthersPatches
    <3>4. Undoing => Undoing'
      BY <3>1 DEF Undoing
    <3> QED
      BY <3>1, <3>2, <3>3, <3>4 DEF PatchInv, NoFault
  <2> QED
    BY <2>1, <2>2
<1> QED
  BY <1>1, <1>2, AllTypesHold, RecordHolds, PTL

(* What is left in the sandbox besides its commits.  A patch that was applied or refused put it   *)
(* there, and the row of that patch says so; the first patch that is undone takes the edits away. *)

PatchCall ==
    call.tool = Patch =>
        /\ call.phase \notin {"lookup", "confirm"}
        /\ call.phase = "failed" => ~call.retryable /\ ~call.timedOut

IsRefused(i) == row[i].tool = Patch /\ row[i].status = "FAILED"
Explains(i) == IsPatch(i) \/ IsRefused(i)
PatchFails == pc = "calling" /\ call.tool = Patch /\ call.phase = "failed"

LeftKnown == left # {} => PatchFails \/ \E i \in Rows : Explains(i)

UndoneIsClean ==
    /\ rb.phase = "done" => rb.todo = {}
    /\ rb.phase \in {"run", "done"} /\ rb.quiet /\ rb.ok /\ Undoable \ rb.todo # {} =>
          left \subseteq {"files"}

LeftInv == NoFault => LeftKnown /\ UndoneIsClean

\* The three things a call of a patch does.
PatchRefuses ==
    /\ call.phase = "post" /\ UNCHANGED row
    /\ call' = [call EXCEPT !.phase = "failed", !.retryable = FALSE, !.timedOut = FALSE]
PatchSucceeds ==
    /\ call.phase = "post" /\ row' = IF call.row = 0 THEN row ELSE RowSucceeded
    /\ call' = [call EXCEPT !.phase = "returned"]
PatchGivesUp ==
    /\ call.phase = "failed" /\ UNCHANGED left
    /\ row' = Written(row, call.row, "FAILED", call.attempt)
    /\ call' = [call EXCEPT !.phase = "raised"]

LEMMA PatchMoves ==
    ASSUME PatchCall, GatewayStep, call.tool = Patch
    PROVE PatchRefuses \/ PatchSucceeds \/ PatchGivesUp
<1>1. ~LookupAnswered /\ ~ConfirmAnswered /\ \A b, o \in BOOLEAN : ~LookupFailed(b, o)
  BY DEF LookupAnswered, ConfirmAnswered, LookupFailed, PatchCall
<1>2. ~Retry /\ \A b, o \in BOOLEAN : ~PostLost(b, o)
  BY DEF Retry, Again, PatchCall, PostLost
<1>3. PostAnswered => PatchSucceeds
  BY DEF PostAnswered, Succeeded, RowSucceeded, PatchSucceeds, Patch, Transition
<1>4. ASSUME NEW r \in BOOLEAN, PostRefused(r) PROVE PatchRefuses
  BY <1>4 DEF PostRefused, Raised, PatchRefuses
<1>5. GiveUp => PatchGivesUp
  BY DEF GiveUp, PatchCall, PatchGivesUp
<1> QED
  BY <1>1, <1>2, <1>3, <1>4, <1>5 DEF GatewayStep

\* No step but that of a patch leaves anything.
LEMMA OthersLeaveNothing ==
    ASSUME [Next]_vars, ~Patching
    PROVE left' \subseteq left
BY LeftBehind

LEMMA StepPatchCall ==
    ASSUME AllTyped, PatchCall, [Next]_vars
    PROVE PatchCall'
<1>c. call \in Call
  BY DEF AllTyped, Typed
<1>1. CASE UNCHANGED call
  BY <1>1 DEF PatchCall
<1>2. CASE call' = NoCall
  BY <1>2 DEF PatchCall, NoCall, Request, Patch
<1>3. CASE StartCall
  <2>1. plan.tools[pos] \in Tools /\ appr \in Approvals \cup {None}
    BY <1>3, PlanFacts DEF StartCall, More, AllTyped, Typed
  <2> DEFINE t == plan.tools[pos]
  <2>2. \E i \in Rows, a \in Approvals \cup {None} :
           call' = OpenedAt(t, a, i, FirstPhase(t)) \/ call' = OpenedAt(t, a, i, "gated")
    BY <1>3, <2>1, OpenKinds DEF StartCall, Resumes, Starts, Asks
  <2>3. FirstPhase(t) \in Phases /\ "gated" \in Phases /\ (t = Patch => FirstPhase(t) = "post")
    BY DEF FirstPhase, Phases, Patch, Transition
  <2> HIDE DEF t
  <2>4. call'.tool = t /\ call'.phase \in {FirstPhase(t), "gated"}
    BY <2>1, <2>2, <2>3, OpenedType DEF t
  <2> QED
    BY <2>3, <2>4 DEF PatchCall
<1>4. CASE InCall
  <2>1. CASE call.tool = Patch
    <3>1. PatchRefuses \/ PatchSucceeds \/ PatchGivesUp
      BY <1>4, <2>1, PatchMoves DEF InCall
    <3> QED
      BY <3>1, <1>c DEF PatchRefuses, PatchSucceeds, PatchGivesUp, PatchCall, Call
  <2>2. CASE call.tool # Patch
    <3>1. call'.tool = call.tool
      BY <1>4, GatewayKinds DEF InCall, AllTyped, Passes, Succeeds, GivesUp, Retries, TriesAgain,
         SameCall
    <3> QED
      BY <2>2, <3>1 DEF PatchCall
  <2> QED
    BY <2>1, <2>2
<1>5. CASE RetryLosesCommit
  <2>1. call.tool # Patch
    BY <1>5 DEF RetryLosesCommit, RetryUnsaved, Again, PatchCall
  <2>2. call'.tool = call.tool
    BY <1>5, <1>c DEF RetryLosesCommit, RetryUnsaved, NextAttempt, Call
  <2> QED
    BY <2>1, <2>2 DEF PatchCall
<1>6. CASE Next /\ ~StartCall /\ ~InCall /\ ~RetryLosesCommit
  BY <1>1, <1>2, <1>6 DEF Next, PipelineStep, Begin, SkipDone, CallReturned, CallReturnedUnsaved,
     CallRaised, Pause, PauseUnsaved, Finish, Advance, Grant, Reject, FailStale, CrashAndResume,
     BeginRollback, Inverted, EndRollback, gatewayVars
<1>7. CASE UNCHANGED vars
  BY <1>1, <1>7 DEF vars, gatewayVars
<1> QED
  BY <1>3, <1>4, <1>5, <1>6, <1>7

\* A step of the gateway writes to the row of its call.
LEMMA GatewayOtherRows ==
    ASSUME AllTyped, GatewayStep, NEW j \in Rows, j # call.row
    PROVE row'[j] = row[j]
<1>r. row \in [Rows -> Row] /\ call \in Call /\ call.row \in Rows \cup {0} /\ 0 \notin Rows
      /\ call.attempt \in Nat
  BY DEF AllTyped, Typed, RowsTyped, Rows, Call
<1>s. {"FAILED", "TIMED_OUT", "RUNNING"} \subseteq RowStatuses
  BY DEF RowStatuses
<1>1. \A s \in RowStatuses : Rewritten(row, Written(row, call.row, s, call.attempt), call.row, s)
  BY <1>r, WrittenRow
<1>2. CASE Passes
  BY <1>2 DEF Passes
<1>3. CASE Succeeds
  BY <1>3, <1>r DEF Succeeds, RowSucceeded
<1>4. CASE GivesUp
  BY <1>1, <1>4, <1>s DEF GivesUp, Rewritten
<1>5. CASE Retries
  BY <1>1, <1>5, <1>s DEF Retries, Rewritten
<1> QED
  BY <1>2, <1>3, <1>4, <1>5, GatewayKinds DEF AllTyped

\* A call of a patch that fails or succeeds leaves a row that explains what is in the sandbox.
LEMMA PatchRow ==
    ASSUME AllTyped, PatchCall, GatewayStep, call.tool = Patch, call.row \in Rows,
           row[call.row].tool = Patch
    PROVE /\ PatchRefuses \/ PatchSucceeds \/ PatchGivesUp
          /\ PatchSucceeds => row'[call.row].inverse = "git_revert"
          /\ PatchGivesUp => row'[call.row].status = "FAILED" /\ row'[call.row].tool = Patch
<1>r. row \in [Rows -> Row] /\ call \in Call /\ 0 \notin Rows /\ call.attempt \in Nat
      /\ tree \in Seq(Rows)
  BY DEF AllTyped, Typed, RowsTyped, Rows, Call
<1>1. PatchRefuses \/ PatchSucceeds \/ PatchGivesUp
  BY PatchMoves
<1>2. PatchSucceeds => row'[call.row].inverse = "git_revert"
  <2>1. InverseAction(call.tool) = "git_revert"
    BY DEF InverseAction, Patch, Comment, Transition
  <2> QED
    BY <1>r, <2>1, SucceededRow DEF PatchSucceeds
<1>3. PatchGivesUp => row'[call.row].status = "FAILED" /\ row'[call.row].tool = Patch
  <2>1. Rewritten(row, Written(row, call.row, "FAILED", call.attempt), call.row, "FAILED")
    BY <1>r, WrittenRow DEF RowStatuses
  <2> QED
    BY <2>1 DEF PatchGivesUp, Rewritten
<1> QED
  BY <1>1, <1>2, <1>3

\* A row that explains what is left goes on doing so.
LEMMA ExplainedStays ==
    ASSUME AllTyped, Recorded, PatchesInOrder, PatchCall, Next,
           ~CallReturnedUnsaved, ~RetryLosesCommit, ~PauseUnsaved, ~CrashAndResume,
           NEW i \in Rows, Explains(i)
    PROVE Explains(i)'
<1>r. row \in [Rows -> Row] /\ call.row \in Rows \cup {0}
  BY DEF AllTyped, Typed, RowsTyped, Call
<1>s. row[i].status \in {"SUCCEEDED", "FAILED"}
  BY DEF Explains, IsRefused, PatchesInOrder, InOrder
<1>1. CASE row'[i] = row[i]
  BY <1>1 DEF Explains, IsPatch, IsRefused
<1>2. CASE StartCall
  <2>1. plan.tools[pos] \in Tools
    BY <1>2, PlanFacts DEF StartCall, More, AllTyped
  <2> DEFINE t == plan.tools[pos]
  <2>2. Resumes(t, appr) \/ Starts(t, appr) \/ Asks(t)
    BY <1>2, <2>1, OpenKinds DEF StartCall
  <2> HIDE DEF t
  <2>3. CASE Resumes(t, appr)
    BY <1>1, <1>r, <1>s, <2>3 DEF Resumes
  <2>4. CASE Starts(t, appr)
    BY <1>1, <1>r, <1>s, <2>4 DEF Starts, FreeRow
  <2>5. CASE Asks(t)
    BY <1>1, <1>r, <1>s, <2>5 DEF Asks, FreeRow
  <2> QED
    BY <2>2, <2>3, <2>4, <2>5
<1>3. CASE InCall
  <2>1. GatewayStep /\ pc = "calling" /\ call.row \in Rows /\ row[call.row].tool = call.tool
    BY <1>3 DEF InCall, Recorded, Committed
  <2>2. CASE i # call.row
    BY <1>1, <2>1, <2>2, GatewayOtherRows
  <2>3. CASE i = call.row /\ call.tool = Patch
    <3>1. /\ PatchRefuses \/ PatchSucceeds \/ PatchGivesUp
          /\ PatchSucceeds => row'[i].inverse = "git_revert"
          /\ PatchGivesUp => row'[i].status = "FAILED" /\ row'[i].tool = Patch
      BY <2>1, <2>3, PatchRow
    <3>2. PatchRefuses => row'[i] = row[i]
      BY DEF PatchRefuses
    <3> QED
      BY <1>1, <3>1, <3>2 DEF Explains, IsPatch, IsRefused
  <2>4. CASE i = call.row /\ call.tool # Patch
    <3>1. call.phase \notin {"returned", "gated"}
      BY <2>1, GatewayKinds DEF AllTyped, Passes, Succeeds, GivesUp, Retries, TriesAgain
    <3>2. ~IsPatch(i)
      BY <2>1, <2>4, <3>1 DEF PatchesInOrder, LastPatch
    <3> QED
      BY <2>1, <2>4, <3>2 DEF Explains, IsRefused
  <2> QED
    BY <2>2, <2>3, <2>4
<1>4. CASE Next /\ ~StartCall /\ ~InCall
  <2>1. row' = row
    BY <1>4 DEF Next, PipelineStep, Begin, SkipDone, CallReturned, CallRaised, Pause, Finish,
       Advance, Grant, Reject, FailStale, BeginRollback, Inverted, EndRollback, gatewayVars
  <2> QED
    BY <1>1, <2>1
<1> QED
  BY <1>2, <1>3, <1>4

LEMMA StepKnows ==
    ASSUME AllTyped, Recorded, PatchesInOrder, PatchCall, LeftKnown, Next,
           ~CallReturnedUnsaved, ~RetryLosesCommit, ~PauseUnsaved, ~CrashAndResume
    PROVE LeftKnown'
<1>1. (\E i \in Rows : Explains(i)) => (\E i \in Rows : Explains(i))'
  BY ExplainedStays
<1>2. CASE InCall /\ call.tool = Patch
  <2>1. GatewayStep /\ pc' = "calling" /\ call.row \in Rows /\ row[call.row].tool = Patch
        /\ call \in Call
    BY <1>2 DEF InCall, Recorded, Committed, taskVars, AllTyped, Typed
  <2>2. CASE PatchRefuses
    BY <1>2, <2>1, <2>2 DEF PatchRefuses, LeftKnown, PatchFails, Call
  <2>3. CASE PatchSucceeds \/ PatchGivesUp
    BY <1>2, <2>1, <2>3, PatchRow DEF LeftKnown, Explains, IsPatch, IsRefused
  <2> QED
    BY <1>2, <2>1, <2>2, <2>3, PatchRow
<1>3. CASE ~(InCall /\ call.tool = Patch)
  <2>1. PatchFails => UNCHANGED <<pc, call>>
    BY <1>3 DEF PatchFails, Next, PipelineStep, Begin, SkipDone, StartCall, InCall, CallReturned,
       CallRaised, Pause, Finish, Grant, Reject, FailStale, BeginRollback, Inverted, EndRollback,
       gatewayVars, taskVars
  <2>2. left' \subseteq left
    <3>1. CASE Patching
      <4>1. pc = "calling" /\ call.phase = "post"
        BY <3>1 DEF Patching, Recorded, Committed, NoCall
      <4>2. ~PipelineStep
        BY <1>3, <3>1, <4>1 DEF Patching, PipelineStep, Begin, SkipDone, StartCall, CallReturned,
           CallRaised, Pause, Finish
      <4> QED
        BY <4>2 DEF Next, Grant, Reject, FailStale, BeginRollback, Inverted, EndRollback,
           gatewayVars
    <3>2. CASE ~Patching
      BY <3>2, OthersLeaveNothing
    <3> QED
      BY <3>1, <3>2
  <2> QED
    BY <1>1, <2>1, <2>2 DEF LeftKnown, PatchFails
<1> QED
  BY <1>2, <1>3

LEMMA StepCleans ==
    ASSUME AllTyped, LeftTyped, Recorded, Undisturbed, UndoneIsClean, Next,
           ~CallReturnedUnsaved, ~RetryLosesCommit, ~PauseUnsaved, ~CrashAndResume
    PROVE UndoneIsClean'
<1>1. CASE PipelineStep
  <2>1. pc # "idle" /\ rb' = rb
    BY <1>1 DEF PipelineStep, Begin, SkipDone, StartCall, InCall, CallReturned, RetryLosesCommit,
       CallReturnedUnsaved, CallRaised, Pause, PauseUnsaved, Finish, Advance
  <2> QED
    BY <2>1 DEF Undisturbed, UndoneIsClean
<1>2. ASSUME NEW a \in Approvals, Grant(a) PROVE UndoneIsClean'
  <2>1. UNCHANGED <<kept, left>>
    BY <1>2 DEF Grant
  <2> QED
    BY <1>2, <2>1, RollbackMoves DEF UndoneIsClean, Undoable
<1>3. CASE FailStale \/ \E a \in Approvals : Reject(a)
  BY <1>3 DEF FailStale, Reject, gatewayVars, UndoneIsClean, Undoable
<1>4. CASE BeginRollback
  <2>1. UNCHANGED <<kept, left>>
    BY <1>4 DEF BeginRollback, gatewayVars
  <2> QED
    BY <1>4, <2>1, RollbackMoves DEF UndoneIsClean, Undoable
<1>5. ASSUME NEW ok \in BOOLEAN, Inverted(ok) PROVE UndoneIsClean'
  <2>1. ok => left' \subseteq {"files"}
    BY <1>5 DEF Inverted, LeftTyped, Leftovers
  <2>2. rb.phase = "run" /\ rb'.phase = "run" /\ (rb'.ok => ok)
    BY <1>5, RollbackMoves DEF Inverted
  <2> QED
    BY <2>1, <2>2 DEF UndoneIsClean
<1>6. CASE EndRollback
  <2>1. rb.phase = "run" /\ rb.todo = {} /\ UNCHANGED <<kept, left>>
    BY <1>6 DEF EndRollback
  <2> QED
    BY <1>6, <2>1, RollbackMoves DEF UndoneIsClean, Undoable
<1> QED
  BY <1>1, <1>2, <1>3, <1>4, <1>5, <1>6 DEF Next

LEMMA PatchCallHolds == Init /\ [][Next]_vars => []PatchCall
<1>1. Init => PatchCall
  BY DEF Init, GatewayInit, NoCall, PatchCall, Patch, Request
<1> QED
  BY <1>1, StepPatchCall, AllTypesHold, PTL

LEMMA LeftHolds == Init /\ [][Next]_vars => []LeftInv
<1>1. Init => LeftInv
  BY DEF Init, GatewayInit, NoRollback, LeftInv, LeftKnown, UndoneIsClean
<1>2. /\ AllTyped /\ LeftTyped /\ RecordInv /\ Undisturbed /\ PatchInv /\ PatchCall /\ LeftInv
      /\ [Next]_vars
      => LeftInv'
  <2> SUFFICES ASSUME AllTyped, LeftTyped, RecordInv, Undisturbed, PatchInv, PatchCall, LeftInv,
                      [Next]_vars, NoFault'
               PROVE LeftKnown' /\ UndoneIsClean'
    BY DEF LeftInv
  <2>1. CASE Next
    <3>1. /\ Recorded /\ PatchesInOrder /\ LeftKnown /\ UndoneIsClean
          /\ ~CallReturnedUnsaved /\ ~RetryLosesCommit /\ ~PauseUnsaved /\ ~CrashAndResume
      BY <2>1, FaultsStay DEF RecordInv, PatchInv, LeftInv
    <3> QED
      BY <2>1, <3>1, StepKnows, StepCleans
  <2>2. CASE UNCHANGED vars
    <3>1. UNCHANGED <<row, kept, call, left, pc, rb, crashes, losses>>
      BY <2>2 DEF vars, gatewayVars, taskVars
    <3>2. LeftKnown /\ UndoneIsClean
      BY <3>1 DEF LeftInv, NoFault
    <3> QED
      BY <3>1, <3>2
         DEF LeftKnown, PatchFails, Explains, IsPatch, IsRefused, UndoneIsClean, Undoable
  <2> QED
    BY <2>1, <2>2
<1> QED
  BY <1>1, <1>2, AllTypesHold, LeftTypeHolds, RecordHolds, PatchesHold, PatchCallHolds, PTL

\* A rollback that worked alone, without deaths and lost commits, and whose steps succeeded, leaves
\* the HEAD of the repository.  If it undid a patch no edit of a tracked file is left; with no patch
\* to undo nothing is left, unless one was refused.  Whatever failed, it leaves nothing an operator
\* could still grant.
THEOREM RollbackCorrect == Spec => []RollbackRestores
<1>1. RecordInv /\ Undisturbed /\ PatchInv /\ LeftInv => RollbackRestores
  <2> SUFFICES ASSUME RecordInv, Undisturbed, PatchInv, LeftInv, rb.phase = "done", rb.quiet
               PROVE /\ pc = "idle" /\ \A a \in Approvals : gate[a] # "pending"
                     /\ rb.ok /\ crashes = 0 /\ losses = 0 =>
                            /\ tree = <<>>
                            /\ Undoable # {} => left \subseteq {"files"}
                            /\ Undoable = {} /\ ~PatchRefused => left = {}
    BY DEF RollbackRestores
  <2>1. pc = "idle" /\ \A a \in Approvals : gate[a] # "pending"
    BY DEF Undisturbed, NonePending
  <2>2. ASSUME rb.ok, NoFault
        PROVE /\ tree = <<>>
              /\ Undoable # {} => left \subseteq {"files"}
              /\ Undoable = {} /\ ~PatchRefused => left = {}
    <3>1. tree = <<>> /\ kept = row
      BY <2>1, <2>2 DEF PatchInv, Undoing, RecordInv, Recorded, Committed
    <3>2. rb.todo = {} /\ (Undoable # {} => left \subseteq {"files"})
      BY <2>2 DEF LeftInv, UndoneIsClean
    <3>3. left # {} => \E i \in Rows : Explains(i)
      BY <2>1, <2>2 DEF LeftInv, LeftKnown, PatchFails
    <3>4. \A i \in Rows : Explains(i) => i \in Undoable \/ PatchRefused
      BY <3>1 DEF Explains, IsPatch, IsRefused, Undoable, PatchRefused
    <3> QED
      BY <3>1, <3>2, <3>3, <3>4
  <2> QED
    BY <2>1, <2>2 DEF NoFault
<1> QED
  BY <1>1, RecordHolds, PatchesHold, LeftHolds, PTL DEF Spec

-----------------------------------------------------------------------------
(* What a grant pays for.  A pass under an approval is the only one there will be: it begins with *)
(* nothing done in its name, and at each place of the plan a tool has acted at most once per      *)
(* attempt and place behind.                                                                      *)

Paid(a, t) == {k \in DOMAIN effects : effects[k].tool = t /\ effects[k].appr = a}
PaidNext(a, t) == {k \in DOMAIN effects' : effects'[k].tool = t /\ effects'[k].appr = a}

Places(t, p) == {k \in DOMAIN plan.tools : k < p /\ plan.tools[k] = t}
Allowed(t, p) == Cardinality(Places(t, p)) * Attempts(t)

\* Attempts that may have acted.
Tries(c) == IF c.phase \in {"lookup", "post"} THEN c.attempt - 1 ELSE c.attempt

CallCounted ==
    pc = "calling" =>
        /\ call.phase # "none" /\ call.attempt \in 1..Attempts(call.tool)
        /\ call.phase # "gated" => call.appr = appr
        /\ plan.scenario = "develop" => pos \notin done

GrantCounted ==
    \A a \in Approvals, t \in Tools : appr = a =>
        /\ pc = "begin" => Cardinality(Paid(a, t)) = 0
        /\ pc = "step" => Cardinality(Paid(a, t)) <= Allowed(t, pos)
        /\ pc = "calling" =>
              Cardinality(Paid(a, t)) <= Allowed(t, pos)
                                         + (IF t = call.tool THEN Tries(call) ELSE 0)

PaidFor == \A a \in Approvals, t \in Tools : Cardinality(Paid(a, t)) <= Occurs(t) * Attempts(t)

PatchesOf(d) == {k \in d \cap DOMAIN plan.tools : plan.tools[k] = Patch}
DonePatches == PatchesOf(done)
PatchReturned == pc = "calling" /\ call.tool = Patch /\ call.phase = "returned"

PatchesRemembered ==
    crashes = 0 =>
        Cardinality(Made(Patch)) <= Cardinality(DonePatches) + (IF PatchReturned THEN 1 ELSE 0)

Counted == CallCounted /\ GrantCounted /\ PaidFor
CountInv == Counted /\ PatchesRemembered

\* Effects are finitely many.
LEMMA EffectSets ==
    ASSUME Typed, NEW S, S \subseteq DOMAIN effects
    PROVE IsFiniteSet(S) /\ Cardinality(S) \in Nat
<1>1. DOMAIN effects = 1..Len(effects) /\ Len(effects) \in Nat
  BY DEF Typed
<1>2. IsFiniteSet(DOMAIN effects)
  BY <1>1, FS_Interval
<1>3. IsFiniteSet(S)
  BY <1>2, FS_Subset
<1> QED
  BY <1>3, FS_CardinalityType

\* An effect of the call counts for its tool and its approval.
LEMMA PaidGrows ==
    ASSUME Typed
    PROVE /\ UNCHANGED effects => \A a, t : PaidNext(a, t) = Paid(a, t)
          /\ \A a, t : IsFiniteSet(Paid(a, t)) /\ Cardinality(Paid(a, t)) \in Nat
          /\ effects' = Append(effects, ItsEffect) =>
                \A a, t : Cardinality(PaidNext(a, t)) =
                             IF a = call.appr /\ t = call.tool THEN Cardinality(Paid(a, t)) + 1
                             ELSE Cardinality(Paid(a, t))
<1>1. UNCHANGED effects => \A a, t : PaidNext(a, t) = Paid(a, t)
  BY DEF PaidNext, Paid
<1>2. \A a, t : IsFiniteSet(Paid(a, t)) /\ Cardinality(Paid(a, t)) \in Nat
  BY EffectSets DEF Paid
<1>3. ASSUME effects' = Append(effects, ItsEffect), NEW a, NEW t
      PROVE Cardinality(PaidNext(a, t)) =
               IF a = call.appr /\ t = call.tool THEN Cardinality(Paid(a, t)) + 1
               ELSE Cardinality(Paid(a, t))
  <2> DEFINE n == Len(effects) + 1
  <2>1. /\ DOMAIN effects' = DOMAIN effects \cup {n} /\ n \notin DOMAIN effects
        /\ \A k \in DOMAIN effects : effects'[k] = effects[k]
        /\ effects'[n].tool = call.tool /\ effects'[n].appr = call.appr
    BY <1>3, AppendedEffect
  <2> HIDE DEF n
  <2>2. CASE a = call.appr /\ t = call.tool
    <3>1. PaidNext(a, t) = Paid(a, t) \cup {n} /\ n \notin Paid(a, t)
      BY <2>1, <2>2 DEF PaidNext, Paid
    <3> QED
      BY <2>2, <3>1, <1>2, FS_AddElement
  <2>3. CASE ~(a = call.appr /\ t = call.tool)
    <3>1. PaidNext(a, t) = Paid(a, t)
      BY <2>1, <2>3 DEF PaidNext, Paid
    <3> QED
      BY <2>3, <3>1
  <2> QED
    BY <2>2, <2>3
<1> QED
  BY <1>1, <1>2, <1>3

LEMMA Times ==
    ASSUME NEW n \in Nat, NEW m \in Nat, NEW k \in Nat, n <= m
    PROVE n * k <= m * k /\ n * k \in Nat /\ (n + 1) * k = n * k + k
OBVIOUS

\* What the places of a plan allow.
LEMMA AllowedFacts ==
    ASSUME Typed, NEW t \in Tools
    PROVE /\ Attempts(t) \in Nat \ {0}
          /\ Allowed(t, pos) \in Nat /\ Allowed(t, 1) = 0
          /\ pos \in DOMAIN plan.tools =>
                Allowed(t, pos + 1) = IF plan.tools[pos] = t THEN Allowed(t, pos) + Attempts(t)
                                      ELSE Allowed(t, pos)
          /\ Allowed(t, pos) <= Occurs(t) * Attempts(t)
          /\ Allowed(t, pos + 1) <= Occurs(t) * Attempts(t)
          /\ Occurs(t) \in Nat
<1> DEFINE O == {k \in DOMAIN plan.tools : plan.tools[k] = t}
<1>1. plan.tools \in Seq(Tools) /\ Len(plan.tools) \in Nat /\ DOMAIN plan.tools = 1..Len(plan.tools)
      /\ pos \in Nat \ {0}
  BY EffectsAssumption DEF Typed
<1>2. IsFiniteSet(DOMAIN plan.tools)
  BY <1>1, FS_Interval
<1>3. \A p : Places(t, p) \subseteq O /\ O \subseteq DOMAIN plan.tools
  BY DEF Places
<1>4. IsFiniteSet(O) /\ Cardinality(O) \in Nat
  BY <1>2, <1>3, FS_Subset, FS_CardinalityType
<1>5. \A p : /\ IsFiniteSet(Places(t, p)) /\ Cardinality(Places(t, p)) \in Nat
             /\ Cardinality(Places(t, p)) <= Cardinality(O)
  BY <1>3, <1>4, FS_Subset, FS_CardinalityType
<1>6. Attempts(t) \in Nat \ {0}
  BY GatewayAssumption DEF Attempts
<1>7. Occurs(t) = Cardinality(O)
  BY DEF Occurs
<1>8. \A p : Allowed(t, p) \in Nat /\ Allowed(t, p) <= Occurs(t) * Attempts(t)
  BY <1>4, <1>5, <1>6, <1>7, Times DEF Allowed
<1>9. Allowed(t, 1) = 0
  <2>1. Places(t, 1) = {}
    BY <1>1 DEF Places
  <2> QED
    BY <2>1, <1>6, FS_EmptySet DEF Allowed
<1>10. ASSUME pos \in DOMAIN plan.tools
       PROVE Allowed(t, pos + 1) = IF plan.tools[pos] = t THEN Allowed(t, pos) + Attempts(t)
                                   ELSE Allowed(t, pos)
  <2>1. CASE plan.tools[pos] = t
    <3>1. Places(t, pos + 1) = Places(t, pos) \cup {pos} /\ pos \notin Places(t, pos)
      BY <2>1, <1>1, <1>10 DEF Places
    <3>2. Cardinality(Places(t, pos + 1)) = Cardinality(Places(t, pos)) + 1
      BY <3>1, <1>5, FS_AddElement
    <3> DEFINE n == Cardinality(Places(t, pos))
    <3>3. n \in Nat
      BY <1>5
    <3>4. Allowed(t, pos) = n * Attempts(t) /\ Allowed(t, pos + 1) = (n + 1) * Attempts(t)
      BY <3>2 DEF Allowed
    <3> HIDE DEF n
    <3>5. n <= n
      BY <3>3
    <3>6. (n + 1) * Attempts(t) = n * Attempts(t) + Attempts(t)
      BY <3>3, <3>5, <1>6, Times
    <3> QED
      BY <2>1, <3>4, <3>6
  <2>2. CASE plan.tools[pos] # t
    <3>1. Places(t, pos + 1) = Places(t, pos)
      BY <2>2, <1>1 DEF Places
    <3> QED
      BY <2>2, <3>1 DEF Allowed
  <2> QED
    BY <2>1, <2>2
<1> QED
  BY <1>4, <1>6, <1>7, <1>8, <1>9, <1>10

\* Primes of what a step leaves alone.
LEMMA CountNext ==
    ASSUME UNCHANGED plan
    PROVE /\ \A t : Occurs(t)' = Occurs(t)
          /\ \A t, p : Allowed(t, p)' = Allowed(t, p)
          /\ \A a, t : Paid(a, t)' = PaidNext(a, t)
          /\ \A t : Attempts(t)' = Attempts(t)
BY DEF Occurs, Allowed, Places, Paid, PaidNext, Attempts

\* A step of the gateway that acts uses an attempt up, and no attempt is one too many.
CallTries ==
    /\ call' \in Call /\ call'.tool = call.tool /\ call'.appr = call.appr
    /\ call.phase \notin {"none", "gated"} /\ call'.phase \notin {"none", "gated"}
    /\ call'.attempt \in 1..Attempts(call.tool)
    /\ Tries(call') \in Nat /\ Tries(call') <= Attempts(call.tool)
    /\ \/ effects' = effects /\ Tries(call) <= Tries(call')
       \/ effects' = Append(effects, ItsEffect) /\ Tries(call) + 1 <= Tries(call')

LEMMA GatewayTries ==
    ASSUME Typed, call.attempt \in 1..Attempts(call.tool), GatewayStep \/ RetryUnsaved
    PROVE CallTries
<1>t. call \in Call /\ call.tool \in Tools
  BY DEF Typed, Call
<1>a. Attempts(call.tool) \in Nat \ {0}
  BY <1>t, AllowedFacts
<1>e. ItsEffect = [tool |-> call.tool, row |-> call.row, appr |-> call.appr]
  BY DEF ItsEffect
<1>1. CASE Passes
  BY <1>1, <1>a DEF Passes, SameCall, CallTries, Tries
<1>2. CASE Succeeds
  BY <1>2, <1>a, <1>e DEF Succeeds, SameCall, CallTries, Tries, CarriedOut
<1>3. CASE GivesUp
  BY <1>3, <1>a DEF GivesUp, SameCall, CallTries, Tries
<1>4. CASE Retries
  BY <1>4, <1>a DEF Retries, TriesAgain, SameCall, CallTries, Tries
<1>5. CASE RetryUnsaved
  <2>1. /\ call.phase = "failed" /\ call.attempt < Attempts(call.tool) /\ effects' = effects
        /\ call' \in {NextAttempt, [NextAttempt EXCEPT !.row = 0]}
    BY <1>5 DEF RetryUnsaved, Again
  <2>2. /\ call' \in Call /\ call'.tool = call.tool /\ call'.appr = call.appr
        /\ call'.phase \in {"lookup", "post"} /\ call'.attempt = call.attempt + 1
    BY <2>1, <1>t, NextAttemptType, NextAttemptMoves
  <2> QED
    BY <2>1, <2>2, <1>a DEF CallTries, Tries
<1> QED
  BY <1>1, <1>2, <1>3, <1>4, <1>5, GatewayKinds

LEMMA GatewayCounts ==
    ASSUME Typed, Counted, Carried, pc = "calling", GatewayStep \/ RetryUnsaved,
           UNCHANGED <<plan, pc, pos, appr, done>>
    PROVE Counted'
<1>1. CallTries
  BY GatewayTries DEF Counted, CallCounted
<1>2. pos \in DOMAIN plan.tools /\ call.tool = plan.tools[pos] /\ call.tool \in Tools
  BY DEF Carried, CallIsOfPlan, Calls, Typed, Call
<1>3. call.appr = appr
  BY <1>1 DEF Counted, CallCounted, CallTries
<1>4. CallCounted'
  BY <1>1, <1>3 DEF Counted, CallCounted, CallTries, Attempts
<1>5. ASSUME NEW a \in Approvals, NEW t \in Tools
      PROVE /\ appr = a => Cardinality(PaidNext(a, t)) <=
                              Allowed(t, pos) + (IF t = call.tool THEN Tries(call') ELSE 0)
            /\ Cardinality(PaidNext(a, t)) <= Occurs(t) * Attempts(t)
  <2> DEFINE n == Cardinality(Paid(a, t))
             m == Cardinality(PaidNext(a, t))
             l == Allowed(t, pos)
             h == Occurs(t) * Attempts(t)
             x == Tries(call)
             y == Tries(call')
             e == Attempts(t)
  <2>1. n \in Nat /\ l \in Nat /\ y \in Nat /\ e \in Nat
    BY <1>1, PaidGrows, AllowedFacts DEF CallTries
  <2>2. \/ m = n /\ x <= y
        \/ m = (IF a = appr /\ t = call.tool THEN n + 1 ELSE n) /\ x + 1 <= y
    BY <1>1, <1>3, PaidGrows DEF CallTries
  <2>3. n <= h /\ (appr = a => n <= l + (IF t = call.tool THEN x ELSE 0))
    BY DEF Counted, PaidFor, GrantCounted
  <2>4. t = call.tool => y <= e /\ l + e <= h
    BY <1>1, <1>2, AllowedFacts DEF CallTries
  <2>5. x \in Int /\ h \in Nat
    <3>1. call.attempt \in Int
      BY DEF Typed, Call
    <3>2. Occurs(t) \in Nat /\ Attempts(t) \in Nat
      BY AllowedFacts
    <3> QED
      BY <3>1, <3>2, Times DEF Tries
  <2> HIDE DEF n, m, l, h, x, y, e
  <2>6. appr = a => m <= l + (IF t = call.tool THEN y ELSE 0)
    BY <2>1, <2>2, <2>3, <2>5
  <2>7. m <= h
    BY <2>1, <2>2, <2>3, <2>4, <2>5, <2>6
  <2> QED
    BY <2>6, <2>7 DEF m, l, h, y
<1>6. GrantCounted'
  BY <1>1, <1>5, CountNext DEF GrantCounted, CallTries
<1>7. PaidFor'
  BY <1>5, CountNext DEF PaidFor
<1> QED
  BY <1>4, <1>6, <1>7 DEF Counted

-----------------------------------------------------------------------------
(* How the pass and the others count. *)

\* A step that ends or begins no call and does nothing outside leaves the counts alone.
LEMMA IdleCounts ==
    ASSUME Counted, UNCHANGED <<effects, plan>>, pc' = "idle"
    PROVE Counted'
<1>1. \A a, t : Paid(a, t)' = Paid(a, t)
  BY DEF Paid
<1>2. \A t : Occurs(t)' = Occurs(t) /\ Attempts(t)' = Attempts(t)
  BY CountNext
<1>3. PaidFor'
  BY <1>1, <1>2 DEF Counted, PaidFor
<1> QED
  BY <1>3 DEF Counted, CallCounted, GrantCounted

LEMMA UnmovedCounts ==
    ASSUME Counted, UNCHANGED <<effects, plan, pc, pos, call, appr, done>>
    PROVE Counted'
<1>1. \A a, t : Paid(a, t)' = Paid(a, t)
  BY DEF Paid
<1>2. \A t : Occurs(t)' = Occurs(t) /\ Attempts(t)' = Attempts(t)
  BY CountNext
<1>3. \A t : Allowed(t, pos)' = Allowed(t, pos)
  BY CountNext
<1>4. PaidFor'
  BY <1>1, <1>2 DEF Counted, PaidFor
<1>5. CallCounted'
  BY <1>2 DEF Counted, CallCounted
<1>6. GrantCounted'
  BY <1>1, <1>3 DEF Counted, GrantCounted, Tries
<1> QED
  BY <1>4, <1>5, <1>6 DEF Counted

\* When the pass is at its next place, each tool acted within what the places behind it allow.
LEMMA PlaceCounts ==
    ASSUME Typed, Counted, UNCHANGED <<effects, plan, appr>>, pc' = "step", pos' = pos + 1,
           \A a \in Approvals, t \in Tools :
               appr = a => Cardinality(Paid(a, t)) <= Allowed(t, pos + 1)
    PROVE Counted'
<1>1. \A a, t : Paid(a, t)' = Paid(a, t)
  BY DEF Paid
<1>2. \A t : Occurs(t)' = Occurs(t) /\ Attempts(t)' = Attempts(t)
  BY CountNext
<1>3. \A t : Allowed(t, pos)' = Allowed(t, pos + 1)
  BY DEF Allowed, Places, Attempts
<1>4. PaidFor'
  BY <1>1, <1>2 DEF Counted, PaidFor
<1>5. GrantCounted'
  BY <1>1, <1>3 DEF GrantCounted
<1> QED
  BY <1>4, <1>5 DEF Counted, CallCounted

\* A call that is over used at most the attempts of its place.
LEMMA EndedCall ==
    ASSUME Typed, Carried, Counted, pc = "calling", NEW a \in Approvals, NEW t \in Tools, appr = a
    PROVE Cardinality(Paid(a, t)) <= Allowed(t, pos + 1)
<1> DEFINE n == Cardinality(Paid(a, t))
           l == Allowed(t, pos)
           e == Attempts(t)
           x == Tries(call)
<1>1. n \in Nat /\ l \in Nat /\ e \in Nat
  BY PaidGrows, AllowedFacts
<1>2. n <= l + (IF t = call.tool THEN x ELSE 0)
  BY DEF Counted, GrantCounted
<1>3. t = call.tool => x \in Int /\ x <= e
  <2>1. call.attempt \in 1..Attempts(call.tool)
    BY DEF Counted, CallCounted
  <2>2. t = call.tool => call.attempt \in 1..e
    BY <2>1
  <2> HIDE DEF e
  <2> QED
    BY <2>2, <1>1 DEF Tries
<1>4. pos \in DOMAIN plan.tools /\ call.tool = plan.tools[pos]
  BY DEF Carried, CallIsOfPlan, Calls
<1>5. Allowed(t, pos + 1) = IF t = call.tool THEN l + e ELSE l
  BY <1>4, AllowedFacts
<1> HIDE DEF n, l, e, x
<1>6. n <= IF t = call.tool THEN l + e ELSE l
  BY <1>1, <1>2, <1>3
<1> QED
  BY <1>5, <1>6 DEF n

\* A call starts with its first attempt.
LEMMA FirstAttempt ==
    ASSUME NEW t \in Tools, NEW a \in Approvals \cup {None}, OpenCall(t, a)
    PROVE call'.attempt = 1
<1>1. FirstPhase(t) \in Phases /\ "gated" \in Phases
  BY DEF FirstPhase, Phases
<1>2. CASE Resumes(t, a)
  BY <1>1, <1>2, OpenedRow DEF Resumes
<1>3. CASE Starts(t, a)
  BY <1>1, <1>3, OpenedRow DEF Starts
<1>4. CASE Asks(t)
  BY <1>1, <1>4, OpenedRow DEF Asks
<1> QED
  BY <1>2, <1>3, <1>4, OpenKinds

LEMMA StartCounts ==
    ASSUME Typed, Counted, StartCall
    PROVE Counted'
<1>1. plan.tools[pos] \in Tools /\ appr \in Approvals \cup {None}
  BY PlanFacts DEF StartCall, More, Typed
<1>2. /\ OpenCall(plan.tools[pos], appr) /\ pc = "step" /\ pc' = "calling"
      /\ plan.scenario = "develop" => pos \notin done
      /\ UNCHANGED <<plan, pos, appr, done>>
  BY DEF StartCall, Remembered
<1>3. CallIsOpened(plan.tools[pos], appr) /\ call'.attempt = 1
  BY <1>1, <1>2, OpensCall, FirstAttempt
<1>4. /\ call'.phase \in {"lookup", "post", "gated"} /\ call'.tool \in Tools
      /\ call'.phase # "gated" => call'.appr = appr
      /\ UNCHANGED effects
  BY <1>1, <1>3 DEF CallIsOpened
<1>5. Attempts(call'.tool) \in Nat \ {0}
  BY <1>4, AllowedFacts
<1>6. CallCounted'
  BY <1>2, <1>3, <1>4, <1>5 DEF CallCounted, Attempts
<1>7. Tries(call)' \in {0, 1}
  BY <1>3 DEF Tries
<1>8. \A a, t : Paid(a, t)' = Paid(a, t)
  BY <1>4 DEF Paid
<1>9. \A t : /\ Occurs(t)' = Occurs(t) /\ Attempts(t)' = Attempts(t)
            /\ Allowed(t, pos)' = Allowed(t, pos)
  BY <1>2, CountNext
<1>10. PaidFor'
  BY <1>8, <1>9 DEF Counted, PaidFor
<1>11. GrantCounted'
  <2> SUFFICES ASSUME NEW a \in Approvals, NEW t \in Tools, appr = a
               PROVE Cardinality(Paid(a, t)) <=
                        Allowed(t, pos) + (IF t = call'.tool THEN Tries(call)' ELSE 0)
    BY <1>2, <1>8, <1>9 DEF GrantCounted
  <2>1. Cardinality(Paid(a, t)) <= Allowed(t, pos)
    BY <1>2 DEF Counted, GrantCounted
  <2>2. Cardinality(Paid(a, t)) \in Nat /\ Allowed(t, pos) \in Nat
    BY PaidGrows, AllowedFacts
  <2> QED
    BY <1>7, <2>1, <2>2
<1> QED
  BY <1>6, <1>10, <1>11 DEF Counted

\* A grant starts a pass in whose name nothing was done yet.
LEMMA GrantCounts ==
    ASSUME Typed, Granted, Counted, NEW a \in Approvals, Grant(a)
    PROVE Counted'
<1>1. gate[a] = "pending" /\ pc' = "begin" /\ appr' = a /\ UNCHANGED <<effects, plan>>
  BY DEF Grant
<1>2. \A t : Paid(a, t) = {}
  <2>1. ~InForce(a)
    BY <1>1, GatewayAssumption DEF InForce, Grants
  <2>2. \A k \in DOMAIN effects : effects[k].appr # a
    BY <2>1 DEF Granted, EffectsPermitted
  <2> QED
    BY <2>2 DEF Paid
<1>3. \A b, t : Paid(b, t)' = Paid(b, t)
  BY <1>1 DEF Paid
<1>4. PaidFor'
  BY <1>1, <1>3, CountNext DEF Counted, PaidFor
<1>5. GrantCounted'
  BY <1>1, <1>2, <1>3, FS_EmptySet DEF GrantCounted
<1> QED
  BY <1>1, <1>4, <1>5 DEF Counted, CallCounted

LEMMA BeginCounts ==
    ASSUME Typed, Counted, Begin
    PROVE Counted'
<1>1. pc = "begin" /\ pc' = "step" /\ pos' = 1 /\ UNCHANGED <<effects, plan, appr>>
  BY DEF Begin
<1>2. \A a, t : Paid(a, t)' = Paid(a, t)
  BY <1>1 DEF Paid
<1>3. \A t : Allowed(t, pos)' = Allowed(t, 1)
  BY <1>1 DEF Allowed, Places, Attempts
<1>4. PaidFor'
  BY <1>1, <1>2, CountNext DEF Counted, PaidFor
<1>5. ASSUME NEW a \in Approvals, NEW t \in Tools, appr = a
      PROVE Cardinality(Paid(a, t)) <= Allowed(t, 1)
  <2>1. Cardinality(Paid(a, t)) = 0 /\ Allowed(t, 1) = 0
    BY <1>1, <1>5, AllowedFacts DEF Counted, GrantCounted
  <2> QED
    BY <2>1
<1>6. GrantCounted'
  BY <1>1, <1>2, <1>3, <1>5 DEF GrantCounted
<1> QED
  BY <1>1, <1>4, <1>6 DEF Counted, CallCounted

\* A pass that a crash begins again runs under no approval.
LEMMA CrashCounts ==
    ASSUME Typed, Counted, CrashAndResume
    PROVE Counted'
<1>1. /\ UNCHANGED <<effects, plan>>
      /\ pc' = "idle" \/ (pc' = "begin" /\ appr' = None)
  BY DEF CrashAndResume
<1>2. CASE pc' = "begin" /\ appr' = None
  <2>1. \A b, t : Paid(b, t)' = Paid(b, t)
    BY <1>1 DEF Paid
  <2>2. PaidFor'
    BY <1>1, <2>1, CountNext DEF Counted, PaidFor
  <2> QED
    BY <1>2, <2>2, GatewayAssumption DEF Counted, CallCounted, GrantCounted
<1> QED
  BY <1>1, <1>2, IdleCounts

LEMMA StepCounts ==
    ASSUME AllTyped, Granted, Carried, Counted, [Next]_vars
    PROVE Counted'
<1> USE DEF AllTyped
<1>1. CASE Begin
  BY <1>1, BeginCounts
<1>2. CASE SkipDone
  <2>1. /\ pc = "step" /\ pc' = "step" /\ pos' = pos + 1 /\ pos <= Len(plan.tools)
        /\ UNCHANGED <<effects, plan, appr>>
    BY <1>2 DEF SkipDone, More, gatewayVars
  <2>2. pos \in DOMAIN plan.tools
    BY <2>1, EffectsAssumption DEF Typed
  <2>3. ASSUME NEW a \in Approvals, NEW t \in Tools, appr = a
        PROVE Cardinality(Paid(a, t)) <= Allowed(t, pos + 1)
    <3> DEFINE n == Cardinality(Paid(a, t))
               l == Allowed(t, pos)
               e == Attempts(t)
    <3>1. n \in Nat /\ l \in Nat /\ e \in Nat
      BY PaidGrows, AllowedFacts
    <3>2. n <= l
      BY <2>1, <2>3 DEF Counted, GrantCounted
    <3>3. Allowed(t, pos + 1) \in {l, l + e}
      BY <2>2, AllowedFacts
    <3> HIDE DEF n, l, e
    <3>4. n <= l + e
      BY <3>1, <3>2
    <3> QED
      BY <3>2, <3>3, <3>4 DEF n
  <2> QED
    BY <2>1, <2>3, PlaceCounts
<1>3. CASE StartCall
  BY <1>3, StartCounts
<1>4. CASE InCall \/ RetryLosesCommit
  BY <1>4, GatewayCounts DEF InCall, RetryLosesCommit, taskVars
<1>5. CASE CallReturned \/ CallReturnedUnsaved
  <2>1. pc = "calling" /\ pc' = "step" /\ pos' = pos + 1 /\ UNCHANGED <<effects, plan, appr>>
    BY <1>5 DEF CallReturned, CallReturnedUnsaved, Advance
  <2> QED
    BY <2>1, EndedCall, PlaceCounts
<1>6. CASE CallRaised
  <2>1. /\ pc = "calling" /\ UNCHANGED <<effects, plan, appr>>
        /\ pc' = "idle" \/ (pc' = "step" /\ pos' = pos + 1)
    BY <1>6 DEF CallRaised
  <2> QED
    BY <2>1, EndedCall, PlaceCounts, IdleCounts
<1>7. CASE Pause \/ PauseUnsaved \/ (\E s \in Statuses : Finish(s))
  BY <1>7, IdleCounts DEF Pause, PauseUnsaved, Finish
<1>8. CASE \E a \in Approvals : Grant(a)
  BY <1>8, GrantCounts
<1>9. CASE (\E a \in Approvals : Reject(a)) \/ FailStale
  BY <1>9, UnmovedCounts DEF Reject, FailStale, gatewayVars
<1>10. CASE CrashAndResume
  BY <1>10, CrashCounts
<1>11. CASE BeginRollback \/ (\E ok \in BOOLEAN : Inverted(ok)) \/ EndRollback
  BY <1>11, UnmovedCounts DEF BeginRollback, Inverted, EndRollback, gatewayVars, taskVars
<1>12. CASE UNCHANGED vars
  BY <1>12, UnmovedCounts DEF vars, gatewayVars, taskVars
<1> QED
  BY <1>1, <1>2, <1>3, <1>4, <1>5, <1>6, <1>7, <1>8, <1>9, <1>10, <1>11, <1>12
     DEF Next, PipelineStep

-----------------------------------------------------------------------------
(* Without a crash, each patch that was applied has a place pipeline_state remembers, but for the *)
(* one whose call returned just now.                                                              *)

MadeNext(t) == {k \in DOMAIN effects' : effects'[k].tool = t}

LEMMA MadeGrows ==
    ASSUME Typed
    PROVE /\ UNCHANGED effects => \A t : MadeNext(t) = Made(t)
          /\ \A t : IsFiniteSet(Made(t)) /\ Cardinality(Made(t)) \in Nat
          /\ effects' = Append(effects, ItsEffect) =>
                \A t : Cardinality(MadeNext(t)) =
                          IF t = call.tool THEN Cardinality(Made(t)) + 1 ELSE Cardinality(Made(t))
<1>1. UNCHANGED effects => \A t : MadeNext(t) = Made(t)
  BY DEF MadeNext, Made
<1>2. \A t : IsFiniteSet(Made(t)) /\ Cardinality(Made(t)) \in Nat
  BY EffectSets DEF Made
<1>3. ASSUME effects' = Append(effects, ItsEffect), NEW t
      PROVE Cardinality(MadeNext(t)) =
               IF t = call.tool THEN Cardinality(Made(t)) + 1 ELSE Cardinality(Made(t))
  <2> DEFINE n == Len(effects) + 1
  <2>1. /\ DOMAIN effects' = DOMAIN effects \cup {n} /\ n \notin DOMAIN effects
        /\ \A k \in DOMAIN effects : effects'[k] = effects[k]
        /\ effects'[n].tool = call.tool
    BY <1>3, AppendedEffect
  <2> HIDE DEF n
  <2>2. CASE t = call.tool
    <3>1. MadeNext(t) = Made(t) \cup {n} /\ n \notin Made(t)
      BY <2>1, <2>2 DEF MadeNext, Made
    <3> QED
      BY <2>2, <3>1, <1>2, FS_AddElement
  <2>3. CASE t # call.tool
    <3>1. MadeNext(t) = Made(t)
      BY <2>1, <2>3 DEF MadeNext, Made
    <3> QED
      BY <2>3, <3>1
  <2> QED
    BY <2>2, <2>3
<1> QED
  BY <1>1, <1>2, <1>3

PatchPlaces == {k \in DOMAIN plan.tools : plan.tools[k] = Patch}

LEMMA PatchSets ==
    ASSUME Typed
    PROVE /\ IsFiniteSet(PatchPlaces) /\ Cardinality(PatchPlaces) = Occurs(Patch)
          /\ \A d : /\ PatchesOf(d) \subseteq PatchPlaces /\ IsFiniteSet(PatchesOf(d))
                    /\ Cardinality(PatchesOf(d)) \in Nat
<1>1. plan.tools \in Seq(Tools) /\ Len(plan.tools) \in Nat /\ DOMAIN plan.tools = 1..Len(plan.tools)
  BY EffectsAssumption DEF Typed
<1>2. IsFiniteSet(DOMAIN plan.tools)
  BY <1>1, FS_Interval
<1>3. IsFiniteSet(PatchPlaces)
  BY <1>2, FS_Subset DEF PatchPlaces
<1>4. \A d : PatchesOf(d) \subseteq PatchPlaces
  BY DEF PatchesOf, PatchPlaces
<1>5. Cardinality(PatchPlaces) = Occurs(Patch)
  BY DEF PatchPlaces, Occurs
<1> QED
  BY <1>3, <1>4, <1>5, FS_Subset, FS_CardinalityType

LEMMA PatchesStay ==
    ASSUME Typed, PatchesRemembered, UNCHANGED <<effects, plan, done>>,
           crashes' = 0 => crashes = 0, PatchReturned => PatchReturned'
    PROVE PatchesRemembered'
<1> DEFINE m == Cardinality(Made(Patch))
           d == Cardinality(DonePatches)
<1>1. m \in Nat /\ d \in Nat
  BY MadeGrows, PatchSets DEF DonePatches
<1>2. Made(Patch)' = Made(Patch) /\ DonePatches' = DonePatches
  BY DEF Made, DonePatches, PatchesOf
<1>3. crashes' = 0 => m <= d + (IF PatchReturned THEN 1 ELSE 0)
  BY DEF PatchesRemembered
<1> HIDE DEF m, d
<1>4. crashes' = 0 => m <= d + (IF PatchReturned' THEN 1 ELSE 0)
  BY <1>1, <1>3
<1> QED
  BY <1>2, <1>4 DEF PatchesRemembered, m, d

LEMMA GatewayRemembers ==
    ASSUME Typed, PatchesRemembered, pc = "calling", GatewayStep \/ RetryUnsaved,
           UNCHANGED <<plan, pc, done, crashes>>
    PROVE PatchesRemembered'
<1> DEFINE m == Cardinality(Made(Patch))
           l == Cardinality(MadeNext(Patch))
           d == Cardinality(DonePatches)
<1>1. m \in Nat /\ d \in Nat
  BY MadeGrows, PatchSets DEF DonePatches
<1>2. Made(Patch)' = MadeNext(Patch) /\ DonePatches' = DonePatches
  BY DEF Made, MadeNext, DonePatches, PatchesOf
<1>3. call.phase # "returned" /\ (l = m \/ (l = m + 1 /\ PatchReturned'))
  <2>1. CASE Passes
    <3>1. effects' = effects \/ (effects' = Append(effects, ItsEffect) /\ call.tool # Patch)
      BY <2>1 DEF Passes
    <3>2. call.phase # "returned"
      BY <2>1 DEF Passes
    <3> QED
      BY <3>1, <3>2, MadeGrows
  <2>2. CASE Succeeds
    <3>1. call.phase # "returned" /\ call'.phase = "returned" /\ call'.tool = call.tool
      BY <2>2 DEF Succeeds, SameCall
    <3>2. effects' = effects \/ effects' = Append(effects, ItsEffect)
      BY <2>2 DEF Succeeds, CarriedOut, ItsEffect
    <3> QED
      BY <3>1, <3>2, MadeGrows DEF PatchReturned
  <2>3. CASE GivesUp
    BY <2>3, MadeGrows DEF GivesUp
  <2>4. CASE Retries
    BY <2>4, MadeGrows DEF Retries, TriesAgain
  <2>5. CASE RetryUnsaved
    BY <2>5, MadeGrows DEF RetryUnsaved
  <2> QED
    BY <2>1, <2>2, <2>3, <2>4, <2>5, GatewayKinds
<1>4. crashes' = 0 => m <= d
  BY <1>1, <1>3 DEF PatchesRemembered, PatchReturned
<1> HIDE DEF m, l, d
<1>5. crashes' = 0 => l <= d + (IF PatchReturned' THEN 1 ELSE 0)
  BY <1>1, <1>3, <1>4
<1> QED
  BY <1>2, <1>5 DEF PatchesRemembered, l, d

\* A patch that returned is remembered at a place that held none: only plans of the develop
\* pipeline apply patches, and these skip what they remember.
LEMMA ReturnRemembers ==
    ASSUME Typed, Carried, Counted, PatchesRemembered, CallReturned \/ CallReturnedUnsaved
    PROVE PatchesRemembered'
<1> DEFINE m == Cardinality(Made(Patch))
           d == Cardinality(DonePatches)
           e == Cardinality(PatchesOf(done'))
<1>1. m \in Nat /\ d \in Nat /\ e \in Nat
  BY MadeGrows, PatchSets DEF DonePatches
<1>2. /\ pc = "calling" /\ call.phase = "returned" /\ pc' = "step"
      /\ UNCHANGED <<effects, plan, crashes>>
      /\ done' = IF plan.scenario = "develop" THEN done \cup {pos} ELSE done
  BY DEF CallReturned, CallReturnedUnsaved, Advance
<1>3. Made(Patch)' = Made(Patch) /\ DonePatches' = PatchesOf(done') /\ ~PatchReturned'
  BY <1>2 DEF Made, DonePatches, PatchesOf, PatchReturned
<1>4. d + (IF PatchReturned THEN 1 ELSE 0) <= e
  <2>1. CASE PatchReturned
    <3>1. pos \in DOMAIN plan.tools /\ plan.tools[pos] = Patch
      BY <2>1 DEF PatchReturned, Carried, CallIsOfPlan, Calls
    <3>2. plan.scenario = "develop"
      BY <3>1, EffectsAssumption DEF Typed
    <3>3. pos \notin done
      BY <1>2, <3>2 DEF Counted, CallCounted
    <3>4. PatchesOf(done') = DonePatches \cup {pos} /\ pos \notin DonePatches
      BY <1>2, <3>1, <3>2, <3>3 DEF PatchesOf, DonePatches
    <3>5. e = d + 1
      BY <3>4, PatchSets, FS_AddElement DEF DonePatches
    <3> HIDE DEF d, e
    <3> QED
      BY <2>1, <3>5, <1>1
  <2>2. CASE ~PatchReturned
    <3>1. DonePatches \subseteq PatchesOf(done')
      BY <1>2 DEF DonePatches, PatchesOf
    <3>2. d <= e
      BY <3>1, PatchSets, FS_Subset
    <3> HIDE DEF d, e
    <3> QED
      BY <2>2, <3>2, <1>1
  <2> QED
    BY <2>1, <2>2
<1>5. crashes' = 0 => m <= d + (IF PatchReturned THEN 1 ELSE 0)
  BY <1>2 DEF PatchesRemembered
<1> HIDE DEF m, d, e
<1>6. crashes' = 0 => m <= e + 0
  BY <1>1, <1>4, <1>5
<1> QED
  BY <1>3, <1>6 DEF PatchesRemembered, m, e

LEMMA StepRemembers ==
    ASSUME AllTyped, Carried, Counted, PatchesRemembered, [Next]_vars
    PROVE PatchesRemembered'
<1> USE DEF AllTyped
<1>1. CASE Begin \/ SkipDone \/ StartCall
  BY <1>1, PatchesStay DEF Begin, SkipDone, StartCall, OpenCall, ResumeCall, NewCall, GatedCall,
     gatewayVars, PatchReturned
<1>2. CASE InCall \/ RetryLosesCommit
  BY <1>2, GatewayRemembers DEF InCall, RetryLosesCommit, taskVars
<1>3. CASE CallReturned \/ CallReturnedUnsaved
  BY <1>3, ReturnRemembers
<1>4. CASE CallRaised \/ Pause \/ PauseUnsaved
  BY <1>4, PatchesStay DEF CallRaised, Pause, PauseUnsaved, PatchReturned
<1>5. CASE \E s \in Statuses : Finish(s)
  BY <1>5, PatchesStay DEF Finish, PatchReturned
<1>6. CASE (\E a \in Approvals : Grant(a) \/ Reject(a)) \/ FailStale
  BY <1>6, PatchesStay DEF Grant, Reject, FailStale, gatewayVars, PatchReturned
<1>7. CASE CrashAndResume
  BY <1>7 DEF CrashAndResume, PatchesRemembered, TaskTyped
<1>8. CASE BeginRollback \/ (\E ok \in BOOLEAN : Inverted(ok)) \/ EndRollback
  BY <1>8, PatchesStay DEF BeginRollback, Inverted, EndRollback, gatewayVars, taskVars,
     PatchReturned
<1>9. CASE UNCHANGED vars
  BY <1>9, PatchesStay DEF vars, gatewayVars, taskVars, PatchReturned
<1> QED
  BY <1>1, <1>2, <1>3, <1>4, <1>5, <1>6, <1>7, <1>8, <1>9 DEF Next, PipelineStep

LEMMA CountsBegin == ASSUME Init PROVE CountInv
<1>1. \A a, t : Paid(a, t) = {} /\ Made(t) = {}
  BY DEF Init, GatewayInit, Paid, Made
<1>2. Typed
  BY GrantsBegin
<1>3. \A a, t : Cardinality(Paid(a, t)) = 0 /\ Cardinality(Made(t)) = 0
  BY <1>1, FS_EmptySet
<1>4. PaidFor
  <2> SUFFICES ASSUME NEW a \in Approvals, NEW t \in Tools PROVE 0 <= Occurs(t) * Attempts(t)
    BY <1>3 DEF PaidFor
  <2>1. Allowed(t, pos) \in Nat /\ Allowed(t, pos) <= Occurs(t) * Attempts(t)
    BY <1>2, AllowedFacts
  <2>2. Occurs(t) * Attempts(t) \in Nat
    <3>1. Occurs(t) \in Nat /\ Attempts(t) \in Nat
      BY <1>2, AllowedFacts
    <3>2. Occurs(t) <= Occurs(t)
      BY <3>1
    <3> QED
      BY <3>1, <3>2, Times
  <2> QED
    BY <2>2
<1>5. PatchesRemembered
  <2>1. Cardinality(DonePatches) \in Nat
    BY <1>2, PatchSets DEF DonePatches
  <2> QED
    BY <1>3, <2>1 DEF PatchesRemembered
<1>6. pc \in {"begin", "idle"}
  BY DEF Init
<1> QED
  BY <1>3, <1>4, <1>5, <1>6 DEF CountInv, Counted, CallCounted, GrantCounted

LEMMA CountsHold == Init /\ [][Next]_vars => [](AllTyped /\ Carried /\ CountInv)
<1>1. Init => Carried /\ CountInv
  BY CountsBegin DEF Init, Carried, PassIsDone, CallIsOfPlan, RememberedIsDone, CompletedIsDone
<1>2. AllTyped /\ Granted /\ Carried /\ CountInv /\ [Next]_vars => (Carried /\ CountInv)'
  BY StepCarries, StepCounts, StepRemembers DEF AllTyped, CountInv
<1> QED
  BY <1>1, <1>2, AllTypesHold, PTL

\* One grant pays for one pass: under an approval no tool acted more often than the places it has
\* in the plan and the attempts of each, and without a crash no patch was applied twice.
THEOREM GrantPaysOnce == Spec => []GrantIsUsedOnce
<1>1. AllTyped /\ Carried /\ CountInv => GrantIsUsedOnce
  <2> SUFFICES ASSUME AllTyped, Carried, CountInv PROVE GrantIsUsedOnce
    OBVIOUS
  <2> USE DEF AllTyped
  <2>1. ASSUME NEW a \in Approvals, NEW t \in Tools
        PROVE Cardinality({k \in Made(t) : effects[k].appr = a}) <= Occurs(t) * Attempts(t)
    <3>1. {k \in Made(t) : effects[k].appr = a} = Paid(a, t)
      BY DEF Made, Paid
    <3> QED
      BY <3>1 DEF CountInv, Counted, PaidFor
  <2>2. ASSUME crashes = 0 PROVE Cardinality(Made(Patch)) <= Occurs(Patch)
    <3> DEFINE m == Cardinality(Made(Patch))
               d == Cardinality(DonePatches)
               o == Occurs(Patch)
    <3>1. m <= d + (IF PatchReturned THEN 1 ELSE 0)
      BY <2>2 DEF CountInv, PatchesRemembered
    <3>2. m \in Nat /\ d \in Nat
      BY MadeGrows, PatchSets DEF DonePatches
    <3>3. IsFiniteSet(PatchPlaces) /\ Cardinality(PatchPlaces) = o
      BY PatchSets
    <3>4. o \in Nat
      BY <3>3, FS_CardinalityType
    <3>5. d <= o
      BY <3>3, PatchSets, FS_Subset DEF DonePatches
    <3>6. PatchReturned => d + 1 <= o
      <4> SUFFICES ASSUME PatchReturned PROVE d + 1 <= o
        OBVIOUS
      <4>1. pos \in DOMAIN plan.tools /\ plan.tools[pos] = Patch
        BY DEF PatchReturned, Carried, CallIsOfPlan, Calls
      <4>2. plan.scenario = "develop"
        BY <4>1, EffectsAssumption DEF Typed
      <4>3. pos \notin done
        BY <4>2 DEF PatchReturned, CountInv, Counted, CallCounted
      <4>4. DonePatches \cup {pos} \subseteq PatchPlaces /\ pos \notin DonePatches
        BY <4>1, <4>3 DEF DonePatches, PatchesOf, PatchPlaces
      <4>5. Cardinality(DonePatches \cup {pos}) = d + 1
        BY <4>4, PatchSets, FS_AddElement DEF DonePatches
      <4>6. Cardinality(DonePatches \cup {pos}) <= Cardinality(PatchPlaces)
        BY <4>4, <3>3, FS_Subset
      <4> HIDE DEF d, o
      <4> QED
        BY <4>5, <4>6, <3>3
    <3> HIDE DEF m, d, o
    <3>7. m <= o
      BY <3>1, <3>2, <3>4, <3>5, <3>6
    <3> QED
      BY <3>7 DEF m, o
  <2> QED
    BY <2>1, <2>2 DEF GrantIsUsedOnce
<1> QED
  BY <1>1, CountsHold, PTL DEF Spec
=============================================================================
