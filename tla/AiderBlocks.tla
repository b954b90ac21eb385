------------------------------ MODULE AiderBlocks ------------------------------
(***************************************************************************)
(* What becomes of a model's answer in search/replace blocks               *)
(* (services/aider_format.py, and _parse_response_aider with               *)
(* _call_deepseek in services/codegen.py): the texts the blocks are        *)
(* applied to are loaded, anchors on text the truncated prompt shows and   *)
(* the file lacks are sent back as a request for evidence, the blocks are  *)
(* applied one after the other in memory, and one second answer is asked   *)
(* for when that fails.                                                    *)
(*                                                                         *)
(* A text is a sequence of tokens.                                         *)
(***************************************************************************)
EXTENDS Integers, Sequences, FiniteSets, SequencesExt

CONSTANTS
    Paths,         \* files a block can name
    Trees,         \* what may be on disk: functions from Paths to texts, NoText where no file is
    Views,         \* what the prompt may show of the files: the same kind of functions
    Anchors,       \* texts of a SEARCH
    Replacements,  \* texts of a REPLACE
    MaxBlocks,     \* blocks in an answer
    NoText

Texts == UNION {{t[p] : p \in Paths} : t \in Trees \union Views}
AdTokens == UNION {{s[i] : i \in DOMAIN s} : s \in (Texts \ {NoText}) \union Anchors \union Replacements}

ASSUME AiderAssumption ==
    /\ \A t \in Trees \union Views : t \in [Paths -> Texts]
    /\ Texts \ {NoText} \subseteq Seq(AdTokens) /\ Anchors \union Replacements \subseteq Seq(AdTokens)
    /\ NoText \notin Seq(AdTokens) /\ MaxBlocks \in Nat

VARIABLES
    adDisk,    \* the files of source_repo_path
    adView,    \* _current_context_files
    adPhase,
    adTry,     \* the answer that is looked at: the first, or that to the prompt with the hint
    adBlocks,  \* blocks of the answer
    adBase,    \* originals: what _load_originals_for_blocks gives
    adAt,      \* idx of the next block
    adNow,     \* file_state, NoText for a file not in it
    adBefore,  \* file_before
    adErrors   \* indices of result.errors

adVars == <<adDisk, adView, adPhase, adTry, adBlocks, adBase, adAt, adNow, adBefore, adErrors>>

Nothing == [p \in Paths |-> NoText]
AdBlock == [file : Paths, search : Anchors, replace : Replacements, fresh : BOOLEAN]

AdTypeOK ==
    /\ adDisk \in Trees /\ adView \in Views
    /\ adPhase \in {"ask", "load", "apply", "finish", "diff", "gap", "raised"}
    /\ adTry \in 1..2
    /\ adBlocks \in BoundedSeq(AdBlock, MaxBlocks)
    /\ adBase \in [Paths -> Texts \union {NoText, <<>>}]
    /\ adAt \in 1..MaxBlocks + 1
    /\ \A p \in Paths : adBefore[p] \in Texts \union {NoText, <<>>}
    /\ \A p \in Paths : (adNow[p] = NoText) = (adBefore[p] = NoText)
    /\ adErrors \subseteq 1..MaxBlocks

AdInit ==
    /\ adDisk \in Trees /\ adView \in Views
    /\ adPhase = "ask" /\ adTry = 1 /\ adBlocks = <<>> /\ adBase = Nothing
    /\ adAt = 1 /\ adNow = Nothing /\ adBefore = Nothing /\ adErrors = {}

-----------------------------------------------------------------------------
(* Where an anchor starts in a text. *)
Occurs(search, text) ==
    {i \in 1..Len(text) - Len(search) + 1 : SubSeq(text, i, i + Len(search) - 1) = search}

(* str.count(search) == 1.  It counts from the left and goes on behind each occurrence it has  *)
(* counted, so that another one counts only where it does not overlap with the first.             *)
OccursOnce(search, text) ==
    \E i \in Occurs(search, text) :
        \A j \in Occurs(search, text) : i <= j /\ j < i + Len(search)

(* str.replace(search, replace, 1). *)
ReplacedOnce(text, search, replace) ==
    LET i == CHOOSE j \in Occurs(search, text) : \A k \in Occurs(search, text) : j <= k
    IN SubSeq(text, 1, i - 1) \o replace \o SubSeq(text, i + Len(search), Len(text))

(* Mutant: what the prompt shows comes before the file on disk. *)
OriginalAsShown(p, fresh) ==
    IF fresh THEN <<>>
    ELSE IF adView[p] # NoText THEN adView[p]
    ELSE IF adDisk[p] # NoText THEN adDisk[p] ELSE <<>>

(* The file on disk, else what the prompt shows of it, else nothing; and nothing for the file *)
(* whose first block creates it, whether or not it is there.                                   *)
OriginalOf(p, fresh) ==
    IF fresh THEN <<>>
    ELSE IF adDisk[p] # NoText THEN adDisk[p]
    ELSE IF adView[p] # NoText THEN adView[p] ELSE <<>>

FirstOf(p, blocks) ==
    LET of == {i \in DOMAIN blocks : blocks[i].file = p} IN CHOOSE i \in of : \A j \in of : i <= j

Originals(blocks) ==
    [p \in Paths |-> IF \E i \in DOMAIN blocks : blocks[i].file = p
                     THEN OriginalOf(p, blocks[FirstOf(p, blocks)].fresh) ELSE NoText]

(* The anchor is in the prompt and not in the text the block is applied to. *)
OnStub(b) ==
    /\ b.search # <<>> /\ ~b.fresh
    /\ Occurs(b.search, adBase[b.file]) = {}
    /\ adView[b.file] # NoText /\ Occurs(b.search, adView[b.file]) # {}

-----------------------------------------------------------------------------
(* A marker at the head of the answer: a request for evidence goes to the recovery of the *)
(* attempt, every other one is the end of the call.                                         *)
Marked(asks) ==
    /\ adPhase = "ask"
    /\ adPhase' = IF asks THEN "gap" ELSE "raised"
    /\ UNCHANGED <<adDisk, adView, adTry, adBlocks, adBase, adAt, adNow, adBefore, adErrors>>

(* Mutant: one answer more than the second. *)
RefusedOnceMore ==
    /\ IF adTry <= 2 THEN adTry' = adTry + 1 /\ adPhase' = "ask"
                     ELSE adTry' = adTry /\ adPhase' = "raised"
    /\ adBlocks' = <<>> /\ adBase' = Nothing
    /\ adAt' = 1 /\ adNow' = Nothing /\ adBefore' = Nothing /\ adErrors' = {}

(* Mutant: the answers are not counted. *)
RefusedUncounted ==
    /\ adTry' = adTry /\ adPhase' = "ask"
    /\ adBlocks' = <<>> /\ adBase' = Nothing
    /\ adAt' = 1 /\ adNow' = Nothing /\ adBefore' = Nothing /\ adErrors' = {}

(* The second time an answer cannot be used the error leaves the call. *)
Refused ==
    /\ IF adTry = 1 THEN adTry' = 2 /\ adPhase' = "ask" ELSE adTry' = adTry /\ adPhase' = "raised"
    /\ adBlocks' = <<>> /\ adBase' = Nothing
    /\ adAt' = 1 /\ adNow' = Nothing /\ adBefore' = Nothing /\ adErrors' = {}

Unparsable ==
    /\ adPhase = "ask"
    /\ Refused
    /\ UNCHANGED <<adDisk, adView>>

(* parse_aider_blocks: only the first block under a NEW FILE header is one of a new file. *)
Answer(blocks) ==
    /\ adPhase = "ask" /\ blocks # <<>>
    /\ adBlocks' = blocks /\ adBase' = Originals(blocks)
    /\ adPhase' = "load"
    /\ UNCHANGED <<adDisk, adView, adTry, adAt, adNow, adBefore, adErrors>>

(* _detect_stub_anchor_requests looks at every block before the first is applied. *)
AdLoaded ==
    /\ adPhase = "load"
    /\ adPhase' = IF \E i \in DOMAIN adBlocks : OnStub(adBlocks[i]) THEN "gap" ELSE "apply"
    /\ UNCHANGED <<adDisk, adView, adTry, adBlocks, adBase, adAt, adNow, adBefore, adErrors>>

(* Mutant: every block is applied to the original. *)
EnteredAnew(b) == adBase[b.file]

(* A file comes into the state with the block that names it first.  The refusals of the code,  *)
(* for a file without an original and for a new file with one, cannot happen: the originals     *)
(* name every file of the blocks and are empty for one whose first block is of a new file.        *)
Entered(b) ==
    IF adNow[b.file] # NoText THEN adNow[b.file] ELSE adBase[b.file]

(* One block: an empty SEARCH sets a new file and extends another one, every other SEARCH has *)
(* to be counted once.                                                                          *)
ApplyBlock ==
    /\ adPhase = "apply" /\ adAt <= Len(adBlocks)
    /\ LET b == adBlocks[adAt]
           text == Entered(b)
           enter == IF adNow[b.file] = NoText THEN [adBefore EXCEPT ![b.file] = text] ELSE adBefore
           Becomes(t) == /\ adNow' = [adNow EXCEPT ![b.file] = t]
                         /\ adBefore' = enter
       IN \/ /\ b.search = <<>>
             /\ Becomes(IF b.fresh THEN b.replace ELSE text \o b.replace)
             /\ UNCHANGED adErrors
          \/ /\ b.search # <<>> /\ OccursOnce(b.search, text)
             /\ Becomes(ReplacedOnce(text, b.search, b.replace))
             /\ UNCHANGED adErrors
          \/ /\ b.search # <<>> /\ ~OccursOnce(b.search, text)
             /\ Becomes(text)
             /\ adErrors' = adErrors \union {adAt}
    /\ adAt' = adAt + 1
    /\ UNCHANGED <<adDisk, adView, adPhase, adTry, adBlocks, adBase>>

(* An error of any block, or a diff without a line, refuses the whole answer. *)
Touched == {p \in Paths : adNow[p] # NoText /\ adNow[p] # adBefore[p]}

Finish ==
    /\ adPhase = "apply" /\ adAt = Len(adBlocks) + 1
    /\ IF adErrors # {} \/ Touched = {}
       THEN Refused
       ELSE /\ adPhase' = "diff"
            /\ UNCHANGED <<adTry, adBlocks, adBase, adAt, adNow, adBefore, adErrors>>
    /\ UNCHANGED <<adDisk, adView>>

AdNext ==
    \/ \E asks \in BOOLEAN : Marked(asks)
    \/ \E blocks \in BoundedSeq(AdBlock, MaxBlocks) : Answer(blocks)
    \/ Unparsable \/ AdLoaded \/ ApplyBlock \/ Finish

AdSpec == AdInit /\ [][AdNext]_adVars /\ WF_adVars(AdNext)
-----------------------------------------------------------------------------
(* The diff is one of the file as it is on disk, not as the prompt shows it: the comment of    *)
(* _parse_response_aider tells what a diff in the lines of the truncated view did.               *)
AppliesToOriginal ==
    adPhase = "diff" =>
        \A p \in Touched : adDisk[p] # NoText /\ ~adBlocks[FirstOf(p, adBlocks)].fresh
                             => adBefore[p] = adDisk[p]

(* Every block of an answer that becomes a diff has had its effect once, those on text an        *)
(* earlier block wrote included: the lengths add up in every file no block creates.               *)
Growth(i, p) ==
    IF adBlocks[i].file = p THEN Len(adBlocks[i].replace) - Len(adBlocks[i].search) ELSE 0

EditsAddUp ==
    adPhase = "diff" =>
        \A p \in Touched :
            (\A i \in DOMAIN adBlocks : adBlocks[i].file = p => ~adBlocks[i].fresh)
            => Len(adNow[p]) = Len(adBefore[p])
                               + FoldSeq(+, 0, [i \in DOMAIN adBlocks |-> Growth(i, p)])

(* An answer becomes a diff, a request for evidence or an error. *)
AnswerIsOver == adPhase \in {"diff", "gap", "raised"}
=============================================================================
