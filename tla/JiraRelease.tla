----------------------------- MODULE JiraRelease -----------------------------
(***************************************************************************)
(* What the develop pipeline promises the owner of the Jira issue when     *)
(* settings.develop_require_jira_approval is on: the issue is moved only   *)
(* after a human has granted that, and it is moved once.                   *)
(***************************************************************************)
EXTENDS Naturals

VARIABLES
    phase,      \* "working", "asked", "authorised" or "ended"
    releases    \* Jira transitions made

vars == <<phase, releases>>

Init == phase = "working" /\ releases = 0

Ask == phase = "working" /\ phase' = "asked" /\ UNCHANGED releases

\* Granted or rejected.
Decide == phase = "asked" /\ phase' \in {"authorised", "ended"} /\ UNCHANGED releases

Move == phase = "authorised" /\ releases = 0 /\ releases' = 1 /\ UNCHANGED phase

\* The work is given up, or it is done.
End ==
    /\ phase \in {"working", "authorised"} /\ phase' = "ended"
    /\ UNCHANGED releases

Next == Ask \/ Decide \/ Move \/ End

Spec == Init /\ [][Next]_vars

=============================================================================
