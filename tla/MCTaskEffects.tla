--------------------------- MODULE MCTaskEffects ---------------------------
EXTENDS TaskEffects

\* internal_api.request is APPROVAL_REQUIRED by default, jira.transition_issue by an override.
OverriddenGuarded == {Request, Transition}

Writeback == [scenario |-> "writeback", tools |-> <<Comment, Transition>>]
SingleTool == [scenario |-> "tool", tools |-> <<Request>>]
Develop == [scenario |-> "develop", tools |-> <<Patch, Patch, Transition>>]
Muted == [Writeback EXCEPT !.scenario = "muted"]
AllPlans == {Writeback, SingleTool, Develop, Muted}
=============================================================================
