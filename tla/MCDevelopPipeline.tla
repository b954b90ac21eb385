-------------------------- MODULE MCDevelopPipeline --------------------------
EXTENDS DevelopPipeline

\* Which budgets an instance gives; MAX_CONFORMANCE_ATTEMPTS counts the first attempt.
Attempts(once) == [kind \in Kinds |-> IF kind = "conformance" THEN IF kind \in once THEN 2 ELSE 1
                                      ELSE IF kind \in once THEN 1 ELSE 0]

NoAttempts == Attempts({})
MixedAttempts == Attempts({"conformance", "semantic", "reservation"})
WorkAttempts == Attempts({"scope", "conformance", "semantic", "reservation"})
LiveAttempts == Attempts({"coverage"})

JiraOnly == {"jira_approval"}
PlanApproved == {"jira_approval", "plan_approval"}
Lossless == {"jira_approval", "plan_approval", "contracts", "incomplete", "cap_approval", "hand_edit",
             "conformance_error"}
Loose == {"jira_approval", "plan_approval", "feature_repair", "compile_skip"}

=============================================================================
