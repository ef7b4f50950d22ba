--------------------------- MODULE Recommendations ---------------------------
(***************************************************************************)
(* RecommendationEngine: what to do next about a repository, from what is  *)
(* true of it. Reasons and evidence are wording, and left out.             *)
(***************************************************************************)

\* failing: a task or workflow has failed often enough to be critical
\* risky: several warnings at once      unclean: uncommitted changes
\* behind: commits to pull              reviewable: an open pull request
\* shippable: WorkflowReadiness.canShip session: an active Claude session
RepositoryFact == {"failing", "risky", "unclean", "behind", "reviewable",
                   "shippable", "session"}

Advice(kind, category, priority) ==
  [kind |-> kind, category |-> category, priority |-> priority]

RepeatedFailures(f) ==
  IF "failing" \in f THEN {Advice("RepeatedFailures", "blocking", "critical")}
  ELSE {}

ReviewChanges(f) ==
  IF "risky" \in f THEN {Advice("ReviewChanges", "blocking", "critical")}
  ELSE IF "unclean" \in f THEN {Advice("ReviewChanges", "advisory", "medium")}
  ELSE {}

PullRequired(f) ==
  IF "behind" \in f THEN {Advice("PullRequired", "blocking", "high")} ELSE {}

ReviewPullRequest(f) ==
  IF "reviewable" \in f THEN {Advice("ReviewPullRequest", "advisory", "high")}
  ELSE {}

ShipOrContinue(f) ==
  IF "shippable" \in f
  THEN {Advice("RepositoryReadyToShip", "advisory", "medium")}
  ELSE IF "session" \in f THEN {Advice("ContinueSession", "advisory", "medium")}
  ELSE {}

Recommend(f) ==
  RepeatedFailures(f) \cup ReviewChanges(f) \cup PullRequired(f)
    \cup ReviewPullRequest(f) \cup ShipOrContinue(f)

IsUrgent(advice) ==
  advice.category = "blocking" \/ advice.priority \in {"critical", "high"}

Kind == {a.kind : a \in UNION {Recommend(f) : f \in SUBSET RepositoryFact}}

=============================================================================
