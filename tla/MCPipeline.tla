----------------------------- MODULE MCPipeline -----------------------------
(* Instances of Pipeline for TLC.                                           *)
EXTENDS Pipeline, TLC

CONSTANTS q1, q2
MCRequest == {q1, q2}
MCSymmetry == Permutations(MCRequest)

Literal(task) == [kind |-> "task", task |-> task]
Ship == [kind |-> "pipeline", task |-> "create-commit"]
MCAsk == {Literal("implement-feature"), Literal("explain-code"), Ship}

=============================================================================
