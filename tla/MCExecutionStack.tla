-------------------------- MODULE MCExecutionStack --------------------------
(* An instance of ExecutionStack for TLC: a workflow whose steps differ in  *)
(* what they are gated by and whether they can be cancelled, a gated task   *)
(* that asks for an approval of its own, and a plain one, on one repository *)
(* of two.                                                                  *)
EXTENDS ExecutionStack, TLC

CONSTANTS ship, rebase, fix, here, there

MCExecution  == {ship, rebase, fix}
MCWorkflow   == {ship}
MCRepository == {here, there}
MCRepo  == (ship :> here) @@ (rebase :> here) @@ (fix :> here)
MCSteps == (ship :> <<"review-code", "push-changes">>)
           @@ (rebase :> <<"rebase">>)
           @@ (fix :> <<"fix-bug">>)
MCGated == {"push-changes", "rebase"}
MCAsking == {"rebase"}
MCCancellable == {"review-code", "fix-bug"}
=============================================================================
