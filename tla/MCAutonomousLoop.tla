--------------------------- MODULE MCAutonomousLoop ---------------------------
(* Two repositories; an open pull request of the second comes before shipping *)
(* the first once it is chronic.                                              *)
EXTENDS AutonomousLoop, TLC

CONSTANTS r1, r2
MCRepositories == <<r1, r2>>
MCFact == r1 :> {"shippable"} @@ r2 :> {"reviewable"}
=============================================================================
