--------------------------- MODULE MCFailureState ---------------------------
(* Instances of FailureState for TLC.                                       *)
EXTENDS FailureState

CONSTANTS c1, c2, sync, push

MCCall == {c1, c2}
MCKey  == {sync, push}
=============================================================================
