------------------------- MODULE MCApprovalProvider -------------------------
(* An instance of ApprovalProvider for TLC: two Telegram correlationIds and  *)
(* one that is not Telegram's, an operator and a stranger.                   *)
EXTENDS ApprovalProvider

CONSTANTS c1, c2, uuid, operator, stranger

MCParsable == {c1, c2}
MCCorrelation == {c1, c2, uuid}
MCAuthorized == {operator}
MCUser == {operator, stranger}
=============================================================================
