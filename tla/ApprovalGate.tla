---------------------------- MODULE ApprovalGate ----------------------------
(***************************************************************************)
(* What an approval provider promises ApprovalEngine: a request is pending *)
(* until it is approved or denied, or is denied at once; only the restart  *)
(* of the process loses it. ApprovalProvider implements this module.       *)
(***************************************************************************)
CONSTANT Correlation

VARIABLE gate   \* the last request of each correlationId

Init == gate = [c \in Correlation |-> "idle"]

Ask(c) ==
    /\ gate[c] # "asked"
    /\ \E g \in {"asked", "denied"} : gate' = [gate EXCEPT ![c] = g]

Decide(c, d) ==
    /\ gate[c] = "asked"
    /\ gate' = [gate EXCEPT ![c] = d]

Lose ==
    gate' = [c \in Correlation |-> IF gate[c] = "asked" THEN "lost" ELSE gate[c]]

Next ==
    \/ \E c \in Correlation :
          Ask(c) \/ \E d \in {"approved", "denied"} : Decide(c, d)
    \/ Lose

Spec == Init /\ [][Next]_gate

FairSpec ==
    Spec /\ \A c \in Correlation :
               WF_gate(\E d \in {"approved", "denied"} : Decide(c, d))
=============================================================================
