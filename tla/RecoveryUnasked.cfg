CONSTANTS
  Offered = {"fetch", "rebase"}
  Foreign = {"rebase"}
  MaxFaults = 1
  None = None
SPECIFICATION Spec
INVARIANTS ApprovalsReachAChat
