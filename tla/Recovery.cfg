CONSTANTS
  Offered = {"fetch", "merge", "rebase", "commit", "push", "create"}
  Foreign = {"rebase", "bisect"}
  MaxFaults = 2
  None = None
SPECIFICATION Spec
INVARIANTS RefusalHasAPlan KilledIsRecovering
