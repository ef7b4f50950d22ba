CONSTANTS
  Artifact = {a1, a2}
  Deleter = {d1, d2}
  Rebuilder = {r1, r2}
  MaxFaults = 2
  None = None
SPECIFICATION StoreSpec
INVARIANTS IndexAgrees ListedIsFetchable
