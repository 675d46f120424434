CONSTANTS
  MaxJobs = 1
  MaxDrifts = 1
SPECIFICATION FairSpec
INVARIANTS MemoAfterClear ServedIsTrue RequestKept
PROPERTY TruthSettles
