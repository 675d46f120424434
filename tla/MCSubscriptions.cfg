CONSTANTS
  Subs = {s1, s2}
  None = None
  Same = Same
  MaxVersion = 1
  Faults = {"staging", "rename", "remove", "index"}
SPECIFICATION Spec
INVARIANTS NoneResurrected ContentSurvives TagNeverAhead CacheIsCurrent ConfigFollows
PROPERTY ImplementsStore
SYMMETRY Swaps
