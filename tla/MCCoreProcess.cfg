CONSTANTS
  Pids = {p1, p2, p3}
  NoPid = NoPid
  Faults = {"spawn", "pidFile", "health", "key", "unkillable", "helper", "late", "scan"}
SPECIFICATION Spec
INVARIANTS HeldIsNamed NoneForgotten
PROPERTIES StrangersLive ReleasedMeansGone
