CONSTANTS
  Nodes = {n1, n2}
  NoNode = NoNode
  Faults = {"selections", "settings", "config", "core"}
SPECIFICATION Spec
INVARIANT ShownIsLive
  
