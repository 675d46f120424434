CONSTANTS
  off = off
  direct = direct
  port1 = port1
  port2 = port2
  Partial = Partial
  NoHint = NoHint
  NoProxy = off
  Originals = {off, direct}
  Endpoints = {port1, port2}
  Corruption = TRUE
  SessionEndHook = TRUE
SPECIFICATION Spec
PROPERTY NothingAppliedOverCorrupt
